------------------------------ MODULE PbProofs ------------------------------
(***************************************************************************)
(* What is proved of the Python protobuf runtime: the invariants of        *)
(* PbMessage for any number of message objects and reading threads, of a   *)
(* message type that is no MessageSet, and the conversions of PbNumbers    *)
(* that work on integers of every size.                                    *)
(***************************************************************************)
EXTENDS PbMessage, PbNumbers, TLAPS

-----------------------------------------------------------------------------
(* The inductive invariant.                                                 *)

Types ==
    /\ state \in [Obj -> {"free", "made", "live", "gone"}]
    /\ dirty \in [Obj -> BOOLEAN]
    /\ flag \in [Obj -> BOOLEAN]
    /\ present \in [Obj -> BOOLEAN]
    /\ listener \in [Obj -> Obj \union {NoObj}]
    /\ scalar \in [Obj -> 0..MaxScalar]
    /\ rep \in [Obj -> 0..MaxScalar]
    /\ child \in [Obj -> Obj \union {NoObj}]
    /\ elems \in [Obj -> SUBSET Obj]
    /\ DOMAIN cached = Obj

\* A message that no client has seen is as new.
Blank == \A x \in Obj : state[x] \in {"free", "made"} =>
    /\ ~dirty[x] /\ ~flag[x] /\ ~present[x]
    /\ cached[x] = 0
    /\ scalar[x] = 0 /\ rep[x] = 0 /\ child[x] = NoObj /\ elems[x] = {}
    /\ state[x] = "free" => listener[x] = NoObj

\* What a message holds notifies it.
HeldNotifies == \A p \in Live, c \in Obj :
    Holds(p, c) => state[c] = "live" /\ listener[c] = p

ListenersExist == \A c \in Obj :
    listener[c] # NoObj => state[listener[c]] \in {"live", "gone"}

FlagMeansDirty == \A p \in Obj : flag[p] => dirty[p]

DirtyAbove == \A p \in Live, c \in Obj : Holds(p, c) /\ dirty[c] => dirty[p]

DirtyMeansPresent == \A p \in Live : child[p] # NoObj /\ dirty[child[p]] => present[child[p]]

SizesKept == \A o \in Live : ~dirty[o] => cached[o] = FieldsSize(o)

\* The part of the invariant that the steps of the fields must keep.
Core ==
    /\ Types
    /\ Blank
    /\ HeldNotifies
    /\ ListenersExist
    /\ FlagMeansDirty
    /\ DirtyAbove
    /\ DirtyMeansPresent
    /\ SizesKept
    /\ SetFieldsArePresent
    /\ StaleNoticesHarmless

WorkRight ==
    /\ merging \subseteq [into : Obj, from : Obj]
    /\ \A m \in merging : m.into \in Live
    /\ parsing \in Seq(Obj)
    /\ \A i \in 1..Len(parsing) : parsing[i] \in Live /\ dirty[parsing[i]]

GettersRight ==
    /\ pending \in [Thread -> [of : Obj \union {NoObj}, made : Obj \union {NoObj}]]
    /\ \A t \in Thread : pending[t] # NoGetter =>
        /\ pending[t].of \in Live
        /\ pending[t].made \in Obj
        /\ state[pending[t].made] = "made"
        /\ listener[pending[t].made] = pending[t].of
    /\ \A s, t \in Thread :
        pending[s] # NoGetter /\ pending[s].made = pending[t].made => s = t

HandedRight ==
    /\ handed \subseteq Obj \X Obj
    /\ \A h \in handed : h[1] \in Live /\ child[h[1]] = h[2]

Inv == Core /\ WorkRight /\ GettersRight /\ HandedRight

-----------------------------------------------------------------------------
(* What Modified() does.                                                    *)

\* The messages Modified() reaches were clean and alive, the first one is dirty
\* afterwards, and a message that notifies another one leaves it dirty.
LEMMA WaveFacts ==
    ASSUME Types, FlagMeansDirty,
           NEW o \in Obj, NEW S \in SUBSET Obj, NEW notifies,
           IsWave(o, S, notifies)
    PROVE  /\ dirty[o] \/ o \in S
           /\ \A q \in S : ~dirty[q] /\ (q = o \/ state[q] = "live")
           /\ \A q \in S, p \in Obj :
                notifies[q] = p /\ (p = o \/ state[p] = "live") => dirty[p] \/ p \in S
BY DEF IsWave, Types, FlagMeansDirty

(* A call on o, which may make messages that it then holds (fresh) and of   *)
(* which some were made with keyword arguments (D).                         *)
Change(o, fresh, D, S) ==
    /\ o \in Live
    /\ Make(fresh, o)
    /\ D \subseteq fresh
    /\ SetBits(S, D)
    /\ S \in SUBSET Obj
    /\ \A q \in S : ~dirty[q] /\ (q \in fresh \/ state[q] = "live")
    /\ \A q \in S, p \in Obj : listener'[q] = p /\ state[p] = "live" => dirty[p] \/ p \in S
    /\ dirty[o] \/ o \in S
    /\ cached' = cached
    /\ scalar' \in [Obj -> 0..MaxScalar]
    /\ rep' \in [Obj -> 0..MaxScalar]
    /\ child' \in [Obj -> Obj \union {NoObj}]
    /\ elems' \in [Obj -> SUBSET Obj]
    /\ \A p \in Obj \ ({o} \union fresh) : scalar'[p] = scalar[p] /\ rep'[p] = rep[p]
    /\ \A p \in Obj \ {o} : child'[p] = child[p] /\ elems'[p] = elems[p]
    /\ \A x \in fresh : Holds(o, x)'
    /\ \A x \in fresh : scalar'[x] # 0 \/ rep'[x] # 0 => x \in D
    /\ \A x \in D : x # child'[o]
    /\ child'[o] \in {child[o], NoObj} \union fresh
    /\ elems'[o] \subseteq elems[o] \union fresh

\* The size of a message that has no message fields is that of its scalars.
LEMMA NothingListed ==
    ASSUME NEW n, NEW sizes, DOMAIN sizes = {} PROVE SizeOf(n, sizes) = n
BY Zenon DEF SizeOf

\* A change of one message that makes it dirty, with the wave that follows, keeps
\* the sizes, the presence and the notices right.
LEMMA ChangeKeepsCore ==
    ASSUME Core, PbMessageAssumption,
           NEW o \in Obj, NEW fresh \in SUBSET Obj, NEW D \in SUBSET Obj,
           NEW S \in SUBSET Obj, Change(o, fresh, D, S)
    PROVE  Core'
<1> USE DEF Core
<1>1. Types'
  BY DEF Types, Change, Make, SetBits, Live, Free
<1>2. /\ state[o] = "live" /\ state'[o] = "live" /\ dirty'[o]
      /\ \A x \in fresh : state[x] = "free" /\ state'[x] = "live" /\ listener'[x] = o
      /\ \A x \in Obj \ fresh : state'[x] = state[x] /\ listener'[x] = listener[x]
      /\ \A p \in Obj : /\ dirty'[p] <=> dirty[p] \/ p \in S \/ p \in D
                        /\ flag'[p] <=> flag[p] \/ p \in S
                        /\ present'[p] <=> present[p] \/ p \in S
  BY DEF Change, Make, SetBits, Live, Free, Types
<1>3. \A p \in Obj, c \in Obj : Holds(p, c)' /\ p # o => Holds(p, c)
  BY DEF Holds, Change
<1>4. \A p \in Obj, c \in Obj : p # o /\ state'[p] = "live" /\ Holds(p, c)' =>
        p \notin fresh /\ state[p] = "live" /\ Holds(p, c)
        /\ state[c] = "live" /\ listener[c] = p /\ c \notin fresh
  BY <1>2, <1>3, PbMessageAssumption DEF Blank, Holds, HeldNotifies, Live, Types, Change
<1>5. \A c \in Obj : Holds(o, c)' => c \in fresh \/ Holds(o, c)
  BY <1>2, PbMessageAssumption DEF Holds, Change
<1>6. Blank'
  BY <1>2 DEF Blank, Change, Live, Types
<1>7. HeldNotifies'
  BY <1>2, <1>4, <1>5 DEF HeldNotifies, Live, Types
<1>8. ListenersExist'
  BY <1>1, <1>2 DEF ListenersExist, Types, Change
<1>9. FlagMeansDirty'
  BY <1>2 DEF FlagMeansDirty
<1>10. DirtyAbove'
  <2> SUFFICES ASSUME NEW p \in Live', NEW c \in Obj, Holds(p, c)', dirty'[c], p # o
               PROVE  dirty'[p]
    BY <1>2 DEF DirtyAbove
  <2>1. /\ p \in Obj /\ state'[p] = "live"
        /\ state[p] = "live" /\ Holds(p, c) /\ listener[c] = p /\ c \notin fresh
    BY <1>4 DEF Live
  <2>2. c \notin D /\ listener'[c] = p
    BY <1>2, <2>1 DEF Change
  <2>3. CASE dirty[c]
    BY <2>1, <2>3, <1>2 DEF DirtyAbove, Live
  <2>4. CASE c \in S
    BY <2>1, <2>2, <2>4, <1>2 DEF Change
  <2> QED BY <2>2, <2>3, <2>4, <1>2
<1>11. DirtyMeansPresent'
  <2> SUFFICES ASSUME NEW p \in Live', NEW c \in Obj, c = child'[p], dirty'[c]
               PROVE  present'[c]
    BY <1>1 DEF DirtyMeansPresent, Types, Live
  <2>1. p \in Obj /\ Holds(p, c)' /\ state'[p] = "live"
    BY DEF Holds, Live
  <2>2. c \notin D
    BY <2>1, <1>2, <1>4 DEF Change
  <2>3. CASE dirty[c]
    <3>1. c \notin fresh
      BY <2>3, <1>2 DEF Blank
    <3>2. c = child[p] /\ state[p] = "live"
      BY <2>1, <3>1, <1>2, <1>4 DEF Change
    <3> QED BY <3>2, <2>3, <2>1, <1>2 DEF DirtyMeansPresent, Live
  <2> QED BY <2>1, <2>2, <2>3, <1>2
<1>12. \A p \in Obj : state[p] = "live" /\ p # o /\ dirty'[p] = FALSE =>
        ListedMessages(p)' = ListedMessages(p)
  <2> SUFFICES ASSUME NEW p \in Obj, state[p] = "live", p # o, ~dirty'[p]
               PROVE  ListedMessages(p)' = ListedMessages(p)
    OBVIOUS
  <2>1. child'[p] = child[p] /\ elems'[p] = elems[p] /\ child[p] \in Obj \union {NoObj}
    BY DEF Change, Types
  <2>2. child[p] # NoObj => present'[child[p]] = present[child[p]]
    <3> SUFFICES ASSUME child[p] # NoObj, child[p] \in S PROVE FALSE
      BY <2>1, <1>1, <1>2 DEF Types
    <3>1. Holds(p, child[p]) /\ state[child[p]] = "live" /\ listener[child[p]] = p
      BY <2>1 DEF Holds, HeldNotifies, Live
    <3>2. listener'[child[p]] = p
      BY <2>1, <3>1, <1>2 DEF Types
    <3> QED BY <2>1, <3>2, <1>2 DEF Change
  <2> QED BY <2>1, <2>2 DEF ListedMessages
<1>13. SizesKept'
  <2> SUFFICES ASSUME NEW p \in Live', ~dirty'[p] PROVE cached'[p] = FieldsSize(p)'
    BY DEF SizesKept
  <2>0. p \in Obj /\ state'[p] = "live" /\ p # o /\ cached' = cached
    BY <1>2 DEF Live, Change
  <2>1. CASE p \in fresh
    <3>1. scalar'[p] = 0 /\ rep'[p] = 0 /\ child'[p] = NoObj /\ elems'[p] = {} /\ cached'[p] = 0
      BY <2>0, <2>1, <1>2 DEF Change, Blank
    <3>2. ListedMessages(p)' = {}
      BY <3>1 DEF ListedMessages
    <3>3. FieldsSize(p)' = SizeOf(0 + 0, [x \in {} |-> cached'[x]])
      BY <3>1, <3>2 DEF FieldsSize
    <3> QED BY <3>1, <3>3, NothingListed
  <2>2. CASE p \notin fresh
    <3>1. state[p] = "live" /\ ~dirty[p]
      BY <2>0, <2>2, <1>2
    <3>2. scalar'[p] = scalar[p] /\ rep'[p] = rep[p]
      BY <2>0, <2>2 DEF Change
    <3>3. ListedMessages(p)' = ListedMessages(p)
      BY <2>0, <3>1, <1>12
    <3>4. FieldsSize(p)' = FieldsSize(p)
      BY <3>2, <3>3, <2>0 DEF FieldsSize
    <3> QED BY <3>1, <3>4, <2>0 DEF SizesKept, Live
  <2> QED BY <2>1, <2>2
<1>14. SetFieldsArePresent'
  <2> SUFFICES ASSUME NEW p \in Live', NEW c \in Obj, c = child'[p],
                      ListFields(c)' # <<0, 0, {}>>, ~dirty'[c]
               PROVE  present'[c]
    <3> SUFFICES ASSUME NEW p \in Live',
                        child'[p] # NoObj, ListFields(child[p])' # <<0, 0, {}>>
                 PROVE  present'[child'[p]]
      BY DEF SetFieldsArePresent
    <3>1. child'[p] \in Obj
      BY <1>1 DEF Types, Live
    <3>2. dirty'[child'[p]] => present'[child'[p]]
      BY <1>11 DEF DirtyMeansPresent
    <3> QED BY <3>1, <3>2 DEF ListFields, ListedMessages
  <2>1. p \in Obj /\ Holds(p, c)' /\ state'[p] = "live" /\ c # o
    BY <1>2 DEF Holds, Live
  <2>2. CASE c \in fresh
    <3>1. scalar'[c] = 0 /\ rep'[c] = 0 /\ child'[c] = NoObj /\ elems'[c] = {}
      BY <2>1, <2>2, <1>2 DEF Change, Blank
    <3> QED BY <3>1 DEF ListFields, ListedMessages
  <2>3. CASE c \notin fresh
    <3>1. c = child[p] /\ state[p] = "live"
      BY <2>1, <2>3, <1>2, <1>4 DEF Change
    <3>2. state[c] = "live"
      BY <2>1, <3>1 DEF HeldNotifies, Holds, Live
    <3>3. ListedMessages(c)' = ListedMessages(c)
      BY <2>1, <3>2, <1>12
    <3>4. ListFields(c)' = ListFields(c)
      BY <2>1, <2>3, <3>3 DEF ListFields, Change
    <3>5. present[c]
      BY <3>1, <3>4, <2>1 DEF SetFieldsArePresent, Live
    <3> QED BY <3>5, <2>1, <1>2
  <2> QED BY <2>2, <2>3
<1>15. StaleNoticesHarmless'
  <2> SUFFICES ASSUME NEW p \in Live', NEW q \in Live', NEW c \in Live',
                      p = child'[q], listener'[c] = p, ~Holds(p, c)'
               PROVE  present'[p]
    BY DEF StaleNoticesHarmless
  <2>1. /\ p \in Obj /\ q \in Obj /\ c \in Obj /\ p # NoObj
        /\ state'[p] = "live" /\ state'[q] = "live" /\ state'[c] = "live"
    BY PbMessageAssumption DEF Live
  <2>2. CASE dirty'[p]
    BY <2>1, <2>2, <1>11 DEF DirtyMeansPresent
  <2>3. CASE ~dirty'[p]
    <3>1. p # o /\ c \notin fresh /\ listener[c] = p /\ state[c] = "live"
      BY <2>1, <2>3, <1>2
    <3>2. p \notin fresh
      BY <3>1, <2>1, <1>2 DEF ListenersExist
    <3>3. p = child[q] /\ state[q] = "live" /\ state[p] = "live"
      BY <2>1, <3>2, <1>2, <1>4 DEF Change, Holds
    <3>4. ~Holds(p, c)
      BY <3>1, <2>1 DEF Holds, Change
    <3>5. present[p]
      BY <3>1, <3>3, <3>4, <2>1 DEF StaleNoticesHarmless, Live
    <3> QED BY <3>5, <2>1, <1>2
  <2> QED BY <2>2, <2>3
<1> QED
  BY <1>1, <1>6, <1>7, <1>8, <1>9, <1>10, <1>11, <1>13, <1>14, <1>15

-----------------------------------------------------------------------------
(* The parts of the invariant that concern getters, and what they returned. *)

\* A step that keeps messages, and the message fields that were handed out.
Keeps ==
    /\ \A x \in Obj : state[x] \in {"made", "live"} => state'[x] = state[x]
    /\ \A x \in Obj : state[x] = "made" => listener'[x] = listener[x]
    /\ pending' = pending

\* A step that leaves the messages made by getters alone keeps them as new.
LEMMA KeepsGetters ==
    ASSUME GettersRight, Keeps PROVE GettersRight'
BY DEF GettersRight, Keeps, Live

\* A step that is a call on o.
LEMMA ChangeKeeps ==
    ASSUME Core, GettersRight, PbMessageAssumption,
           NEW o \in Obj, NEW fresh \in SUBSET Obj, NEW D \in SUBSET Obj,
           NEW S \in SUBSET Obj, Change(o, fresh, D, S), pending' = pending
    PROVE  GettersRight' /\ Live \subseteq Live'
<1>1. Keeps
  BY DEF Change, Make, Free, Core, Types, Keeps
<1>2. Live \subseteq Live'
  BY <1>1 DEF Keeps, Live
<1> QED BY <1>1, <1>2, KeepsGetters

\* A change of one message keeps what getters handed out, where it is still held.
LEMMA ChangeKeepsHanded ==
    ASSUME Core, HandedRight, PbMessageAssumption,
           NEW o \in Obj, NEW fresh \in SUBSET Obj, NEW D \in SUBSET Obj,
           NEW S \in SUBSET Obj, Change(o, fresh, D, S),
           \/ child'[o] = child[o] /\ handed' = handed
           \/ child[o] = NoObj /\ handed' = handed
           \/ handed' = {h \in handed : h[1] # o}
    PROVE  HandedRight'
<1>1. \A p \in Live : p \in Live'
  BY DEF Change, Make, Free, Core, Types, Live
<1>2. handed' \subseteq handed
  OBVIOUS
<1>3. \A h \in handed' : h \in handed /\ (h[1] # o \/ child'[o] = child[o] \/ child[o] = NoObj)
  OBVIOUS
<1>4. \A h \in handed : h[1] \in Obj /\ h[2] \in Obj /\ h[1] \in Live /\ child[h[1]] = h[2]
  BY DEF HandedRight
<1>5. \A p \in Obj \ {o} : child'[p] = child[p]
  BY DEF Change
<1>6. \A h \in handed' : child'[h[1]] = h[2]
  BY <1>3, <1>4, <1>5, PbMessageAssumption
<1> QED BY <1>1, <1>2, <1>4, <1>6 DEF HandedRight

-----------------------------------------------------------------------------
(* A call that leaves child to fresh messages of its own.                   *)

\* A wave that starts at the message the call is on.
LEMMA ModifiedIsChange ==
    ASSUME Core, NEW o \in Live, NEW fresh \in SUBSET Obj, NEW D \in SUBSET fresh,
           Make(fresh, o), ModifiedWith(o, listener, D)
    PROVE  \E S \in SUBSET Obj :
             /\ SetBits(S, D)
             /\ \A q \in S : ~dirty[q] /\ (q \in fresh \/ state[q] = "live")
             /\ \A q \in S, p \in Obj :
                  listener'[q] = p /\ state[p] = "live" => dirty[p] \/ p \in S
             /\ dirty[o] \/ o \in S
<1>1. PICK S \in SUBSET Obj : IsWave(o, S, listener) /\ SetBits(S, D)
  BY DEF ModifiedWith
<1>2. /\ dirty[o] \/ o \in S
      /\ \A q \in S : ~dirty[q] /\ (q = o \/ state[q] = "live")
      /\ \A q \in S, p \in Obj :
           listener[q] = p /\ (p = o \/ state[p] = "live") => dirty[p] \/ p \in S
  BY <1>1, WaveFacts DEF Core, Live
<1>3. \A q \in S : q \notin fresh /\ listener'[q] = listener[q]
  BY <1>2 DEF Make, Free, Live, Core, Types
<1> QED BY <1>1, <1>2, <1>3 DEF Live

\* A wave that starts at the message x that o comes to hold.
LEMMA NestedIsChange ==
    ASSUME Core, NEW o \in Live, dirty[o], NEW fresh \in SUBSET Obj, NEW x \in Obj,
           Make(fresh, o), ModifiedWith(x, listener', {}), fresh = {x} \/ fresh = {},
           x \in Live \/ x \in fresh
    PROVE  \E S \in SUBSET Obj :
             /\ SetBits(S, {})
             /\ \A q \in S : ~dirty[q] /\ (q \in fresh \/ state[q] = "live")
             /\ \A q \in S, p \in Obj :
                  listener'[q] = p /\ state[p] = "live" => dirty[p] \/ p \in S
             /\ dirty[x] \/ x \in S
<1>1. PICK S \in SUBSET Obj : IsWave(x, S, listener') /\ SetBits(S, {})
  BY DEF ModifiedWith
<1>2. /\ dirty[x] \/ x \in S
      /\ \A q \in S : ~dirty[q] /\ (q = x \/ state[q] = "live")
      /\ \A q \in S, p \in Obj :
           listener'[q] = p /\ (p = x \/ state[p] = "live") => dirty[p] \/ p \in S
  BY <1>1, WaveFacts DEF Core, Live
<1> QED BY <1>1, <1>2 DEF Live
-----------------------------------------------------------------------------
(* The steps.                                                               *)

\* A step that changes no extent makes no message.
LEMMA NothingMade ==
    ASSUME Types, NEW o, UNCHANGED extent PROVE Make({}, o)
BY DEF Types, Make, extent

\* Steps that only read keep the core.
LEMMA CoreUnchanged ==
    ASSUME Core, UNCHANGED <<book, content, cached, extent>>
    PROVE  Core' /\ Live' = Live
<1> USE DEF Core, book, content, extent
<1>1. Live' = Live /\ \A p, c : Holds(p, c)' = Holds(p, c)
  BY DEF Live, Holds
<1>2. \A p : /\ FieldsSize(p)' = FieldsSize(p)
             /\ ListFields(p)' = ListFields(p)
  BY DEF FieldsSize, ListFields, ListedMessages
<1>3. Types' /\ Blank' /\ FlagMeansDirty' /\ ListenersExist'
  BY DEF Types, Blank, FlagMeansDirty, ListenersExist
<1>4. HeldNotifies' /\ DirtyAbove' /\ DirtyMeansPresent'
  BY <1>1 DEF HeldNotifies, DirtyAbove, DirtyMeansPresent
<1>5. SizesKept'
  BY <1>1, <1>2 DEF SizesKept
<1>6. SetFieldsArePresent'
  BY <1>1, <1>2 DEF SetFieldsArePresent
<1>7. StaleNoticesHarmless'
  BY <1>1 DEF StaleNoticesHarmless
<1> QED BY <1>1, <1>3, <1>4, <1>5, <1>6, <1>7

\* Steps that leave the extent and the getters alone keep the getters right.
LEMMA GettersUnchanged ==
    ASSUME GettersRight, UNCHANGED <<extent, pending>> PROVE GettersRight'
BY DEF GettersRight, extent, Live

\* A call on o that makes no message: the fields of o change, and o knows.
FieldCall(o) ==
    /\ o \in Live
    /\ Idle
    /\ UNCHANGED <<cached, extent, pending, work>>
    /\ Modified(o)
    /\ scalar' \in [Obj -> 0..MaxScalar]
    /\ rep' \in [Obj -> 0..MaxScalar]
    /\ child' \in [Obj -> Obj \union {NoObj}]
    /\ elems' \in [Obj -> SUBSET Obj]
    /\ \A p \in Obj \ {o} : /\ scalar'[p] = scalar[p] /\ rep'[p] = rep[p]
                            /\ child'[p] = child[p] /\ elems'[p] = elems[p]
    /\ child'[o] \in {child[o], NoObj}
    /\ elems'[o] \subseteq elems[o]
    /\ \/ child'[o] = child[o] /\ handed' = handed
       \/ handed' = {h \in handed : h[1] # o}

\* A call that sets or clears fields of o and calls Modified() keeps the invariant.
LEMMA FieldCallKeeps ==
    ASSUME Inv, PbMessageAssumption, NEW o \in Obj, FieldCall(o)
    PROVE  Inv'
<1> USE DEF Inv
<1>1. Make({}, o)
  BY NothingMade DEF FieldCall, Core
<1>2. PICK S \in SUBSET Obj :
        /\ SetBits(S, {})
        /\ \A q \in S : ~dirty[q] /\ (q \in {} \/ state[q] = "live")
        /\ \A q \in S, p \in Obj :
             listener'[q] = p /\ state[p] = "live" => dirty[p] \/ p \in S
        /\ dirty[o] \/ o \in S
  <2>1. o \in Live /\ ModifiedWith(o, listener, {})
    BY DEF FieldCall, Modified
  <2> QED BY <1>1, <2>1, ModifiedIsChange
<1>3. Change(o, {}, {}, S)
  BY <1>1, <1>2 DEF Change, FieldCall
<1>4. Core'
  BY <1>3, ChangeKeepsCore
<1>5. GettersRight' /\ Live \subseteq Live'
  BY <1>3, ChangeKeeps DEF FieldCall
<1>6. HandedRight'
  BY <1>3, ChangeKeepsHanded DEF FieldCall
<1>7. WorkRight'
  BY DEF WorkRight, FieldCall, Idle, work
<1> QED BY <1>4, <1>5, <1>6, <1>7

\* The setters, ClearField, Clear and the removals from lists keep the invariant.
LEMMA FieldsKeep ==
    ASSUME Inv, PbMessageAssumption, NEW o \in Obj, Fields(o)
    PROVE  Inv'
<1> SUFFICES FieldCall(o)
  BY FieldCallKeeps
<1>0. Types /\ 0 \in 0..MaxScalar
  BY DEF Inv, Core, PbMessageAssumption
<1>1. CASE SetScalar(o)
  BY <1>0, <1>1 DEF SetScalar, Mutates, FieldCall, Types, PutScalars, extent, reads, work
<1>2. CASE ChangeRepeated(o)
  BY <1>0, <1>2 DEF ChangeRepeated, Mutates, FieldCall, Types, PutScalars, extent, reads, work
<1>3. CASE DeleteMessages(o)
  BY <1>0, <1>3 DEF DeleteMessages, Mutates, FieldCall, Types, PutMessages, extent, reads, work
<1>4. CASE ClearField(o)
  BY <1>0, <1>4
     DEF ClearField, Mutates, FieldCall, Types, PutScalars, PutMessages, extent, work
<1>5. CASE Clear(o)
  BY <1>0, <1>5 DEF Clear, Mutates, FieldCall, Types, PutScalars, PutMessages, extent, work
<1>6. CASE SetInParent(o)
  BY <1>0, <1>6 DEF SetInParent, Mutates, FieldCall, Types, content, extent, reads, work
<1> QED BY <1>1, <1>2, <1>3, <1>4, <1>5, <1>6 DEF Fields

\* add() and extend() of a repeated message field keep the invariant.
LEMMA AdditionsKeep ==
    ASSUME Inv, PbMessageAssumption, NEW o \in Obj, NEW x \in Obj,
           \/ Add(o, x)
           \/ \E source \in Obj : ExtendMessages(o, x, source)
    PROVE  Inv'
<1> USE DEF Inv
<1>0. /\ Types /\ 0 \in 0..MaxScalar
      /\ o \in Live /\ Idle /\ Make({x}, o) /\ x \in Free
      /\ PutMessages(o, child[o], elems[o] \union {x})
      /\ cached' = cached /\ handed' = handed /\ pending' = pending
  BY DEF Add, ExtendMessages, Mutates, reads, Core, PbMessageAssumption, Make
<1>1. PICK D \in SUBSET {x} :
        /\ ModifiedWith(o, listener, D)
        /\ scalar' \in [Obj -> 0..MaxScalar]
        /\ rep' \in [Obj -> 0..MaxScalar]
        /\ \A p \in Obj \ {x} : scalar'[p] = scalar[p] /\ rep'[p] = rep[p]
        /\ scalar'[x] # 0 \/ rep'[x] # 0 => x \in D
  <2>1. CASE Add(o, x)
    <3>1. PICK n \in 0..MaxScalar :
            PutScalars(x, n, 0) /\ ModifiedWith(o, listener, {y \in {x} : n > 0})
      BY <2>1 DEF Add
    <3> QED BY <1>0, <3>1 DEF PutScalars, Types
  <2>2. CASE \E source \in Obj : ExtendMessages(o, x, source)
    <3>1. ModifiedWith(o, listener, {}) /\ scalar' = scalar /\ rep' = rep
      BY <2>2 DEF ExtendMessages, Modified
    <3> QED BY <1>0, <3>1 DEF Types, Core, Blank, Free
  <2> QED BY <2>1, <2>2
<1>2. PICK S \in SUBSET Obj :
        /\ SetBits(S, D)
        /\ \A q \in S : ~dirty[q] /\ (q \in {x} \/ state[q] = "live")
        /\ \A q \in S, p \in Obj :
             listener'[q] = p /\ state[p] = "live" => dirty[p] \/ p \in S
        /\ dirty[o] \/ o \in S
  BY <1>0, <1>1, ModifiedIsChange
<1>3. x # child[o] /\ x # o
  BY <1>0 DEF Core, HeldNotifies, Holds, Live, Free
<1>4. /\ child' = child
      /\ elems' \in [Obj -> SUBSET Obj]
      /\ elems'[o] = elems[o] \union {x}
      /\ \A p \in Obj \ {o} : elems'[p] = elems[p]
  BY <1>0 DEF PutMessages, Types
<1>5. Change(o, {x}, D, S)
  BY <1>0, <1>1, <1>2, <1>3, <1>4 DEF Change, Types, Holds
<1>6. Core' /\ GettersRight' /\ Live \subseteq Live'
  BY <1>0, <1>5, ChangeKeepsCore, ChangeKeeps
<1>7. HandedRight'
  BY <1>0, <1>4, <1>5, ChangeKeepsHanded
<1>8. WorkRight'
  <2>1. parsing' = <<>>
    BY <1>0 DEF Add, ExtendMessages, Idle, work
  <2>2. x \in Live'
    BY <1>0 DEF Make, Live
  <2>3. merging' = {} \/ \E source \in Obj : merging' = {[into |-> x, from |-> source]}
    BY <1>0 DEF Add, ExtendMessages, Idle, work
  <2> QED BY <2>1, <2>2, <2>3 DEF WorkRight
<1> QED BY <1>6, <1>7, <1>8
\* The message that is being parsed is alive and dirty.
LEMMA ParsesFacts ==
    ASSUME Inv, NEW o \in Obj, Parses(o)
    PROVE  o \in Live /\ dirty[o] /\ parsing # <<>> /\ parsing \in Seq(Obj)
BY DEF Inv, WorkRight, Parses

\* What a message inside a parse takes in keeps the invariant.
LEMMA ParseFieldKeeps ==
    ASSUME Inv, PbMessageAssumption, NEW o \in Obj, Parses(o),
           NEW fresh \in SUBSET Obj, NEW S \in SUBSET Obj, Change(o, fresh, {}, S),
           merging' = merging, pending' = pending, handed' = handed,
           child'[o] = child[o] \/ child[o] = NoObj,
           \/ parsing' = parsing
           \/ \E x \in Obj : x \in Live' /\ dirty'[x] /\ parsing' = <<x>> \o parsing
    PROVE  Inv'
<1> USE DEF Inv
<1>1. Core' /\ GettersRight' /\ Live \subseteq Live'
  BY ChangeKeepsCore, ChangeKeeps
<1>2. HandedRight'
  BY ChangeKeepsHanded
<1>3. \A p \in Obj : dirty[p] => dirty'[p]
  BY DEF Change, SetBits
<1>4. parsing \in Seq(Obj) /\ \A i \in 1..Len(parsing) : parsing[i] \in Live /\ dirty[parsing[i]]
  BY DEF WorkRight
<1>5. /\ parsing' \in Seq(Obj)
      /\ \A i \in 1..Len(parsing') : parsing'[i] \in Live' /\ dirty'[parsing'[i]]
  <2>1. CASE parsing' = parsing
    BY <2>1, <1>1, <1>3, <1>4 DEF Live
  <2>2. CASE \E x \in Obj : x \in Live' /\ dirty'[x] /\ parsing' = <<x>> \o parsing
    <3>1. PICK x \in Obj : x \in Live' /\ dirty'[x] /\ parsing' = <<x>> \o parsing
      BY <2>2
    <3>2. parsing' \in Seq(Obj) /\ Len(parsing') = Len(parsing) + 1
      BY <3>1, <1>4
    <3>3. \A i \in 1..Len(parsing') : parsing'[i] = IF i = 1 THEN x ELSE parsing[i - 1]
      BY <3>1, <1>4
    <3>4. \A i \in 1..Len(parsing') : i # 1 => i - 1 \in 1..Len(parsing)
      BY <3>2, <1>4
    <3>5. Live \subseteq Obj
      BY DEF Live
    <3> QED BY <3>1, <3>2, <3>3, <3>4, <3>5, <1>1, <1>3, <1>4
  <2> QED BY <2>1, <2>2
<1>6. WorkRight'
  BY <1>1, <1>5 DEF WorkRight
<1> QED BY <1>1, <1>2, <1>6

\* Every step of MergeFromString keeps the invariant, outside a MessageSet.
LEMMA ParsingKeeps ==
    ASSUME Inv, PbMessageAssumption, ~MessageSet, NEW o \in Obj,
           Parsing(o) \/ \E x \in Obj : ParseElement(o, x)
    PROVE  Inv'
<1> USE DEF Inv
<1>0. Types /\ 0 \in 0..MaxScalar
  BY DEF Core, PbMessageAssumption
<1>1. CASE Parse(o)
  <2>1. PICK S \in SUBSET Obj :
          /\ SetBits(S, {})
          /\ \A q \in S : ~dirty[q] /\ (q \in {} \/ state[q] = "live")
          /\ \A q \in S, p \in Obj :
               listener'[q] = p /\ state[p] = "live" => dirty[p] \/ p \in S
          /\ dirty[o] \/ o \in S
    BY <1>0, <1>1, NothingMade, ModifiedIsChange DEF Parse, Mutates, Modified
  <2>2. o \in Live /\ Make({}, o)
    BY <1>0, <1>1, NothingMade DEF Parse, Mutates
  <2>3. Change(o, {}, {}, S)
    BY <1>0, <1>1, <2>1, <2>2 DEF Change, Parse, content, Types
  <2>4. Core' /\ GettersRight' /\ Live \subseteq Live' /\ dirty'[o]
    BY <1>1, <2>1, <2>2, <2>3, ChangeKeepsCore, ChangeKeeps DEF Parse, reads, SetBits, Live
  <2>5. HandedRight'
    BY <1>1, <2>3, ChangeKeepsHanded DEF Parse, reads, content
  <2>6. WorkRight'
    BY <1>1, <2>2, <2>4 DEF Parse, Mutates, Idle, WorkRight
  <2> QED BY <2>4, <2>5, <2>6
<1>2. CASE ParseScalar(o)
  <2>1. Parses(o) /\ o \in Live /\ dirty[o] /\ Make({}, o)
    BY <1>0, <1>2, ParsesFacts, NothingMade DEF ParseScalar
  <2>2. SetBits({}, {})
    BY <1>0, <1>2 DEF ParseScalar, SetBits, book, Types
  <2>3. Change(o, {}, {}, {})
    BY <1>0, <1>2, <2>1, <2>2 DEF Change, ParseScalar, PutScalars, Types
  <2> QED BY <1>2, <2>1, <2>3, ParseFieldKeeps DEF ParseScalar, reads, work
<1>3. CASE ParseRepeated(o)
  <2>1. Parses(o) /\ o \in Live /\ dirty[o] /\ Make({}, o)
    BY <1>0, <1>3, ParsesFacts, NothingMade DEF ParseRepeated
  <2>2. PICK S \in SUBSET Obj :
          /\ SetBits(S, {})
          /\ \A q \in S : ~dirty[q] /\ (q \in {} \/ state[q] = "live")
          /\ \A q \in S, p \in Obj :
               listener'[q] = p /\ state[p] = "live" => dirty[p] \/ p \in S
          /\ dirty[o] \/ o \in S
    BY <1>3, <2>1, ModifiedIsChange DEF ParseRepeated, Modified
  <2>3. Capped(rep[o] + 1) \in 0..MaxScalar
    BY <1>0, PbMessageAssumption DEF Capped, Types
  <2>4. Change(o, {}, {}, S)
    BY <1>0, <1>3, <2>1, <2>2, <2>3 DEF Change, ParseRepeated, PutScalars, Types
  <2> QED BY <1>3, <2>1, <2>4, ParseFieldKeeps DEF ParseRepeated, reads, work
<1>4. CASE ParseMessage(o)
  <2>1. PICK x \in Obj :
          /\ IF child[o] = NoObj
             THEN Make({x}, o)
             ELSE x = child[o] /\ UNCHANGED <<state, listener>>
          /\ PutMessages(o, x, elems[o])
          /\ ModifiedWith(x, listener', {})
          /\ parsing' = <<x>> \o parsing
    BY <1>4 DEF ParseMessage
  <2>2. /\ Parses(o) /\ o \in Live /\ dirty[o]
        /\ scalar' = scalar /\ rep' = rep /\ cached' = cached
        /\ pending' = pending /\ handed' = handed /\ merging' = merging
    BY <1>4, ParsesFacts DEF ParseMessage, reads
  <2>3. PICK fresh \in SUBSET Obj :
          /\ fresh = IF child[o] = NoObj THEN {x} ELSE {}
          /\ Make(fresh, o)
    BY <1>0, <2>1, NothingMade DEF extent
  <2>4. x \in Live \/ x \in fresh
    BY <2>1, <2>2, <2>3 DEF Core, HeldNotifies, Holds, Live
  <2>5. PICK S \in SUBSET Obj :
          /\ SetBits(S, {})
          /\ \A q \in S : ~dirty[q] /\ (q \in fresh \/ state[q] = "live")
          /\ \A q \in S, p \in Obj :
               listener'[q] = p /\ state[p] = "live" => dirty[p] \/ p \in S
          /\ dirty[x] \/ x \in S
    BY <2>1, <2>2, <2>3, <2>4, NestedIsChange
  <2>6. \A y \in fresh : scalar[y] = 0 /\ rep[y] = 0
    BY <2>3 DEF Make, Free, Core, Blank
  <2>7. Change(o, fresh, {}, S)
    BY <1>0, <2>1, <2>2, <2>3, <2>5, <2>6 DEF Change, PutMessages, Types, Holds
  <2>8. x \in Live' /\ dirty'[x]
    BY <2>3, <2>4, <2>5 DEF Make, Live, SetBits
  <2>9. child'[o] = child[o] \/ child[o] = NoObj
    BY <1>0, <2>1 DEF PutMessages, Types
  <2> QED BY <2>1, <2>2, <2>7, <2>8, <2>9, ParseFieldKeeps
<1>5. CASE \E x \in Obj : ParseElement(o, x)
  <2>1. PICK x \in Obj : ParseElement(o, x)
    BY <1>5
  <2>2. /\ Parses(o) /\ o \in Live /\ dirty[o]
        /\ scalar' = scalar /\ rep' = rep /\ cached' = cached
        /\ pending' = pending /\ handed' = handed /\ merging' = merging
        /\ Make({x}, o) /\ parsing' = <<x>> \o parsing
        /\ PutMessages(o, child[o], elems[o] \union {x})
    BY <2>1, ParsesFacts DEF ParseElement, reads
  <2>3. PICK S \in SUBSET Obj :
          /\ SetBits(S, {})
          /\ \A q \in S : ~dirty[q] /\ (q \in {x} \/ state[q] = "live")
          /\ \A q \in S, p \in Obj :
               listener'[q] = p /\ state[p] = "live" => dirty[p] \/ p \in S
          /\ dirty[x] \/ x \in S
    BY <2>1, <2>2, NestedIsChange, SMTT(30) DEF ParseElement
  <2>4. scalar[x] = 0 /\ rep[x] = 0 /\ x # child[o] /\ x # o
    BY <2>2 DEF Make, Free, Live, Core, Blank, HeldNotifies, Holds
  <2>5. /\ child' = child
        /\ elems' \in [Obj -> SUBSET Obj]
        /\ elems'[o] = elems[o] \union {x}
        /\ \A p \in Obj \ {o} : elems'[p] = elems[p]
    BY <1>0, <2>2 DEF PutMessages, Types
  <2>6. Change(o, {x}, {}, S)
    BY <1>0, <2>2, <2>3, <2>4, <2>5 DEF Change, Types, Holds
  <2>7. x \in Live' /\ dirty'[x]
    BY <2>2, <2>3 DEF Make, Live, SetBits
  <2> QED BY <2>2, <2>5, <2>6, <2>7, ParseFieldKeeps
<1>6. CASE ParseEnd(o)
  <2>1. /\ UNCHANGED <<book, content, cached, extent, reads, merging>>
        /\ parsing' = Tail(parsing) /\ parsing # <<>> /\ parsing \in Seq(Obj)
    BY <1>6, ParsesFacts DEF ParseEnd
  <2>2. Core' /\ GettersRight' /\ Live' = Live
    BY <2>1, CoreUnchanged, GettersUnchanged DEF reads
  <2>4. HandedRight'
    BY <2>1, <2>2 DEF HandedRight, reads, content
  <2>3. /\ parsing' \in Seq(Obj) /\ Len(parsing') = Len(parsing) - 1
        /\ \A i \in 1..Len(parsing') : parsing'[i] = parsing[i + 1]
    BY <2>1
  <2> QED BY <2>1, <2>2, <2>3, <2>4 DEF WorkRight, book
<1> QED BY <1>1, <1>2, <1>3, <1>4, <1>5, <1>6 DEF Parsing
\* A client makes o, which may hold a message of its own (in xs).
Birth(o, xs) ==
    /\ o \in Free /\ xs \subseteq Free \ {o}
    /\ state' = [p \in Obj |-> IF p = o \/ p \in xs THEN "live" ELSE state[p]]
    /\ listener' = [p \in Obj |-> IF p \in xs THEN o ELSE listener[p]]
    /\ dirty' \in [Obj -> BOOLEAN]
    /\ \A p \in Obj \ {o} : dirty'[p] = dirty[p]
    /\ UNCHANGED <<flag, present, cached, pending, handed>>
    /\ scalar' \in [Obj -> 0..MaxScalar]
    /\ rep' \in [Obj -> 0..MaxScalar]
    /\ child' \in [Obj -> Obj \union {NoObj}]
    /\ elems' \in [Obj -> SUBSET Obj]
    /\ \A p \in Obj \ {o} : /\ scalar'[p] = scalar[p] /\ rep'[p] = rep[p]
                            /\ child'[p] = child[p] /\ elems'[p] = elems[p]
    /\ dirty'[o] \/ (UNCHANGED <<scalar, rep, child, elems>>)
    /\ child'[o] \in {NoObj} \union xs
    /\ elems'[o] \subseteq xs

\* The constructor, with the messages it copies from its arguments, keeps the core.
LEMMA BirthKeeps ==
    ASSUME Core, GettersRight, HandedRight, PbMessageAssumption,
           NEW o \in Obj, NEW xs \in SUBSET Obj, Birth(o, xs)
    PROVE  Core' /\ GettersRight' /\ HandedRight' /\ Live \subseteq Live'
           /\ \A x \in xs : x \in Live'
<1> USE DEF Core
<1>1. Types'
  BY DEF Types, Birth
<1>2. /\ state[o] = "free" /\ state'[o] = "live" /\ o \notin xs /\ listener'[o] = NoObj
      /\ \A x \in xs : state[x] = "free" /\ state'[x] = "live" /\ listener'[x] = o
      /\ \A p \in Obj : p # o /\ p \notin xs =>
            state'[p] = state[p] /\ listener'[p] = listener[p]
      /\ ~dirty[o] /\ ~flag[o] /\ cached[o] = 0
  BY DEF Birth, Free, Blank, Types
<1>3. \A p \in Obj, c \in Obj : p # o /\ state'[p] = "live" /\ Holds(p, c)' =>
        p \notin xs /\ state[p] = "live" /\ Holds(p, c)
        /\ state[c] = "live" /\ listener[c] = p /\ c \notin xs /\ c # o
  <2> SUFFICES ASSUME NEW p \in Obj, NEW c \in Obj,
                      p # o, state'[p] = "live", Holds(p, c)'
               PROVE  p \notin xs /\ state[p] = "live" /\ Holds(p, c)
                      /\ state[c] = "live" /\ listener[c] = p /\ c \notin xs /\ c # o
    OBVIOUS
  <2>1. Holds(p, c)
    BY DEF Birth, Holds
  <2>2. p \notin xs
    BY <2>1, <1>2, PbMessageAssumption DEF Blank, Holds
  <2>3. state[p] = "live"
    BY <2>2, <1>2
  <2>4. state[c] = "live" /\ listener[c] = p
    BY <2>1, <2>3 DEF HeldNotifies, Live
  <2> QED BY <2>1, <2>2, <2>3, <2>4, <1>2
<1>4. \A c \in Obj : Holds(o, c)' => c \in xs
  BY PbMessageAssumption DEF Holds, Birth
<1>5. Blank' /\ ListenersExist' /\ FlagMeansDirty'
  BY <1>1, <1>2 DEF Blank, ListenersExist, FlagMeansDirty, Types, Birth
<1>6. HeldNotifies'
  BY <1>2, <1>3, <1>4 DEF HeldNotifies, Live
<1>7. DirtyAbove'
  <2> SUFFICES ASSUME NEW p \in Live', NEW c \in Obj, Holds(p, c)', dirty'[c]
               PROVE  dirty'[p]
    BY DEF DirtyAbove
  <2>1. p \in Obj /\ state'[p] = "live"
    BY DEF Live
  <2>2. CASE p = o
    <3>1. c \in xs /\ c # o
      BY <2>2, <1>2, <1>4
    <3> QED BY <3>1, <1>2 DEF Birth, Blank
  <2>3. CASE p # o
    <3>1. state[p] = "live" /\ Holds(p, c) /\ c # o
      BY <2>1, <2>3, <1>3
    <3> QED BY <2>1, <2>3, <3>1 DEF DirtyAbove, Live, Birth
  <2> QED BY <2>2, <2>3
<1>8. DirtyMeansPresent'
  <2> SUFFICES ASSUME NEW p \in Live', NEW c \in Obj, c = child'[p], dirty'[c]
               PROVE  present'[c]
    BY <1>1 DEF DirtyMeansPresent, Types, Live
  <2>1. p \in Obj /\ Holds(p, c)' /\ state'[p] = "live"
    BY DEF Holds, Live
  <2>2. CASE p = o
    <3>1. c \in xs /\ c # o
      BY <2>1, <2>2, <1>2, <1>4
    <3> QED BY <3>1, <1>2, Zenon DEF Birth, Blank
  <2>3. CASE p # o
    <3>1. state[p] = "live" /\ c # o /\ c = child[p]
      BY <2>1, <2>3, <1>3 DEF Birth
    <3> QED BY <2>1, <3>1, PbMessageAssumption DEF DirtyMeansPresent, Live, Birth
  <2> QED BY <2>2, <2>3
<1>9. \A p \in Obj : p # o => /\ ListedMessages(p)' = ListedMessages(p)
                              /\ FieldsSize(p)' = FieldsSize(p)
                              /\ ListFields(p)' = ListFields(p)
  BY DEF ListedMessages, FieldsSize, ListFields, Birth
<1>10. \A p \in Obj : state[p] = "free" => ListedMessages(p) = {} /\ FieldsSize(p) = 0
  <2> SUFFICES ASSUME NEW p \in Obj, state[p] = "free"
               PROVE  ListedMessages(p) = {} /\ FieldsSize(p) = 0
    OBVIOUS
  <2>1. ListedMessages(p) = {} /\ scalar[p] = 0 /\ rep[p] = 0
    BY DEF ListedMessages, Blank
  <2>2. FieldsSize(p) = SizeOf(0 + 0, [x \in {} |-> cached[x]])
    BY <2>1 DEF FieldsSize
  <2> QED BY <2>1, <2>2, NothingListed
<1>11. SizesKept'
  <2> SUFFICES ASSUME NEW p \in Live', ~dirty'[p] PROVE cached'[p] = FieldsSize(p)'
    BY DEF SizesKept
  <2>1. p \in Obj /\ state'[p] = "live" /\ cached' = cached
    BY DEF Live, Birth
  <2>2. CASE p = o
    <3>1. UNCHANGED <<scalar, rep, child, elems, present, cached>>
      BY <2>2 DEF Birth
    <3>2. FieldsSize(p)' = FieldsSize(p)
      BY <3>1 DEF FieldsSize, ListedMessages
    <3> QED BY <2>1, <2>2, <3>2, <1>2, <1>10
  <2>3. CASE p \in xs
    BY <2>1, <2>3, <1>2, <1>9, <1>10 DEF Blank
  <2>4. CASE p # o /\ p \notin xs
    BY <2>1, <2>4, <1>2, <1>9 DEF SizesKept, Live, Birth
  <2> QED BY <2>2, <2>3, <2>4
<1>12. SetFieldsArePresent'
  <2> SUFFICES ASSUME NEW p \in Live', NEW c \in Obj, c = child'[p],
                      ListFields(c)' # <<0, 0, {}>>
               PROVE  present'[c]
    <3> SUFFICES ASSUME NEW p \in Live',
                        child'[p] # NoObj, ListFields(child[p])' # <<0, 0, {}>>
                 PROVE  present'[child'[p]]
      BY DEF SetFieldsArePresent
    <3>1. child'[p] \in Obj
      BY <1>1 DEF Types, Live
    <3> QED BY <3>1 DEF ListFields, ListedMessages
  <2>1. p \in Obj /\ Holds(p, c)' /\ state'[p] = "live"
    BY DEF Holds, Live
  <2>2. c # o /\ ListFields(c)' = ListFields(c)
    BY <2>1, <1>2, <1>3, <1>4, <1>9
  <2>3. CASE p = o
    <3>1. state[c] = "free"
      BY <2>1, <2>3, <1>2, <1>4
    <3>2. ListFields(c) = <<0, 0, {}>>
      BY <3>1, <1>10 DEF Blank, ListFields
    <3> QED BY <2>2, <3>2
  <2>4. CASE p # o
    <3>1. state[p] = "live" /\ c = child[p]
      BY <2>1, <2>4, <1>3 DEF Birth
    <3>2. p \in Live /\ child[p] # NoObj
      BY <2>1, <3>1, PbMessageAssumption DEF Live
    <3>3. ListFields(child[p]) # <<0, 0, {}>>
      BY <2>2, <3>1
    <3>4. present[c]
      BY <3>1, <3>2, <3>3 DEF SetFieldsArePresent
    <3> QED BY <3>4 DEF Birth
  <2> QED BY <2>3, <2>4
<1>13. StaleNoticesHarmless'
  <2> SUFFICES ASSUME NEW p \in Live', NEW q \in Live', NEW c \in Live',
                      p = child'[q], listener'[c] = p, ~Holds(p, c)'
               PROVE  present'[p]
    BY DEF StaleNoticesHarmless
  <2>1. /\ p \in Obj /\ q \in Obj /\ c \in Obj /\ p # NoObj /\ Holds(q, p)'
        /\ state'[p] = "live" /\ state'[q] = "live" /\ state'[c] = "live"
    BY PbMessageAssumption DEF Live, Holds
  <2>2. q # o \/ p \in xs
    BY <2>1, <1>4
  <2>3. p # o
    BY <2>1, <2>2, <1>2, <1>3
  <2>4. c # o /\ c \notin xs /\ listener[c] = p /\ state[c] = "live"
    BY <2>1, <2>3, <1>2
  <2>5. p \notin xs /\ q # o
    BY <2>1, <2>2, <2>4, <1>2 DEF ListenersExist
  <2>6. p = child[q] /\ state[q] = "live" /\ state[p] = "live" /\ ~Holds(p, c)
    BY <2>1, <2>3, <2>5, <1>3 DEF Birth, Holds
  <2> QED BY <2>1, <2>4, <2>6 DEF StaleNoticesHarmless, Live, Birth
<1>14. Live \subseteq Live' /\ \A x \in xs : x \in Live'
  BY <1>2 DEF Live
<1>15. Keeps
  BY <1>2 DEF Keeps, Birth
<1>16. HandedRight'
  <2>1. \A h \in handed : h[1] # o
    BY <1>2 DEF HandedRight, Live
  <2> QED BY <2>1, <1>14 DEF HandedRight, Birth, Live
<1> QED
  BY <1>1, <1>5, <1>6, <1>7, <1>8, <1>11, <1>12, <1>13, <1>14, <1>15, <1>16, KeepsGetters

\* Every form of the constructor keeps the invariant.
LEMMA NewKeeps ==
    ASSUME Inv, PbMessageAssumption, NEW o \in Obj,
           \/ New(o)
           \/ NewWithScalars(o)
           \/ \E x, source \in Obj : NewWithMessage(o, x, source)
    PROVE  Inv'
<1> USE DEF Inv
<1>0. Types /\ 0 \in 0..MaxScalar /\ \A x \in Free : listener[x] = NoObj
  BY DEF Core, PbMessageAssumption, Blank, Free
<1>1. CASE New(o)
  <2>1. Birth(o, {})
    <3>1. child[o] = NoObj /\ elems[o] = {}
      BY <1>1 DEF New, Make, Free, Core, Blank
    <3> QED BY <1>0, <1>1, <3>1 DEF New, Make, Birth, book, content, reads, Types
  <2> QED BY <1>1, <2>1, BirthKeeps DEF New, work, Idle, WorkRight
<1>2. CASE NewWithScalars(o)
  <2>1. Birth(o, {})
    <3>1. child[o] = NoObj /\ elems[o] = {}
      BY <1>2 DEF NewWithScalars, Make, Free, Core, Blank
    <3> QED BY <1>0, <1>2, <3>1
            DEF NewWithScalars, Make, PutScalars, Birth, reads, Types
  <2> QED BY <1>2, <2>1, BirthKeeps DEF NewWithScalars, work, Idle, WorkRight
<1>3. CASE \E x, source \in Obj : NewWithMessage(o, x, source)
  <2>1. PICK x \in Obj, source \in Obj : NewWithMessage(o, x, source)
    BY <1>3
  <2>2. /\ dirty' = [dirty EXCEPT ![o] = TRUE]
        /\ UNCHANGED <<flag, present, cached, scalar, rep, pending, handed, parsing>>
        /\ merging' = {[into |-> x, from |-> source]} /\ parsing = <<>>
        /\ o # x /\ o \in Free /\ x \in Free
        /\ state' = [state EXCEPT ![o] = "live", ![x] = "live"]
        /\ listener' = [listener EXCEPT ![x] = o]
    BY <2>1 DEF NewWithMessage, reads, Idle
  <2>3. /\ child' \in [Obj -> Obj \union {NoObj}]
        /\ elems' \in [Obj -> SUBSET Obj]
        /\ \A p \in Obj \ {o} : child'[p] = child[p] /\ elems'[p] = elems[p]
        /\ child'[o] \in {NoObj} \union {x}
        /\ elems'[o] \subseteq {x}
    BY <1>0, <2>1, SMTT(30) DEF NewWithMessage, PutMessages, Types
  <2>4. Birth(o, {x})
    BY <1>0, <2>2, <2>3 DEF Birth, Types
  <2>5. Core' /\ GettersRight' /\ HandedRight' /\ x \in Live'
    BY <2>4, BirthKeeps
  <2>6. WorkRight'
    BY <2>2, <2>5 DEF WorkRight
  <2> QED BY <2>5, <2>6
<1> QED BY <1>1, <1>2, <1>3
\* The start of MergeFrom keeps the invariant.
LEMMA MergeFromKeeps ==
    ASSUME Inv, NEW o \in Obj, NEW source \in Obj, MergeFrom(o, source)
    PROVE  Inv'
<1> USE DEF Inv
<1>1. Core' /\ GettersRight' /\ Live' = Live
  BY CoreUnchanged, GettersUnchanged DEF MergeFrom, reads
<1>2. HandedRight'
  BY <1>1 DEF HandedRight, MergeFrom, reads, content
<1>3. WorkRight'
  BY <1>1 DEF WorkRight, MergeFrom, Mutates, Idle
<1> QED BY <1>1, <1>2, <1>3

\* A parse that raises keeps the invariant: what was taken in is dirty already.
LEMMA RaiseKeeps ==
    ASSUME Inv, Raise PROVE Inv'
<1> USE DEF Inv
<1>1. Core' /\ GettersRight' /\ Live' = Live
  BY CoreUnchanged, GettersUnchanged DEF Raise, reads
<1>2. HandedRight'
  BY <1>1 DEF HandedRight, Raise, reads, content
<1>3. WorkRight'
  BY DEF WorkRight, Raise
<1> QED BY <1>1, <1>2, <1>3

\* The merge of one pair of messages keeps the invariant.
LEMMA MergeStepKeeps ==
    ASSUME Inv, PbMessageAssumption, MergeStep PROVE Inv'
<1> USE DEF Inv
<1>0. Types
  BY DEF Core
<1>1. PICK m \in merging, fresh \in SUBSET Free, kid \in Obj \union {NoObj} :
      \E copies \in [elems[m.from] -> fresh] :
        /\ Takes(m.into, m.from, fresh, kid, copies)
        /\ merging' = (merging \ {m}) \union Nested(m.from, kid, copies)
        /\ Modified(m.into)
        /\ UNCHANGED <<cached, reads, parsing>>
  BY DEF MergeStep
<1> DEFINE o == m.into  source == m.from
<1>2. /\ o \in Obj /\ source \in Obj /\ o \in Live
      /\ parsing \in Seq(Obj) /\ merging \subseteq [into : Obj, from : Obj]
      /\ \A n \in merging : n.into \in Live
  BY DEF WorkRight
<1>3. PICK copies \in [elems[source] -> fresh] :
        /\ Takes(o, source, fresh, kid, copies)
        /\ merging' = (merging \ {m}) \union Nested(source, kid, copies)
        /\ Modified(o)
        /\ UNCHANGED <<cached, reads, parsing>>
  BY <1>1
<1>4. /\ IF child[source] \in ListedMessages(source) /\ child[o] = NoObj
         THEN kid \in fresh ELSE kid = child[o]
      /\ fresh = {copies[e] : e \in elems[source]} \union ({kid} \intersect fresh)
      /\ Make(fresh, o)
      /\ PutScalars(o, IF scalar[source] = 0 THEN scalar[o] ELSE scalar[source],
                    Capped(rep[o] + rep[source]))
      /\ PutMessages(o, kid, elems[o] \union {copies[e] : e \in elems[source]})
  BY <1>3 DEF Takes
<1>5. PICK S \in SUBSET Obj :
        /\ SetBits(S, {})
        /\ \A q \in S : ~dirty[q] /\ (q \in fresh \/ state[q] = "live")
        /\ \A q \in S, p \in Obj :
             listener'[q] = p /\ state[p] = "live" => dirty[p] \/ p \in S
        /\ dirty[o] \/ o \in S
  BY <1>2, <1>4, <1>3, ModifiedIsChange DEF Modified, Free
<1>6. \A x \in fresh : x \in Obj /\ scalar[x] = 0 /\ rep[x] = 0 /\ x # o
  BY <1>2 DEF Free, Core, Blank, Live
<1>7. /\ scalar' \in [Obj -> 0..MaxScalar]
      /\ rep' \in [Obj -> 0..MaxScalar]
      /\ \A p \in Obj \ {o} : scalar'[p] = scalar[p] /\ rep'[p] = rep[p]
  <2>1. Capped(rep[o] + rep[source]) \in 0..MaxScalar
    BY <1>0, <1>2, PbMessageAssumption DEF Capped, Types
  <2> QED BY <1>0, <1>2, <1>4, <1>3, <2>1 DEF PutScalars, Types
<1> DEFINE new == {copies[e] : e \in elems[source]}
<1>8. /\ child' \in [Obj -> Obj \union {NoObj}]
      /\ elems' \in [Obj -> SUBSET Obj]
      /\ \A p \in Obj \ {o} : child'[p] = child[p] /\ elems'[p] = elems[p]
      /\ child'[o] = kid /\ elems'[o] = elems[o] \union new
  <2>1. new \subseteq fresh
    BY <1>4, <1>3
  <2> HIDE DEF new
  <2>2. PutMessages(o, kid, elems[o] \union new)
    BY <1>4, <1>3 DEF new
  <2> QED BY <1>0, <1>2, <2>1, <2>2 DEF PutMessages, Types, Free
<1>9. /\ (kid \in fresh /\ child[o] = NoObj) \/ kid = child[o]
      /\ new \subseteq fresh
      /\ \A x \in fresh : x \in new \/ x = kid
  BY <1>4, <1>3
<1>10. Change(o, fresh, {}, S)
  <2> HIDE DEF new, o, source
  <2>1. \A x \in fresh : Holds(o, x)'
    BY <1>8, <1>9 DEF Holds
  <2> QED BY <1>2, <1>4, <1>3, <1>5, <1>6, <1>7, <1>8, <1>9, <2>1 DEF Change
<1>11. pending' = pending /\ handed' = handed /\ parsing' = parsing
  BY <1>4, <1>3 DEF reads
<1>12. Core' /\ GettersRight' /\ Live \subseteq Live'
  BY <1>2, <1>10, <1>11, ChangeKeepsCore, ChangeKeeps DEF Free
<1>13. HandedRight'
  BY <1>2, <1>8, <1>9, <1>10, <1>11, ChangeKeepsHanded DEF Free
<1>14. \A p \in Obj : dirty[p] => dirty'[p]
  BY <1>5 DEF SetBits
<1>15. \A n \in Nested(source, kid, copies) :
         n \in [into : Obj, from : Obj] /\ n.into \in Live'
  <2>1. \A x \in fresh : x \in Live'
    BY <1>4, <1>3, <1>6 DEF Make, Live
  <2>2. \A c \in {child[source]} \intersect ListedMessages(source) :
          c \in Obj /\ kid \in Live'
    <3> SUFFICES ASSUME child[source] \in ListedMessages(source)
                 PROVE  child[source] \in Obj /\ kid \in Live'
      OBVIOUS
    <3>1. child[source] \in Obj
      BY <1>0, <1>2, PbMessageAssumption DEF ListedMessages, Types
    <3>2. CASE kid \in fresh
      BY <3>1, <3>2, <2>1
    <3>3. CASE kid \notin fresh
      <4>1. kid = child[o] /\ child[o] # NoObj /\ kid \in Obj
        BY <1>0, <1>2, <1>4, <1>3, <3>3 DEF Types
      <4>2. kid \in Live
        BY <1>2, <4>1 DEF Core, HeldNotifies, Holds, Live
      <4> QED BY <3>1, <4>2, <1>12
    <3> QED BY <3>2, <3>3
  <2>3. \A e \in elems[source] : e \in Obj /\ copies[e] \in Obj /\ copies[e] \in Live'
    BY <1>0, <1>2, <1>4, <1>3, <1>6, <2>1 DEF Types
  <2>4. kid \in Live' => kid \in Obj
    BY DEF Live
  <2> QED BY <2>2, <2>3, <2>4 DEF Nested
<1>16. WorkRight'
  <2>1. \A n \in merging' : n \in [into : Obj, from : Obj] /\ n.into \in Live'
    BY <1>2, <1>4, <1>3, <1>12, <1>15
  <2>2. \A i \in 1..Len(parsing) : parsing[i] \in Live /\ dirty[parsing[i]]
    BY DEF WorkRight
  <2>3. \A p \in Live : p \in Live' /\ p \in Obj
    BY <1>12 DEF Live
  <2> QED BY <1>2, <1>11, <1>14, <2>1, <2>2, <2>3 DEF WorkRight
<1> QED BY <1>12, <1>13, <1>16
\* The two steps of a getter, from any thread, keep the invariant.
LEMMA GettersKeep ==
    ASSUME Inv, PbMessageAssumption, Getters PROVE Inv'
<1> USE DEF Inv
<1>0. Types
  BY DEF Core
<1>1. CASE \E o \in Obj : GetPresent(o)
  <2>1. PICK o \in Obj : GetPresent(o)
    BY <1>1
  <2>2. Core' /\ GettersRight' /\ Live' = Live
    BY <2>1, CoreUnchanged, GettersUnchanged DEF GetPresent
  <2>3. HandedRight'
    <3>1. child[o] \in Obj /\ child' = child /\ handed' = handed \union {<<o, child[o]>>} /\ o \in Live
      BY <1>0, <2>1 DEF GetPresent, content, Types
    <3> QED BY <2>2, <3>1 DEF HandedRight
  <2>4. WorkRight'
    BY <2>1, <2>2 DEF WorkRight, GetPresent, work, book
  <2> QED BY <2>2, <2>3, <2>4
<1>2. CASE \E t \in Thread, o, x \in Obj : GetAbsent(t, o, x)
  <2>1. PICK t \in Thread, o \in Obj, x \in Obj : GetAbsent(t, o, x)
    BY <1>2
  <2>2. /\ UNCHANGED <<book, content, cached, handed, work>>
        /\ state' = [state EXCEPT ![x] = "made"]
        /\ listener' = [listener EXCEPT ![x] = o]
        /\ pending' = [pending EXCEPT ![t] = [of |-> o, made |-> x]]
        /\ o \in Live /\ state[x] = "free" /\ pending[t] = NoGetter
    BY <2>1 DEF GetAbsent, Free
  <2>3. Live' = Live /\ \A p, c : Holds(p, c)' = Holds(p, c)
    BY <1>0, <2>2 DEF Live, Holds, content, Types
  <2>4. \A p : FieldsSize(p)' = FieldsSize(p) /\ ListFields(p)' = ListFields(p)
    BY <2>2 DEF FieldsSize, ListFields, ListedMessages, book, content
  <2>5. Types' /\ Blank' /\ FlagMeansDirty' /\ ListenersExist'
    BY <1>0, <2>2 DEF Core, Types, Blank, FlagMeansDirty, ListenersExist, book, content, Live
  <2>6. HeldNotifies' /\ DirtyAbove' /\ DirtyMeansPresent'
    BY <1>0, <2>2, <2>3
       DEF Core, Types, HeldNotifies, DirtyAbove, DirtyMeansPresent, book, content, Live
  <2>7. SizesKept' /\ SetFieldsArePresent'
    BY <2>2, <2>3, <2>4 DEF Core, SizesKept, SetFieldsArePresent, book, content
  <2>8. StaleNoticesHarmless'
    BY <1>0, <2>2, <2>3 DEF Core, Types, StaleNoticesHarmless, book, content, Live
  <2>9. GettersRight'
    BY <1>0, <2>2, <2>3, PbMessageAssumption DEF GettersRight, NoGetter, Live, Types
  <2>10. HandedRight' /\ WorkRight'
    BY <2>2, <2>3 DEF HandedRight, WorkRight, work, book, content
  <2> QED BY <2>5, <2>6, <2>7, <2>8, <2>9, <2>10 DEF Core
<1>3. CASE \E t \in Thread : SetDefault(t)
  <2>1. PICK t \in Thread : SetDefault(t)
    BY <1>3
  <2> DEFINE o == pending[t].of  x == pending[t].made
  <2>2. /\ o \in Live /\ o \in Obj /\ x \in Obj /\ state[x] = "made" /\ listener[x] = o
        /\ pending[t] # NoGetter /\ x # o
        /\ \A s \in Thread : pending[s] # NoGetter /\ pending[s].made = x => s = t
    BY <2>1 DEF SetDefault, GettersRight, Live
  <2>3. /\ ~dirty[x] /\ ~flag[x] /\ ~present[x] /\ cached[x] = 0
        /\ scalar[x] = 0 /\ rep[x] = 0 /\ child[x] = NoObj /\ elems[x] = {}
        /\ \A c \in Obj : listener[c] # x
    BY <1>0, <2>2, PbMessageAssumption DEF Core, Blank, ListenersExist, Types
  <2>4. /\ UNCHANGED <<book, scalar, rep, cached, work>>
        /\ pending' = [pending EXCEPT ![t] = NoGetter]
    BY <2>1 DEF SetDefault
  <2>5. CASE child[o] = NoObj
    <3>1. /\ child' = [child EXCEPT ![o] = x]
          /\ elems' = [elems EXCEPT ![o] = elems[o]]
          /\ handed' = handed \union {<<o, x>>}
          /\ state' = [state EXCEPT ![x] = "live"]
          /\ listener' = listener
      BY <2>1, <2>5 DEF SetDefault, PutMessages
    <3>2. /\ elems' = elems /\ child'[o] = x
          /\ \A p \in Obj : p # o => child'[p] = child[p]
          /\ state'[x] = "live" /\ \A p \in Obj : p # x => state'[p] = state[p]
          /\ dirty' = dirty /\ flag' = flag /\ present' = present
      BY <1>0, <2>2, <2>4, <3>1 DEF Types, book
    <3>3. \A p \in Obj, c \in Obj : state'[p] = "live" /\ Holds(p, c)' =>
            \/ p = o /\ c = x
            \/ p # x /\ state[p] = "live" /\ Holds(p, c)
               /\ state[c] = "live" /\ listener[c] = p /\ c # x
      BY <2>2, <2>3, <3>2, PbMessageAssumption DEF Holds, Core, HeldNotifies, Live
    <3>4. Types' /\ Blank' /\ FlagMeansDirty' /\ ListenersExist'
      BY <1>0, <2>2, <2>4, <3>1, <3>2
         DEF Core, Types, Blank, FlagMeansDirty, ListenersExist, book
    <3>5. HeldNotifies' /\ DirtyAbove'
      BY <2>2, <2>3, <3>1, <3>2, <3>3 DEF Core, HeldNotifies, DirtyAbove, Live
    <3>6. DirtyMeansPresent'
      BY <2>2, <2>3, <3>2 DEF Core, DirtyMeansPresent, Live
    <3>7. \A p \in Obj : /\ ListedMessages(p)' = ListedMessages(p)
                         /\ FieldsSize(p)' = FieldsSize(p)
                         /\ ListFields(p)' = ListFields(p)
      <4>1. \A p \in Obj : ListedMessages(p)' = ListedMessages(p)
        BY <2>2, <2>3, <2>5, <3>2 DEF ListedMessages
      <4> QED BY <4>1, <2>4 DEF FieldsSize, ListFields
    <3>8. ListFields(x) = <<0, 0, {}>> /\ FieldsSize(x) = 0
      <4>1. ListedMessages(x) = {}
        BY <2>3 DEF ListedMessages
      <4>2. FieldsSize(x) = SizeOf(0 + 0, [y \in {} |-> cached[y]])
        BY <2>3, <4>1 DEF FieldsSize
      <4> QED BY <2>3, <4>1, <4>2, NothingListed DEF ListFields
    <3>9. SizesKept'
      BY <2>2, <2>3, <2>4, <3>2, <3>7, <3>8 DEF Core, SizesKept, Live
    <3>10. SetFieldsArePresent'
      <4> SUFFICES ASSUME NEW p \in Live', NEW c \in Obj, c = child'[p],
                          ListFields(c)' # <<0, 0, {}>>
                   PROVE  present'[c]
        <5> SUFFICES ASSUME NEW p \in Live',
                            child'[p] # NoObj, ListFields(child[p])' # <<0, 0, {}>>
                     PROVE  present'[child'[p]]
          BY DEF SetFieldsArePresent
        <5>1. child'[p] \in Obj
          BY <3>4 DEF Types, Live
        <5> QED BY <5>1 DEF ListFields, ListedMessages
      <4>1. p \in Obj /\ state'[p] = "live" /\ Holds(p, c)' /\ c # x
        BY <3>7, <3>8 DEF Live, Holds
      <4>2. state[p] = "live" /\ c = child[p] /\ c # NoObj
        BY <4>1, <2>2, <3>2, <3>3, PbMessageAssumption
      <4> QED BY <4>2, <4>1, <3>2, <3>7 DEF Core, SetFieldsArePresent, Live
    <3>11. StaleNoticesHarmless'
      <4> SUFFICES ASSUME NEW p \in Live', NEW q \in Live', NEW c \in Live',
                          p = child'[q], listener'[c] = p, ~Holds(p, c)'
                   PROVE  present'[p]
        BY DEF StaleNoticesHarmless
      <4>1. /\ p \in Obj /\ q \in Obj /\ c \in Obj /\ Holds(q, p)' /\ listener[c] = p
            /\ state'[p] = "live" /\ state'[q] = "live" /\ state'[c] = "live"
        BY <3>1 DEF Live, Holds
      <4>2. p # x
        BY <4>1, <2>3
      <4>3. state[q] = "live" /\ p = child[q] /\ state[p] = "live"
        BY <4>1, <4>2, <3>2, <3>3
      <4>4. c # x
        BY <4>1, <2>2, <3>2 DEF Holds
      <4>5. state[c] = "live" /\ ~Holds(p, c)
        BY <4>1, <4>4, <2>5, <3>2, PbMessageAssumption DEF Holds
      <4> QED BY <4>1, <4>3, <4>5, <3>2 DEF Core, StaleNoticesHarmless, Live
    <3>12. Live \subseteq Live'
      BY <2>2, <3>2 DEF Live
    <3>13. GettersRight'
      <4>1. \A s \in Thread : pending'[s] = IF s = t THEN NoGetter ELSE pending[s]
        BY <2>4 DEF GettersRight
      <4>2. pending' \in [Thread -> [of : Obj \union {NoObj}, made : Obj \union {NoObj}]]
        BY <2>4 DEF GettersRight, NoGetter
      <4>3. NoGetter.made = NoObj
        BY DEF NoGetter
      <4> QED BY <2>2, <3>1, <3>2, <3>12, <4>1, <4>2, <4>3, PbMessageAssumption
              DEF GettersRight
    <3>14. HandedRight'
      <4>1. \A h \in handed : h[1] # o
        BY <2>5, PbMessageAssumption DEF HandedRight
      <4>2. \A h \in handed : h[1] \in Obj /\ h[1] \in Live /\ child[h[1]] = h[2]
        BY DEF HandedRight
      <4>3. \A h \in handed' : h[1] \in Live' /\ child'[h[1]] = h[2] /\ h \in Obj \X Obj
        <5>1. \A h \in handed : h[1] \in Live' /\ child'[h[1]] = h[2] /\ h \in Obj \X Obj
          BY <3>2, <3>12, <4>1, <4>2 DEF HandedRight
        <5>2. o \in Live' /\ child'[o] = x
          BY <2>2, <3>2, <3>12
        <5> QED BY <2>2, <3>1, <5>1, <5>2
      <4> QED BY <4>3 DEF HandedRight
    <3>15. WorkRight'
      BY <2>4, <3>2, <3>12 DEF WorkRight, work
    <3> QED BY <3>4, <3>5, <3>6, <3>9, <3>10, <3>11, <3>13, <3>14, <3>15 DEF Core
  <2>6. CASE child[o] # NoObj
    <3>1. /\ handed' = handed \union {<<o, child[o]>>}
          /\ state' = [state EXCEPT ![x] = "free"]
          /\ listener' = [listener EXCEPT ![x] = NoObj]
          /\ UNCHANGED <<child, elems>>
      BY <2>1, <2>6 DEF SetDefault
    <3>2. /\ Live' = Live /\ \A p, c : Holds(p, c)' = Holds(p, c)
          /\ dirty' = dirty /\ flag' = flag /\ present' = present
      BY <1>0, <2>2, <2>4, <3>1 DEF Live, Holds, Types, book
    <3>3. \A p : FieldsSize(p)' = FieldsSize(p) /\ ListFields(p)' = ListFields(p)
      BY <2>4, <3>1, <3>2 DEF FieldsSize, ListFields, ListedMessages
    <3>4. Types' /\ Blank' /\ FlagMeansDirty' /\ ListenersExist'
      BY <1>0, <2>2, <2>3, <2>4, <3>1, <3>2, PbMessageAssumption
         DEF Core, Types, Blank, FlagMeansDirty, ListenersExist
    <3>5. HeldNotifies' /\ DirtyAbove' /\ DirtyMeansPresent'
      BY <1>0, <2>2, <3>1, <3>2
         DEF Core, Types, HeldNotifies, DirtyAbove, DirtyMeansPresent, Live
    <3>6. SizesKept' /\ SetFieldsArePresent'
      BY <2>4, <3>1, <3>2, <3>3 DEF Core, SizesKept, SetFieldsArePresent
    <3>7. StaleNoticesHarmless'
      BY <1>0, <2>2, <3>1, <3>2 DEF Core, Types, StaleNoticesHarmless, Live
    <3>8. GettersRight'
      <4>1. \A s \in Thread : pending'[s] = IF s = t THEN NoGetter ELSE pending[s]
        BY <2>4 DEF GettersRight
      <4>2. pending' \in [Thread -> [of : Obj \union {NoObj}, made : Obj \union {NoObj}]]
        BY <2>4 DEF GettersRight, NoGetter
      <4>3. NoGetter.made = NoObj
        BY DEF NoGetter
      <4>4. \A y \in Obj : y # x => state'[y] = state[y] /\ listener'[y] = listener[y]
        BY <1>0, <3>1 DEF Types
      <4> QED BY <2>2, <3>2, <4>1, <4>2, <4>3, <4>4, PbMessageAssumption DEF GettersRight
    <3>9. HandedRight'
      <4>1. child[o] \in Obj
        BY <1>0, <2>2, <2>6 DEF Types
      <4> QED BY <2>2, <3>1, <3>2, <4>1 DEF HandedRight
    <3>10. WorkRight'
      BY <2>4, <3>2 DEF WorkRight, work
    <3> QED BY <3>4, <3>5, <3>6, <3>7, <3>8, <3>9, <3>10 DEF Core
  <2> QED BY <2>5, <2>6
<1> QED BY <1>1, <1>2, <1>3 DEF Getters
\* ByteSize() of a message whose nested messages are clean keeps the invariant.
LEMMA ByteSizeKeeps ==
    ASSUME Inv, PbMessageAssumption, NEW o \in Obj, ByteSize(o) PROVE Inv'
<1> USE DEF Inv
<1>1. /\ o \in Live /\ dirty[o] /\ \A p \in ListedMessages(o) : ~dirty[p]
      /\ cached' = [cached EXCEPT ![o] = FieldsSize(o)]
      /\ dirty' = [dirty EXCEPT ![o] = FALSE]
      /\ flag' = [flag EXCEPT ![o] = FALSE]
      /\ UNCHANGED <<present, scalar, rep, child, elems, state, listener, pending,
                     handed, merging, parsing>>
      /\ parsing = <<>>
  BY DEF ByteSize, content, extent, reads, work, Idle
<1>2. Types
  BY DEF Core
<1>3. /\ Live' = Live
      /\ \A p, c : Holds(p, c)' = Holds(p, c)
      /\ \A p : ListedMessages(p)' = ListedMessages(p) /\ ListFields(p)' = ListFields(p)
  BY <1>1 DEF Live, Holds, ListedMessages, ListFields
<1>4. /\ \A p \in Obj : p # o => dirty'[p] = dirty[p] /\ cached'[p] = cached[p]
      /\ ~dirty'[o] /\ cached'[o] = FieldsSize(o)
  BY <1>1, <1>2 DEF Types
<1>5. Types' /\ Blank' /\ FlagMeansDirty' /\ ListenersExist' /\ HeldNotifies'
  <2>1. Types'
    BY <1>1, <1>2 DEF Types
  <2>2. Blank'
    BY <1>1, <1>2 DEF Core, Blank, Live, Types
  <2>3. FlagMeansDirty'
    BY <1>1, <1>2 DEF Core, FlagMeansDirty, Types
  <2>4. ListenersExist' /\ HeldNotifies'
    BY <1>1, <1>3 DEF Core, ListenersExist, HeldNotifies
  <2> QED BY <2>1, <2>2, <2>3, <2>4
<1>6. \A c \in Obj : Holds(o, c) => ~dirty[c]
  <2>1. \A c \in Obj : Holds(o, c) =>
          c \in ListedMessages(o) \/ (c = child[o] /\ ~present[c])
    BY PbMessageAssumption DEF Holds, ListedMessages
  <2> QED BY <1>1, <2>1, PbMessageAssumption DEF Core, DirtyMeansPresent
<1>7. DirtyAbove'
  BY <1>1, <1>3, <1>4, <1>6 DEF Core, DirtyAbove, Live
<1>8. DirtyMeansPresent'
  BY <1>1, <1>2, <1>3, <1>4 DEF Core, DirtyMeansPresent, Types, Live
<1>9. SizesKept'
  <2> SUFFICES ASSUME NEW p \in Live, ~dirty'[p] PROVE cached'[p] = FieldsSize(p)'
    BY <1>3 DEF SizesKept
  <2>1. \A c \in ListedMessages(p) : c \in Obj /\ c # o
    <3>1. \A c \in ListedMessages(p) : c \in Obj /\ Holds(p, c)
      BY <1>2 DEF ListedMessages, Holds, Types, Live
    <3>2. CASE p = o
      BY <1>1, <3>1, <3>2
    <3>3. CASE p # o
      BY <1>1, <1>4, <3>1, <3>3 DEF Core, DirtyAbove, Live
    <3> QED BY <3>2, <3>3
  <2>2. [c \in ListedMessages(p) |-> cached[c]]' = [c \in ListedMessages(p) |-> cached[c]]
    BY <1>3, <1>4, <2>1
  <2>3. FieldsSize(p)' = FieldsSize(p)
    BY <1>1, <2>2 DEF FieldsSize
  <2> QED BY <1>4, <2>3 DEF Core, SizesKept, Live
<1>10. SetFieldsArePresent'
  BY <1>1, <1>3 DEF Core, SetFieldsArePresent
<1>11. StaleNoticesHarmless'
  BY <1>1, <1>3 DEF Core, StaleNoticesHarmless
<1>12. GettersRight' /\ HandedRight' /\ WorkRight'
  BY <1>1, <1>3 DEF GettersRight, HandedRight, WorkRight
<1> QED BY <1>5, <1>7, <1>8, <1>9, <1>10, <1>11, <1>12 DEF Core

\* The end of a message nobody holds keeps the invariant.
LEMMA CollectKeeps ==
    ASSUME Inv, PbMessageAssumption, NEW o \in Obj, Collect(o) PROVE Inv'
<1> USE DEF Inv
<1>1. /\ o \in Live /\ parsing = <<>> /\ merging = {}
      /\ \A p \in Live : ~Holds(p, o)
      /\ \A t \in Thread : o # pending[t].of
      /\ state' = [state EXCEPT ![o] = "gone"]
      /\ handed' = {h \in handed : h[1] # o}
      /\ scalar' = [scalar EXCEPT ![o] = 0]
      /\ rep' = [rep EXCEPT ![o] = 0]
      /\ child' = [child EXCEPT ![o] = NoObj]
      /\ elems' = [elems EXCEPT ![o] = {}]
      /\ dirty' = [dirty EXCEPT ![o] = FALSE]
      /\ flag' = [flag EXCEPT ![o] = FALSE]
      /\ present' = [present EXCEPT ![o] = FALSE]
      /\ cached' = [cached EXCEPT ![o] = 0]
      /\ listener' = [listener EXCEPT ![o] = NoObj]
      /\ UNCHANGED <<pending, merging, parsing>>
  BY DEF Collect, PutScalars, PutMessages, Idle, work
<1>2. Types
  BY DEF Core
<1>3. /\ state'[o] = "gone" /\ listener'[o] = NoObj /\ ~flag'[o] /\ ~dirty'[o]
      /\ \A p \in Obj : p # o =>
           /\ state'[p] = state[p] /\ dirty'[p] = dirty[p] /\ flag'[p] = flag[p]
           /\ present'[p] = present[p] /\ cached'[p] = cached[p]
           /\ listener'[p] = listener[p] /\ scalar'[p] = scalar[p] /\ rep'[p] = rep[p]
           /\ child'[p] = child[p] /\ elems'[p] = elems[p]
  BY <1>1, <1>2 DEF Types
<1>4. \A p \in Obj : p \in Live' <=> p \in Live /\ p # o
  BY <1>3 DEF Live
<1>5. \A p \in Live' : /\ p \in Live /\ p \in Obj /\ p # o /\ child[p] # o
                       /\ child'[p] = child[p] /\ elems'[p] = elems[p]
  BY <1>1, <1>3, <1>4 DEF Live, Holds
<1>6. \A p \in Live', c \in Obj : Holds(p, c)' => Holds(p, c) /\ c # o
  BY <1>1, <1>5 DEF Holds
<1>7. \A p \in Obj : p \in Live' \/ (p # o /\ \E q \in Live' : Holds(q, p)) =>
        /\ ListedMessages(p)' = ListedMessages(p)
        /\ FieldsSize(p)' = FieldsSize(p)
        /\ ListFields(p)' = ListFields(p)
  <2> SUFFICES ASSUME NEW p \in Obj, p \in Live' \/ (p # o /\ \E q \in Live' : Holds(q, p))
               PROVE  /\ ListedMessages(p)' = ListedMessages(p)
                      /\ FieldsSize(p)' = FieldsSize(p)
                      /\ ListFields(p)' = ListFields(p)
    OBVIOUS
  <2>1. p \in Live /\ p # o
    BY <1>4, <1>5 DEF Core, HeldNotifies, Live
  <2>2. child'[p] = child[p] /\ elems'[p] = elems[p] /\ child[p] # o /\ o \notin elems[p]
    BY <1>1, <1>3, <2>1 DEF Holds
  <2>3. child[p] # NoObj => present'[child[p]] = present[child[p]]
    BY <1>2, <1>3, <2>1, <2>2 DEF Types
  <2>4. ListedMessages(p)' = ListedMessages(p)
    BY <2>2, <2>3 DEF ListedMessages
  <2>5. \A c \in ListedMessages(p) : c \in Obj /\ c # o
    BY <1>2, <2>2 DEF ListedMessages, Types
  <2>6. [c \in ListedMessages(p) |-> cached[c]]' = [c \in ListedMessages(p) |-> cached[c]]
    BY <1>3, <2>4, <2>5
  <2> QED BY <1>3, <2>1, <2>4, <2>6 DEF FieldsSize, ListFields
<1>8. Types' /\ FlagMeansDirty'
  BY <1>1, <1>2, <1>3, PbMessageAssumption DEF Core, Types, FlagMeansDirty
<1>9. Blank' /\ ListenersExist'
  BY <1>2, <1>3 DEF Core, Blank, ListenersExist, Types
<1>10. HeldNotifies' /\ DirtyAbove'
  BY <1>3, <1>5, <1>6 DEF Core, HeldNotifies, DirtyAbove
<1>11. DirtyMeansPresent'
  BY <1>2, <1>3, <1>5, PbMessageAssumption DEF Core, DirtyMeansPresent, Types
<1>12. SizesKept'
  BY <1>3, <1>5, <1>7 DEF Core, SizesKept
<1>13. SetFieldsArePresent'
  <2> SUFFICES ASSUME NEW p \in Live', NEW c \in Obj, c = child'[p],
                      ListFields(c)' # <<0, 0, {}>>
               PROVE  present'[c]
    <3> SUFFICES ASSUME NEW p \in Live',
                        child'[p] # NoObj, ListFields(child[p])' # <<0, 0, {}>>
                 PROVE  present'[child'[p]]
      BY DEF SetFieldsArePresent
    <3>1. child'[p] \in Obj
      BY <1>8, <1>5 DEF Types
    <3> QED BY <3>1 DEF ListFields, ListedMessages
  <2>1. c = child[p] /\ c # o /\ p \in Live /\ Holds(p, c)
    BY <1>5 DEF Holds
  <2>2. ListFields(c) # <<0, 0, {}>>
    BY <1>7, <2>1
  <2> QED BY <1>3, <2>1, <2>2, PbMessageAssumption, SMTT(30) DEF Core, SetFieldsArePresent
<1>14. StaleNoticesHarmless'
  <2> SUFFICES ASSUME NEW p \in Live', NEW q \in Live', NEW c \in Live',
                      p = child'[q], listener'[c] = p, ~Holds(p, c)'
               PROVE  present'[p]
    BY DEF StaleNoticesHarmless
  <2> QED BY <1>3, <1>5 DEF Core, StaleNoticesHarmless, Holds
<1>15. GettersRight'
  <2>1. \A t \in Thread : pending[t] # NoGetter =>
          pending[t].of \in Live' /\ pending[t].made \in Obj /\ pending[t].made # o
    BY <1>1, <1>4 DEF GettersRight, Live
  <2> QED BY <1>1, <1>3, <2>1 DEF GettersRight
<1>16. HandedRight'
  <2>1. \A h \in handed' : h \in Obj \X Obj /\ h[1] \in Obj /\ h[1] # o
                           /\ h[1] \in Live /\ child[h[1]] = h[2]
    BY <1>1 DEF HandedRight
  <2>2. \A h \in handed' : h \in Obj \X Obj /\ h[1] \in Live' /\ child'[h[1]] = h[2]
    BY <1>3, <1>4, <2>1
  <2> QED BY <2>2 DEF HandedRight
<1>17. WorkRight'
  BY <1>1 DEF WorkRight
<1> QED BY <1>8, <1>9, <1>10, <1>11, <1>12, <1>13, <1>14, <1>15, <1>16, <1>17 DEF Core

-----------------------------------------------------------------------------
(* The theorems.                                                            *)

\* Before the first message is made the invariant holds.
LEMMA InitInv == ASSUME PbMessageAssumption, Init PROVE Inv
<1> USE DEF Init
<1>1. Types
  BY DEF Types, PbMessageAssumption
<1>2. Live = {} /\ handed = {} /\ \A t \in Thread : pending[t] = NoGetter
  BY DEF Live
<1>3. Blank /\ ListenersExist /\ FlagMeansDirty
  BY DEF Blank, ListenersExist, FlagMeansDirty
<1>4. HeldNotifies /\ DirtyAbove /\ DirtyMeansPresent /\ SizesKept
      /\ SetFieldsArePresent /\ StaleNoticesHarmless
  BY <1>2 DEF HeldNotifies, DirtyAbove, DirtyMeansPresent, SizesKept, SetFieldsArePresent,
              StaleNoticesHarmless
<1>5. WorkRight
  BY DEF WorkRight
<1>6. GettersRight
  BY <1>2, PbMessageAssumption DEF GettersRight, NoGetter
<1>7. HandedRight
  BY <1>2 DEF HandedRight
<1> QED BY <1>1, <1>3, <1>4, <1>5, <1>6, <1>7 DEF Inv, Core

\* Every step keeps the invariant.
LEMMA StepInv ==
    ASSUME PbMessageAssumption, ~MessageSet, Inv, [Next]_vars PROVE Inv'
<1>1. CASE UNCHANGED vars
  <2>1. UNCHANGED <<book, content, cached, extent, pending, merging, parsing, handed>>
    BY <1>1 DEF vars, book, content, extent
  <2>2. Core' /\ Live' = Live /\ GettersRight'
    BY <2>1, CoreUnchanged, GettersUnchanged DEF Inv
  <2> QED BY <2>1, <2>2 DEF Inv, WorkRight, HandedRight, book, content
<1>2. ASSUME NEW o \in Obj, Fields(o) PROVE Inv'
  BY <1>2, FieldsKeep
<1>3. ASSUME NEW o \in Obj, Additions(o) PROVE Inv'
  BY <1>3, AdditionsKeep, ParsingKeeps DEF Additions
<1>4. ASSUME NEW o \in Obj, Copies(o) PROVE Inv'
  BY <1>4, MergeFromKeeps, NewKeeps, AdditionsKeep DEF Copies
<1>5. ASSUME NEW o \in Obj, New(o) \/ NewWithScalars(o) PROVE Inv'
  BY <1>5, NewKeeps
<1>6. ASSUME NEW o \in Obj, Parsing(o) PROVE Inv'
  BY <1>6, ParsingKeeps
<1>7. ASSUME NEW o \in Obj, ByteSize(o) \/ Collect(o) PROVE Inv'
  BY <1>7, ByteSizeKeeps, CollectKeeps
<1>8. CASE Getters \/ MergeStep \/ Raise
  BY <1>8, GettersKeep, MergeStepKeeps, RaiseKeeps
<1> QED BY <1>1, <1>2, <1>3, <1>4, <1>5, <1>6, <1>7, <1>8 DEF Next

\* The inductive invariant holds of every message type that is no MessageSet.
THEOREM Invariance == ~MessageSet => (Spec => []Inv)
<1> SUFFICES ASSUME ~MessageSet PROVE Spec => []Inv
  OBVIOUS
<1>1. Init => Inv
  BY PbMessageAssumption, InitInv
<1>2. Inv /\ [Next]_vars => Inv'
  BY PbMessageAssumption, StepInv
<1> QED BY <1>1, <1>2, PTL DEF Spec

\* A message that is not dirty has the size of its fields in its cache, and so
\* have the messages in its fields: ByteSize() may stop at the cached size,
\* and the encoders write the right length in front of a nested message.
THEOREM SizesAreRight == ~MessageSet => (Spec => []CachedSizeRight)
<1> SUFFICES ASSUME ~MessageSet PROVE Spec => []CachedSizeRight
  OBVIOUS
<1>1. Inv => CachedSizeRight
  <2> SUFFICES ASSUME Inv, NEW o \in Live, ~dirty[o]
               PROVE  cached[o] = FieldsSize(o) /\ \A p \in ListedMessages(o) : ~dirty[p]
    BY DEF CachedSizeRight
  <2>1. \A p \in ListedMessages(o) : p \in Obj /\ Holds(o, p)
    BY DEF ListedMessages, Holds, Inv, Core, Types, Live
  <2> QED BY <2>1 DEF Inv, Core, DirtyAbove, SizesKept
<1> QED BY <1>1, Invariance, PTL

\* A message field in which something is set is present: neither HasField nor
\* the encoders overlook it.
THEOREM PresenceIsRight == ~MessageSet => (Spec => []SetFieldsArePresent)
<1> SUFFICES ASSUME ~MessageSet PROVE Spec => []SetFieldsArePresent
  OBVIOUS
<1>1. Inv => SetFieldsArePresent
  BY DEF Inv, Core
<1> QED BY <1>1, Invariance, PTL

\* Two threads that read an absent message field at the same time are given the
\* same message, which is the one in the field: the loser of setdefault drops
\* what it made.
THEOREM GettersGetTheField == ~MessageSet => (Spec => []GettersAgree)
<1> SUFFICES ASSUME ~MessageSet PROVE Spec => []GettersAgree
  OBVIOUS
<1>1. Inv => GettersAgree
  BY DEF Inv, HandedRight, GettersAgree
<1> QED BY <1>1, Invariance, PTL

\* A message that was cleared or taken out of a list still notifies its old parent:
\* if that parent is itself in a field, it counts as set there already, so the notice
\* can do no more than invalidate its cached size.
THEOREM StaleNoticesDoNoHarm == ~MessageSet => (Spec => []StaleNoticesHarmless)
<1> SUFFICES ASSUME ~MessageSet PROVE Spec => []StaleNoticesHarmless
  OBVIOUS
<1>1. Inv => StaleNoticesHarmless
  BY DEF Inv, Core
<1> QED BY <1>1, Invariance, PTL

\* The variables keep their types, and the objects hang together: a message that is
\* held, as a field or as an element, exists and notifies the message that holds it, so
\* none is held twice, and no listener is a message that is still to be made.
THEOREM TypesAreKept == ~MessageSet => (Spec => []PbMessageTypeOK)
<1> SUFFICES ASSUME ~MessageSet PROVE Spec => []PbMessageTypeOK
  OBVIOUS
<1>1. Inv => PbMessageTypeOK
  BY DEF Inv, Core, Types, HeldNotifies, ListenersExist, WorkRight, HandedRight,
         PbMessageTypeOK, Live
<1> QED BY <1>1, Invariance, PTL
-----------------------------------------------------------------------------
(* The conversions of PbNumbers                                            *)

\* wire_format.py, ZigZagEncode and ZigZagDecode: every signed integer has a zigzag
\* number of its own, every natural number is one, and the two functions are each
\* other's inverse.
THEOREM ZigZagIsABijection ==
    /\ \A value \in Int : ZigZagEncode(value) \in Nat /\ ZigZagDecode(ZigZagEncode(value)) = value
    /\ \A number \in Nat : ZigZagDecode(number) \in Int /\ ZigZagEncode(ZigZagDecode(number)) = number
<1>1. ASSUME NEW value \in Int
      PROVE  ZigZagEncode(value) \in Nat /\ ZigZagDecode(ZigZagEncode(value)) = value
  <2>1. CASE value >= 0
    <3>1. ZigZagEncode(value) = 2 * value
      BY <2>1 DEF ZigZagEncode
    <3>2. (2 * value) % 2 = 0 /\ (2 * value) \div 2 = value
      OBVIOUS
    <3> QED
      BY <2>1, <3>1, <3>2 DEF ZigZagDecode
  <2>2. CASE value < 0
    <3> DEFINE n == -(2 * value) - 1
    <3>1. ZigZagEncode(value) = n /\ n \in Nat
      BY <2>2 DEF ZigZagEncode
    <3>2. n % 2 = 1 /\ n \div 2 = -value - 1
      BY <3>1
    <3> QED
      BY <3>1, <3>2 DEF ZigZagDecode
  <2> QED
    BY <2>1, <2>2
<1>2. ASSUME NEW number \in Nat
      PROVE  ZigZagDecode(number) \in Int /\ ZigZagEncode(ZigZagDecode(number)) = number
  <2>1. /\ number \div 2 \in Nat
        /\ number = 2 * (number \div 2) + (number % 2)
        /\ number % 2 \in {0, 1}
    OBVIOUS
  <2> DEFINE h == number \div 2
  <2>2. CASE number % 2 = 0
    BY <2>1, <2>2 DEF ZigZagDecode, ZigZagEncode
  <2>3. CASE number % 2 = 1
    <3>1. ZigZagDecode(number) = -h - 1
      BY <2>3 DEF ZigZagDecode
    <3>2. -h - 1 < 0 /\ -(2 * (-h - 1)) - 1 = number
      BY <2>1, <2>3
    <3> QED
      BY <2>1, <3>1, <3>2 DEF ZigZagEncode
  <2> QED
    BY <2>1, <2>2, <2>3
<1> QED
  BY <1>1, <1>2

\* wire_format.py, ZigZagEncode: zigzag numbers are small when the absolute value is, so
\* the numbers of a signed type fill the unsigned one of the same width.
THEOREM ZigZagKeepsTheWidth ==
    ASSUME NEW half \in Nat, NEW value \in Int
    PROVE  -half <= value /\ value < half <=> ZigZagEncode(value) < 2 * half
<1>1. CASE value >= 0
  BY <1>1 DEF ZigZagEncode
<1>2. CASE value < 0
  BY <1>2 DEF ZigZagEncode
<1> QED
  BY <1>1, <1>2

\* wire_format.py, PackTag and UnpackTag: number and wire type can be told from the tag,
\* whatever the number, so two fields never share one.
THEOREM TagsAreUnpacked ==
    ASSUME NEW number \in Nat, NEW wiretype \in WireTypes
    PROVE  UnpackTag(PackTag(number, wiretype)) = <<number, wiretype>>
<1> DEFINE t == PackTag(number, wiretype)
<1>1. t = number * 8 + wiretype /\ wiretype \in 0 .. 7
  BY DEF PackTag, WireTypes
<1>2. t \div 8 = number /\ t % 8 = wiretype
  BY <1>1
<1> QED
  BY <1>2 DEF UnpackTag
=============================================================================
