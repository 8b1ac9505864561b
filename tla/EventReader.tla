---------------------------- MODULE EventReader ----------------------------
(***************************************************************************)
(* What a file of A4 streams means to a client, with nothing of how it is  *)
(* read: the events of the file are handed out one after the other, each   *)
(* once, in the order they were written, decoded as the class they were    *)
(* written as, and together with the metadata message that applies to it.  *)
(* Metadata refers to the events after it or to the events before it, as   *)
(* the header of its stream says, and never to the events of another       *)
(* stream of the file (README.md and the class comment of InputStream).    *)
(* What is left of an event in which the file was cut may be handed out as *)
(* well, since no reader compares its bytes with its size; then it is the  *)
(* last thing to be handed out.                                            *)
(***************************************************************************)
EXTENDS A4Wire, FiniteSetsExt

VARIABLES file, delivered

Events == {i \in DOMAIN file : IsEvent(file[i])}
HeaderOf(i) == Max({j \in 1 .. i : HasId(file[j], StreamHeaderId)})
StreamOf(i) == {j \in DOMAIN file : IsUserMessage(file[j]) /\ HeaderOf(j) = HeaderOf(i)}

\* The metadata message that applies to event i; 0 when there is none
Applicable(i) ==
    LET metadata == {j \in StreamOf(i) : IsMetadata(file[j])}
        before == {j \in metadata : j < i}
        after == {j \in metadata : j > i}
    IN IF file[HeaderOf(i)].body.metadata_refers_forward
       THEN IF before = {} THEN 0 ELSE Max(before)
       ELSE IF after = {} THEN 0 ELSE Min(after)

Delivery(i) == [at |-> i, class |-> file[i].body.class, metadata |-> Applicable(i)]

AbstractInit == file = << >> /\ delivered = << >>

\* While nothing has been read yet, the file is still being written
WriteFile == delivered = << >> /\ UNCHANGED delivered

Deliver ==
    LET left == {i \in Events : \A n \in DOMAIN delivered : delivered[n].at < i} IN
    /\ left # {}
    /\ \A n \in DOMAIN delivered : ~IsCutShort(file[delivered[n].at])
    /\ delivered' = Append(delivered, Delivery(Min(left)))
    /\ UNCHANGED file

AbstractSpec == AbstractInit /\ [][WriteFile \/ Deliver]_<<file, delivered>>
=============================================================================
