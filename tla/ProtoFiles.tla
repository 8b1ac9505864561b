----------------------------- MODULE ProtoFiles -----------------------------
(* The .proto files behind the classes, in the order their imports are met. *)
EXTENDS A4Wire, SequencesExt

CONSTANTS FileOf,       \* the .proto file that declares each class
          Dependencies  \* the files each file imports, in order, without cycles

ASSUME ProtoFilesAssumption ==
    /\ FileOf \in [Class -> File]
    /\ Dependencies \in [File -> Seq(File)]
    /\ \A S \in SUBSET File : S # {} => \E f \in S : ToSet(Dependencies[f]) \cap S = {}

Imports(f) == ToSet(Dependencies[f])

\* Nothing is missing from S that one of its files imports.
Closed(S) == \A f \in S : Imports(f) \subseteq S
=============================================================================
