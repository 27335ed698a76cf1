------------------------------- MODULE MCParts -------------------------------
(***************************************************************************)
(* One run for five parts of the module that share no state.  The initial  *)
(* state picks the part; the others stay as they are.                      *)
(***************************************************************************)
EXTENDS IaFiles, ChannelRef, SourceRef, Inscriptions, Shelf, TLC

VARIABLE part

Channels == {1, 2}
\* One channel carries a two-file Internet Archive item, the other a second item and a
\* pinned CID.
Chain == (1 :> {"film"}) @@ (2 :> {"reel", "book"})
Files == ("film" :> <<"f1", "f2">>) @@ ("reel" :> <<"r">>) @@ ("book" :> <<"b">>)

Init ==
  /\ part \in {"manifest", "reference", "label", "page", "rows"}
  /\ ManifestInit /\ RefInit /\ LabelInit /\ PageInit /\ RowsInit
  /\ part # "label" => ~pseudo

ReadManifest ==
  /\ part = "manifest" /\ ManifestNext
  /\ UNCHANGED <<part, refVars, labelVars, pageVars, rowVars>>
ReadReference ==
  /\ part = "reference" /\ RefNext
  /\ UNCHANGED <<part, manifestVars, labelVars, pageVars, rowVars>>
ReadLabel ==
  /\ part = "label" /\ LabelNext
  /\ UNCHANGED <<part, manifestVars, refVars, pageVars, rowVars>>
ReadPage ==
  /\ part = "page" /\ PageNext
  /\ UNCHANGED <<part, manifestVars, refVars, labelVars, rowVars>>
KeepRows ==
  /\ part = "rows" /\ RowsNext
  /\ UNCHANGED <<part, manifestVars, refVars, labelVars, pageVars>>

Next == ReadManifest \/ ReadReference \/ ReadLabel \/ ReadPage \/ KeepRows

Spec == Init /\ [][Next]_<<part, manifestVars, refVars, labelVars, pageVars, rowVars>>
==============================================================================
