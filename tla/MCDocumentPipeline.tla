------------------------- MODULE MCDocumentPipeline -------------------------
(* Instances of DocumentPipeline for TLC. *)
EXTENDS DocumentPipeline

CONSTANTS d1, d2, r1

MCNone   == {}
MCOneDoc == {d1}
MCDocs   == {d1, d2}
MCSecond == {d2}
MCOneCommand == {r1}
=============================================================================
