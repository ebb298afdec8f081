-------------------------- MODULE MCEmbeddingWorker --------------------------
(* Two events, delivered again after a failure, about a document with a title and a *)
(* body, the first with an entity; one rebuild, and one drop of the documents' index.*)
EXTENDS EmbeddingWorker

CONSTANTS p1, d1, e1, none

MCPartitions == {p1}
MCDocs == {d1}
MCEnts == {e1}
MCDescribed == {e1}
MCParts == [t \in {d1, e1} |-> IF t = d1 THEN <<"title", "body">> ELSE <<"description">>]
MCDocOf == [o \in {0, 1} |-> d1]
MCEntsOf == [o \in {0, 1} |-> IF o = 0 THEN <<e1>> ELSE << >>]
==============================================================================
