--------------------------- MODULE MCProjectExport ---------------------------
(* Small instances of ProjectExport.                                         *)
EXTENDS ProjectExport

\* Ids are ordered, so they are numbers, and there is no symmetry.
ThreeProjects == 1..3
=============================================================================
