--------------------------- MODULE MCArtifactSets ---------------------------
(* Instances of ArtifactSets for TLC: an Excel file is in every export, and   *)
(* there is one Markdown file per record.                                     *)
EXTENDS ArtifactSets

CONSTANTS w1

MCInputs == {{"excel", "markdown:A"}, {"excel", "markdown:A", "markdown:B"},
             {"excel", "markdown:B"}}
=============================================================================
