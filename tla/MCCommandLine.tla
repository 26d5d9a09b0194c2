---------------------------- MODULE MCCommandLine ---------------------------
(* Constants for model checking CommandLine.                               *)
EXTENDS CommandLine

CONSTANTS w, sql, path, blank

AllContents == {<<>>, <<w>>, <<w, blank>>}
=============================================================================
