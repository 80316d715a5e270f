---------------------------- MODULE MCEditSplice ----------------------------
(* TLC instance of EditSplice: a blank line and two texts, whose hashes     *)
(* differ; a replacement is nothing, a blank line, or a line and a blank.   *)
EXTENDS EditSplice

CONSTANTS a, b, blank

MCReplacements == {<<>>, <<blank>>, <<b, blank>>}
MCLineHash == [l \in Lines |-> CASE l = blank -> 0 [] l = a -> 1 [] l = b -> 2]
=============================================================================
