------------------------------- MODULE MCTrees -------------------------------
(***************************************************************************)
(* Instances of Trees for TLC.                                             *)
(***************************************************************************)
EXTENDS Trees

\* Five keys of two owners; one of them is stored with either of two values.
MCInputs == {Rec(k, 2) : k \in 1..5} \cup {Rec(3, 3)}

\* The state without what nothing depends on: the last call and its answer,
\* which no action reads, and the external blocks once they are known to be
\* wrong.  States that differ only in these are explored once, and the
\* refinement is still checked on every step that leads to one of them.
MCView == <<kind, tree, map, cache, halfway, IF halfway THEN {} ELSE ext, bad, removals, gone>>
=============================================================================
