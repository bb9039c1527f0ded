----------------------------- MODULE MCNodeCache -----------------------------
(* Small instances of NodeCache. *)
EXTENDS NodeCache

\* A tree of one node, an insertion that copies the root and adds a child, and a
\* change of the root, whose copy points to the child in the delta before.
MCSizes == <<1, 2, 1>>

MCKids == [n \in Nodes |-> IF n \in {<<2, 1>>, <<3, 0>>} THEN {<<2, 0>>} ELSE {}]
=============================================================================
