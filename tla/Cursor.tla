------------------------------- MODULE Cursor -------------------------------
(***************************************************************************)
(* What the interface of iterators promises (include/cruzdb/iterator.h): a *)
(* position in an ordered set of keys that does not change.  An iterator   *)
(* is at a key or it is not valid.                                         *)
(***************************************************************************)
EXTENDS Integers, FiniteSetsExt

CONSTANTS Targets,   \* what may be sought, the keys included
          Invalid    \* the position of an iterator that is not valid

VARIABLES source,    \* the keys
          at         \* the current key, or Invalid

vars == <<source, at>>

Smallest(s) == IF s = {} THEN Invalid ELSE Min(s)
Largest(s)  == IF s = {} THEN Invalid ELSE Max(s)

Init == source \subseteq Targets /\ at = Invalid

SeekToFirst == at' = Smallest(source)
SeekToLast  == at' = Largest(source)
Seek(t)     == at' = Smallest({k \in source : k >= t})
Next        == at # Invalid /\ at' = Smallest({k \in source : k > at})
Prev        == at # Invalid /\ at' = Largest({k \in source : k < at})

Moves == SeekToFirst \/ SeekToLast \/ Next \/ Prev \/ \E t \in Targets : Seek(t)

Spec == Init /\ [][UNCHANGED source /\ Moves]_vars
=============================================================================
