----------------------- MODULE CommittedIntentionIndex -----------------------
(***************************************************************************)
(* DBImpl::CommittedIntentionIndex: a bounded set of the positions of the  *)
(* most recently committed intentions, and the conflict zone that          *)
(* ProcessConcurrentIntention builds from it and from the catalog kept in  *)
(* the tree.                                                               *)
(***************************************************************************)
EXTENDS Integers, FiniteSets, FiniteSetsExt

CONSTANT Limit   \* limit_, 1000 in the code

ASSUME LimitAssumption == Limit \in Nat \ {0}

\* The new position is larger than all others; beyond the limit the smallest
\* position is dropped.
push(index, pos) ==
    LET grown == index \cup {pos}
    IN  IF Cardinality(grown) > Limit THEN grown \ {Min(grown)} ELSE grown

\* The positions returned by range(first, last).  lower_bound(first) is where
\* the copy starts also when it is first itself: the std::next that should step
\* over it is evaluated and discarded.
range(index, first, last) ==
    IF index = {} THEN {last} ELSE {p \in index : first <= p /\ p <= last}

\* Mutant of complete: any indexed position will do, as if the index could not
\* have dropped an older one.
complete_AnyIndexed(index, first) == index # {}

\* ret.second of range(first, last).
complete(index, first) == first \in index

\* The assertions of range, and of the catalog lookup after an incomplete one.
\* The code depends on them: it has assertions with side effects and is never
\* built without them.
RangeAsserts(index, catalog, first, last) ==
    /\ first < last
    /\ index # {} => last \in index
    /\ ~complete(index, first) => first \in catalog

\* Catalog positions after first and before the front of the range.
Unknown(index, catalog, first, last) ==
    {p \in catalog : first < p /\ p < Min(range(index, first, last))}

\* The intentions a concurrent intention is compared with.
ConflictZone(index, catalog, first, last) ==
    range(index, first, last) \cup
        (IF complete(index, first) THEN {} ELSE Unknown(index, catalog, first, last))
=============================================================================
