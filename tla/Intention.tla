------------------------------ MODULE Intention ------------------------------
(***************************************************************************)
(* The intention of a transaction (src/db/intention.h), the operations it  *)
(* records (src/db/transaction_impl.cc) and their replay on a tree         *)
(* (DBImpl::ReplayIntention).                                              *)
(*                                                                         *)
(* A tree is represented by its contents: kv maps the prefixed user keys   *)
(* to their values, catalog is the set of the positions stored under the   *)
(* committed-intention prefix.  A key is recorded in an intention exactly  *)
(* as the code records it: Put prefixes it first, Get and Delete do not.   *)
(***************************************************************************)
EXTENDS Integers, Sequences, FiniteSets, FiniteSetsExt

CONSTANTS Keys,     \* keys a client uses
          Values,   \* values a client stores
          NoValue   \* the key is not in the tree

ASSUME NoValueAssumption == NoValue \notin Values

PREFIX_USER == "U"
PREFIX_COMMITTED_INTENTION == "C"

\* prefix, a zero byte, value.
prefix_string(prefix, value) == <<prefix, value>>

UserKeys == {prefix_string(PREFIX_USER, k) : k \in Keys}

\* What the four recording methods add to the intention.
GetOp(k)        == [op |-> "GET",    key |-> k,    val |-> NoValue]
PutOp(pkey, v)  == [op |-> "PUT",    key |-> pkey, val |-> v]
DeleteOp(k)     == [op |-> "DELETE", key |-> k,    val |-> NoValue]
CopyOp(pkey)    == [op |-> "COPY",   key |-> pkey, val |-> NoValue]

\* Keys of every operation, and keys of the operations that update.
OpKeys(ops) == {ops[i].key : i \in DOMAIN ops}

UpdateOpKeys(ops) ==
    {ops[i].key : i \in {j \in DOMAIN ops : ops[j].op \in {"PUT", "DELETE"}}}

\* Serialize marks an intention of COPY operations as a flush; COPY and other
\* operations are never mixed, and an intention without operations is refused.
Serializable(ops) ==
    /\ ops # <<>>
    /\ \A i, j \in DOMAIN ops : (ops[i].op = "COPY") <=> (ops[j].op = "COPY")

Flush(ops) == \E i \in DOMAIN ops : ops[i].op = "COPY"

-----------------------------------------------------------------------------
(* Trees, by their contents. *)

NoKeys == [pk \in UserKeys |-> NoValue]

TreePut(kv, pkey, v) == [kv EXCEPT ![pkey] = v]

TreeDelete(kv, prefix, k) == [kv EXCEPT ![prefix_string(prefix, k)] = NoValue]

\* The key in the tree that an update changes: Put is given the recorded key,
\* Delete prefixes it.
UpdatedKey(op) ==
    IF op.op = "PUT" THEN op.key ELSE prefix_string(PREFIX_USER, op.key)

\* The operations that change pk.
UpdatesTo(ops, pk) ==
    {i \in DOMAIN ops : ops[i].op \in {"PUT", "DELETE"} /\ UpdatedKey(ops[i]) = pk}

\* Mutant of ReplayIntention: the first update of a key stays.
ReplayIntention_FirstWins(kv, ops) ==
    [pk \in UserKeys |->
        IF UpdatesTo(ops, pk) = {} THEN kv[pk] ELSE ops[Min(UpdatesTo(ops, pk))].val]

\* The contents after the operations have been applied in turn: what the last
\* update of a key left there.  GET and COPY leave the contents alone.
ReplayIntention(kv, ops) ==
    [pk \in UserKeys |->
        IF UpdatesTo(ops, pk) = {} THEN kv[pk] ELSE ops[Max(UpdatesTo(ops, pk))].val]

\* One turn of the loop of ReplayIntention: the switch on the kind of operation.
ReplayOp(kv, op) ==
    CASE op.op = "PUT"    -> TreePut(kv, op.key, op.val)
      [] op.op = "DELETE" -> TreeDelete(kv, PREFIX_USER, op.key)
      [] OTHER            -> kv

\* The contents when the loop has gone through all the operations.
ReplayLoop(kv, ops) ==
    LET after[n \in 0..Len(ops)] == IF n = 0 THEN kv ELSE ReplayOp(after[n - 1], ops[n])
    IN  after[Len(ops)]
=============================================================================
