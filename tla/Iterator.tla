------------------------------ MODULE Iterator ------------------------------
(***************************************************************************)
(* The iterators over a snapshot (src/db/iterator_impl.cc,                 *)
(* iterator_impl.h): a stack of nodes of a search tree, moved in both      *)
(* directions, and on top of it the restriction to the keys of one prefix. *)
(* The tree is the one that the snapshot was taken of and does not change. *)
(*                                                                         *)
(* Keys are numbers.  The keys of a prefix are an interval: prefix_ itself *)
(* is just below it and prefix_ followed by 1 just above it.  The catalog  *)
(* has the smaller prefix ("C") and users have the greater one ("U").      *)
(*                                                                         *)
(* A call goes down the tree in one or two loops; each turn of a loop is a *)
(* step.  Seek, SeekForward and the loop of Next are the mirror images of  *)
(* SeekPrevious and of the loops of Prev and SeekToLast: d is the          *)
(* direction.                                                              *)
(***************************************************************************)
EXTENDS Integers, Sequences, FiniteSets, FiniteSetsExt

CONSTANTS Catalog,  \* keys with PREFIX_COMMITTED_INTENTION
          User      \* keys with PREFIX_USER

ASSUME IteratorAssumption ==
    /\ Catalog \subseteq Nat /\ User \subseteq Nat /\ IsFiniteSet(Catalog) /\ IsFiniteSet(User)
    /\ Catalog # {} /\ User # {}
    /\ \A c \in Catalog, u \in User : c > 1 /\ c + 1 < u

VARIABLES
    tree,    \* the snapshot: node -> its children, and all that is under it
    root,    \* its root
    prefix,  \* prefix_
    stack,   \* stack_, the top first: "curr or unvisited parents"
    dir,     \* dir, undefined before the first seek
    call,    \* the call in progress and the state of its loop
    at       \* what the last call left: key(), or Nil if not Valid()

vars == <<tree, root, prefix, stack, dir, call, at>>

Nil == 0

Nodes == DOMAIN tree

Prefixed(p) == IF p = "C" THEN Catalog ELSE User

\* The strings that the prefix iterators make: the prefix, and the one past it.
prefix_(p) == Min(Prefixed(p)) - 1
past(p)    == Max(Prefixed(p)) + 1

-----------------------------------------------------------------------------
(* The search trees over a set of keys: a tree is given by an order q of its nodes in *)
(* which each one is above those that come later, as in an insertion. *)

Orders(s) == {q \in [1..Cardinality(s) -> s] : \A i, j \in DOMAIN q : i # j => q[i] # q[j]}

Between(m, a, b) == (a < m /\ m < b) \/ (b < m /\ m < a)

\* The nodes that no earlier node keeps apart from q[i].
Under(q, i) == {q[k] : k \in {j \in DOMAIN q : i <= j /\ \A l \in DOMAIN q : l < i => ~Between(q[l], q[i], q[j])}}

Topmost(q, s) == IF s = {} THEN Nil ELSE q[Min({i \in DOMAIN q : q[i] \in s})]

NodeOf(q, i) ==
    [left  |-> Topmost(q, {k \in Under(q, i) : k < q[i]}),
     right |-> Topmost(q, {k \in Under(q, i) : k > q[i]}),
     under |-> Under(q, i)]

TreeOf(q) == [n \in {q[i] : i \in DOMAIN q} |-> NodeOf(q, CHOOSE i \in DOMAIN q : q[i] = n)]

\* The number of nodes on each path from node n down to a Nil.
PathLengths(t, n) ==
    {Cardinality({a \in t[n].under : m \in t[a].under}) :
        m \in {x \in t[n].under : Nil \in {t[x].left, t[x].right}}}

\* A tree that can be coloured red and black.
Balanced(t) == \A n \in DOMAIN t : Max(PathLengths(t, n)) <= 2 * Min(PathLengths(t, n))

NoCall == [op |-> "none"]

\* NewIterator on any snapshot, and the iterator of the conflict check.  A database
\* always has an entry in its catalog.
Init ==
    /\ prefix \in {"C", "U"}
    /\ \E s \in SUBSET (Catalog \cup User) :
         /\ s \cap Catalog # {}
         /\ \E q \in Orders(s) : tree = TreeOf(q) /\ root = q[1]
    /\ Balanced(tree)
    /\ stack = <<>>
    /\ dir = "undefined"
    /\ call = NoCall
    /\ at = Nil

-----------------------------------------------------------------------------
(* RawIteratorImpl. *)

\* b is farther in direction d than a; the child on that side, and the other one.
Ahead(d, a, b) == IF d = "forward" THEN a < b ELSE b < a
Far(d, n)      == IF d = "forward" THEN tree[n].right ELSE tree[n].left
Near(d, n)     == IF d = "forward" THEN tree[n].left ELSE tree[n].right

key == Head(stack)

\* Seek, SeekForward and SeekPrevious from the cleared stack: down to the target.
Search(op, d, target) ==
    /\ stack' = <<>>
    /\ call' = [op |-> op, loop |-> "search", d |-> d, node |-> root, target |-> target]

\* Down from node n with all that is nearer, on the stack s.
Spine(op, d, n, s) ==
    /\ stack' = s
    /\ call' = [op |-> op, loop |-> "spine", d |-> d, node |-> n]

\* Next and Prev once they have the stack for their direction.
Step(op, d) == Spine(op, d, Far(d, key), Tail(stack))

\* Mutant of Move: the stack is kept when the direction changes.
Move_Never(op, d) == Step(op, d)

\* Next and Prev: the stack is rebuilt when the direction changes.
Move(op, d) == IF dir = d THEN Step(op, d) ELSE Search(op, d, key)

\* Mutant of SearchTurn: every node on the way is pushed.
SearchTurn_All ==
    /\ call.op # "none" /\ call.loop = "search" /\ call.node # Nil
    /\ stack' = <<call.node>> \o stack
    /\ call' = [call EXCEPT !.node = IF call.target = @ THEN Nil
                                     ELSE IF Ahead(call.d, call.target, @) THEN Near(call.d, @)
                                     ELSE Far(call.d, @)]
    /\ UNCHANGED <<tree, root, prefix, dir, at>>

\* A turn of the loop to the target: of the nodes on the way, those at it or ahead of it.
SearchTurn ==
    /\ call.op # "none" /\ call.loop = "search" /\ call.node # Nil
    /\ stack' = IF call.target = call.node \/ Ahead(call.d, call.target, call.node)
                THEN <<call.node>> \o stack ELSE stack
    /\ call' = [call EXCEPT !.node = IF call.target = @ THEN Nil
                                     ELSE IF Ahead(call.d, call.target, @) THEN Near(call.d, @)
                                     ELSE Far(call.d, @)]
    /\ UNCHANGED <<tree, root, prefix, dir, at>>

\* A turn of the loop down one side.
SpineTurn ==
    /\ call.op # "none" /\ call.loop = "spine" /\ call.node # Nil
    /\ stack' = <<call.node>> \o stack
    /\ call' = [call EXCEPT !.node = Near(call.d, @)]
    /\ UNCHANGED <<tree, root, prefix, dir, at>>

-----------------------------------------------------------------------------
(* PrefixRawIteratorImpl. *)

Valid == stack # <<>> /\ key \in Prefixed(prefix)

Return ==
    /\ call' = NoCall
    /\ at' = IF Valid THEN key ELSE Nil
    /\ UNCHANGED stack

SeekToFirst ==
    /\ prefix = "U" /\ call.op = "none"
    /\ Search("first", "forward", prefix_(prefix))
    /\ UNCHANGED <<tree, root, prefix, dir, at>>

SeekToLast ==
    /\ prefix = "U" /\ call.op = "none"
    /\ Search("last", "forward", past(prefix))
    /\ UNCHANGED <<tree, root, prefix, dir, at>>

Seek(target) ==
    /\ call.op = "none"
    /\ Search("seek", "forward", target)
    /\ UNCHANGED <<tree, root, prefix, dir, at>>

NextEntry ==
    /\ Valid /\ call.op = "none"
    /\ Move("next", "forward")
    /\ UNCHANGED <<tree, root, prefix, dir, at>>

PrevEntry ==
    /\ prefix = "U" /\ Valid /\ call.op = "none"
    /\ Move("prev", "reverse")
    /\ UNCHANGED <<tree, root, prefix, dir, at>>

\* The loop to the target is over.  Seek is done, and so is SeekToFirst; Next and Prev
\* go on.  SeekToLast goes back if what it finds past the prefix has the prefix, and
\* otherwise to the last key of the tree.
SearchEnds ==
    /\ call.op # "none" /\ call.loop = "search" /\ call.node = Nil
    /\ \/ call.op \in {"first", "seek"} /\ Return
       \/ (call.op \in {"next", "prev"} \/ call.d = "reverse") /\ Step(call.op, call.d) /\ UNCHANGED at
       \/ /\ call.op = "last" /\ call.d = "forward"
          /\ IF Valid THEN Search("last", "reverse", key) ELSE Spine("last", "reverse", root, <<>>)
          /\ UNCHANGED at
    /\ dir' = call.d
    /\ UNCHANGED <<tree, root, prefix>>

SpineEnds ==
    /\ call.op # "none" /\ call.loop = "spine" /\ call.node = Nil
    /\ Return
    /\ dir' = call.d
    /\ UNCHANGED <<tree, root, prefix>>

\* The conflict check only seeks and goes on; users do all of it.
Next ==
    \/ SeekToFirst \/ SeekToLast \/ NextEntry \/ PrevEntry
    \/ \E t \in Prefixed(prefix) : Seek(t)
    \/ SearchTurn \/ SearchEnds \/ SpineTurn \/ SpineEnds

Spec == Init /\ [][Next]_vars

-----------------------------------------------------------------------------
\* After any sequence of calls the stack holds what its comment says: the current
\* node and those above it that are still to be visited in this direction, all of
\* them and in the order of the visits.
StackHoldsUnvisited ==
    (call.op = "none" /\ stack # <<>>) =>
        /\ \A i, j \in DOMAIN stack : i < j => Ahead(dir, stack[i], stack[j])
        /\ {stack[i] : i \in DOMAIN stack} = {n \in Nodes : key \in tree[n].under /\ ~Ahead(dir, n, key)}

Abstract == INSTANCE Cursor WITH
    Targets <- Catalog \cup User,
    Invalid <- Nil,
    source  <- Nodes \cap Prefixed(prefix)

\* The iterators are cursors over the keys of their prefix.  For SeekToLast that is so
\* because no key of the tree is past those of the users.
IsCursor == Abstract!Spec
=============================================================================
