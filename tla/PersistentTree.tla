--------------------------- MODULE PersistentTree ---------------------------
(***************************************************************************)
(* PersistentTree and Node (src/db/persistent_tree.cc, node.h): the copy-  *)
(* on-write red-black tree of the database.  A tree is a delta: the nodes  *)
(* that carry its rid, on top of the nodes of the snapshot it was made     *)
(* from, which it shares and must not change.  Deltas are written to the   *)
(* log as after-images, in which a node is addressed by position and       *)
(* offset, and read back from there (node_cache.cc).                       *)
(*                                                                         *)
(* A pointer is [ref, addr]; set_ref changes the first and leaves the      *)
(* second as it is.  One action is one turn of a loop of Put or Delete.    *)
(***************************************************************************)
EXTENDS Integers, Sequences, FiniteSets, FiniteSetsExt, SequencesExt

CONSTANTS Keys,       \* keys of the users, above the catalog keys 1..MaxDeltas
          MaxDeltas,  \* bound: deltas written
          MaxOps,     \* bound: operations of the users
          Rewrites    \* 5: nodes that gc() rewrites

ASSUME PersistentTreeAssumption ==
    /\ MaxDeltas \in Nat \ {0} /\ MaxOps \in Nat /\ Rewrites \in Nat \ {0}
    /\ \A k \in Keys : k \in Nat /\ k > MaxDeltas

VARIABLES
    heap,      \* the nodes in memory
    src_root,  \* src_root_: the snapshot
    root,      \* root_, NoRoot for nullptr
    rid,       \* rid_, also the position of the delta
    op,        \* where Put and Delete are, and their local variables
    images,    \* the after-images in the log
    fresh_nil, \* fresh_nodes_ holds Nil
    flush,     \* the keys in the intention of gc()
    content,   \* what the tree of the transaction should hold
    committed, \* what the snapshot should hold
    ops        \* operations so far

vars == <<heap, src_root, root, rid, op, images, fresh_nil, flush, content, committed, ops>>

AllKeys == Keys \cup 1..MaxDeltas
Nil     == <<0, 0>>
NoRoot  == <<>>
NoAddr  == <<>>

NilPtr     == [ref |-> Nil, addr |-> NoAddr]
NilNode    == [key |-> 0, val |-> 0, red |-> FALSE, rid |-> 0, left |-> NilPtr, right |-> NilPtr]
NewNode(k) == [key |-> k, val |-> rid, red |-> TRUE, rid |-> rid, left |-> NilPtr, right |-> NilPtr]

Child(h, n, side)  == h[n][side].ref
Toward(h, n, k)    == IF k < h[n].key THEN "left" ELSE "right"
Opposite(side)     == IF side = "left" THEN "right" ELSE "left"
Base               == IF root = NoRoot THEN src_root ELSE root

\* An unused name for a node of this delta: any will do.
NewId(h, k) ==
    LET free == {j \in AllKeys : <<rid, j>> \notin DOMAIN h}
    IN  <<rid, IF k \in free THEN k ELSE Min(free)>>

With(h, n, node) == [m \in DOMAIN h \cup {n} |-> IF m = n THEN node ELSE h[m]]

\* Mutant of Copy: the copy shares the node.
Copy_Shared(h, n) == [heap |-> h, node |-> n]

\* The node itself if it belongs to this delta, or else a copy that does, with
\* the pointers of the original, their addresses included.
Copy(h, n) ==
    IF n = Nil \/ h[n].rid = rid THEN [heap |-> h, node |-> n]
    ELSE LET id == NewId(h, h[n].key)
         IN  [heap |-> With(h, id, [h[n] EXCEPT !.rid = rid]), node |-> id]

\* The heap in which the child of n is one of this delta.
OwnChild(h, n, side) ==
    LET c == Copy(h, Child(h, n, side))
    IN  [c.heap EXCEPT ![n][side].ref = c.node]

RECURSIVE Present(_, _, _)
Present(h, n, k) ==
    n # Nil /\ (h[n].key = k \/ Present(h, Child(h, n, Toward(h, n, k)), k))

\* The path to key k, copied bottom up: insert_recursive ends in a new node,
\* delete_recursive and copy_recursive in the node that holds the key.
RECURSIVE copy_path(_, _, _)
copy_path(h, n, k) ==
    IF n = Nil THEN LET id == NewId(h, k)
                    IN  [heap |-> With(h, id, NewNode(k)), path |-> <<id>>]
    ELSE IF h[n].key = k THEN LET c == Copy(h, n)
                              IN  [heap |-> c.heap, path |-> <<c.node>>]
    ELSE LET side  == Toward(h, n, k)
             below == copy_path(h, Child(h, n, side), k)
             c     == Copy(below.heap, n)
         IN  [heap |-> [c.heap EXCEPT ![c.node][side].ref = Last(below.path)],
              path |-> Append(below.path, c.node)]

\* PersistentTree::Copy for each of the keys: a missing key, or one whose node is
\* in the delta by now, changes nothing.
RECURSIVE copy_paths(_, _, _)
copy_paths(h, base, keys) ==
    IF keys = <<>> THEN [heap |-> h, root |-> base]
    ELSE LET c == copy_path(h, base, Head(keys))
         IN  IF Present(h, base, Head(keys)) /\ c.path[1] \notin DOMAIN h
             THEN copy_paths(c.heap, Last(c.path), Tail(keys))
             ELSE copy_paths(h, base, Tail(keys))

\* Mutant of rotate: a pointer that moves leaves its address behind.
rotate_RefOnly(s, parent, child, a, b) ==
    LET gc == s.heap[child][b]
        h1 == [s.heap EXCEPT ![child][b].ref = s.heap[gc.ref][a].ref]
        h2 == IF s.root = child THEN h1
              ELSE [h1 EXCEPT ![parent][IF Child(h1, parent, a) = child THEN a ELSE b].ref = gc.ref]
    IN  [heap |-> [h2 EXCEPT ![gc.ref][a].ref = child],
         root |-> IF s.root = child THEN gc.ref ELSE s.root]

\* s is [heap, root].  Pointers move with their addresses; the pointer to child
\* only gets a new ref.
rotate(s, parent, child, a, b) ==
    LET gc == s.heap[child][b]
        h1 == [s.heap EXCEPT ![child][b] = s.heap[gc.ref][a]]
        h2 == IF s.root = child THEN h1
              ELSE [h1 EXCEPT ![parent][IF Child(h1, parent, a) = child THEN a ELSE b] = gc]
    IN  [heap |-> [h2 EXCEPT ![gc.ref][a].ref = child],
         root |-> IF s.root = child THEN gc.ref ELSE s.root]

swap_color(h, m, n) == [h EXCEPT ![m].red = h[n].red, ![n].red = h[m].red]

transplant(s, parent, removed, transplanted) ==
    IF parent = Nil THEN [s EXCEPT !.root = transplanted]
    ELSE [s EXCEPT !.heap[parent][IF Child(s.heap, parent, "left") = removed
                                  THEN "left" ELSE "right"].ref = transplanted]

\* The path to the smallest node below n, copied top down.
RECURSIVE build_min_path(_, _, _)
build_min_path(h, n, path) ==
    IF Child(h, n, "left") = Nil THEN [heap |-> h, node |-> n, path |-> path]
    ELSE LET h1 == OwnChild(h, n, "left")
         IN  build_min_path(h1, Child(h1, n, "left"), <<n>> \o path)

RECURSIVE Reachable(_, _)
Reachable(h, n) ==
    IF n = Nil THEN {Nil}
    ELSE {n} \cup Reachable(h, Child(h, n, "left")) \cup Reachable(h, Child(h, n, "right"))

\* The nodes that some tree still refers to.
Live(h, roots) == [n \in UNION {Reachable(h, r) : r \in roots} |-> h[n]]

\* The owned nodes in the order of serialize_intention: left, right, node.
RECURSIVE Delta(_, _)
Delta(h, n) ==
    IF h[n].rid # rid THEN <<>>
    ELSE Delta(h, Child(h, n, "left")) \o Delta(h, Child(h, n, "right")) \o <<n>>

Before(p, q) == p[1] < q[1] \/ (p[1] = q[1] /\ p[2] < q[2])

\* The keys of the Rewrites non-root nodes with the smallest addresses, in order.
Oldest(h, base) ==
    LET ptrs == {p \in {h[n][side] : n \in Reachable(h, base), side \in {"left", "right"}} :
                   p.ref # Nil}
        Nth(i) == CHOOSE p \in ptrs : Cardinality({q \in ptrs : Before(q.addr, p.addr)}) = i - 1
    IN  [i \in 1..Min({Rewrites, Cardinality(ptrs)}) |-> h[Nth(i).ref].key]

Idle == [pc |-> "idle"]

\* DB::Open: the tree with the catalog key of position 1, written to the log.
Init ==
    /\ heap = [n \in {Nil, <<1, 1>>} |->
                 IF n = Nil THEN NilNode
                 ELSE [NilNode EXCEPT !.key = 1, !.val = 1, !.rid = 1]]
    /\ src_root = <<1, 1>>
    /\ root = NoRoot
    /\ rid = 2
    /\ op = Idle
    /\ images = << <<[key |-> 1, val |-> 1, red |-> FALSE, left |-> NoAddr, right |-> NoAddr]>> >>
    /\ fresh_nil = FALSE
    /\ flush = <<>>
    /\ content = [k \in {1} |-> 1]
    /\ committed = content
    /\ ops = 0

-----------------------------------------------------------------------------
(* Put. *)

\* The path is copied and the new node hangs below it; next says what follows.
Insert(h, base, k, next) ==
    LET c    == copy_path(h, base, k)
        path == Append(c.path, Nil)
    IN  /\ heap' = c.heap
        /\ op' = [pc |-> "insert", next |-> next, key |-> k, root |-> Last(c.path),
                  node |-> path[1], parent |-> path[2], path |-> SubSeq(path, 3, Len(path))]

\* The side of its grandparent that the parent is on.
InsertSide == IF Child(heap, Head(op.path), "left") = op.parent THEN "left" ELSE "right"

\* Mutant of RedUncle: the grandparent stays black.
RedUncle_BlackGrandparent ==
    /\ op.pc = "insert"
    /\ heap[op.parent].red
    /\ LET grand == Head(op.path)
           b     == Opposite(InsertSide)
           h     == OwnChild(heap, grand, b)
       IN  /\ heap[Child(heap, grand, b)].red
           /\ heap' = [h EXCEPT ![op.parent].red = FALSE, ![Child(h, grand, b)].red = FALSE]
           /\ op' = [op EXCEPT !.node = grand, !.parent = op.path[2],
                               !.path = SubSeq(@, 3, Len(@))]
    /\ UNCHANGED <<src_root, root, rid, images, fresh_nil, flush, content, committed, ops>>

RedUncle ==
    /\ op.pc = "insert"
    /\ heap[op.parent].red
    /\ LET grand == Head(op.path)
           b     == Opposite(InsertSide)
           h     == OwnChild(heap, grand, b)
       IN  /\ heap[Child(heap, grand, b)].red
           /\ heap' = [h EXCEPT ![op.parent].red = FALSE,
                                ![Child(h, grand, b)].red = FALSE,
                                ![grand].red = TRUE]
           /\ op' = [op EXCEPT !.node = grand, !.parent = op.path[2],
                               !.path = SubSeq(@, 3, Len(@))]
    /\ UNCHANGED <<src_root, root, rid, images, fresh_nil, flush, content, committed, ops>>

BlackUncle ==
    /\ op.pc = "insert"
    /\ heap[op.parent].red
    /\ LET grand == Head(op.path)
           a     == InsertSide
           b     == Opposite(a)
           inner == op.node = Child(heap, op.parent, b)
           here  == [heap |-> heap, root |-> op.root]
           s1    == IF inner THEN rotate(here, grand, op.parent, a, b) ELSE here
           top   == IF inner THEN op.node ELSE op.parent
           s2    == rotate([s1 EXCEPT !.heap = swap_color(@, grand, top)],
                           op.path[2], grand, b, a)
       IN  /\ ~heap[Child(heap, grand, b)].red
           /\ heap' = s2.heap
           /\ op' = [op EXCEPT !.root = s2.root, !.parent = top, !.path = Tail(@),
                               !.node = IF inner THEN op.parent ELSE @]
    /\ UNCHANGED <<src_root, root, rid, images, fresh_nil, flush, content, committed, ops>>

InsertDone ==
    /\ op.pc = "insert"
    /\ ~heap[op.parent].red
    /\ heap' = Live([heap EXCEPT ![op.root].red = FALSE], {src_root, op.root})
    /\ root' = op.root
    /\ op' = [pc |-> op.next]
    /\ UNCHANGED <<src_root, rid, images, fresh_nil, flush, content, committed, ops>>

-----------------------------------------------------------------------------
(* Delete. *)

\* Mutant of Cut: the payload of the successor is not taken over.
Cut_KeepsPayload(h, found, path) ==
    IF Nil \in {Child(h, found, "left"), Child(h, found, "right")}
    THEN [heap |-> h, node |-> found, path |-> Tail(path)]
    ELSE LET h1 == OwnChild(h, found, "right")
         IN  build_min_path(h1, Child(h1, found, "right"), path)

\* found is taken out itself, or else its successor, whose payload it steals.
Cut(h, found, path) ==
    IF Nil \in {Child(h, found, "left"), Child(h, found, "right")}
    THEN [heap |-> h, node |-> found, path |-> Tail(path)]
    ELSE LET h1  == OwnChild(h, found, "right")
             min == build_min_path(h1, Child(h1, found, "right"), path)
         IN  [min EXCEPT !.heap[found] = [@ EXCEPT !.key = min.heap[min.node].key,
                                                   !.val = min.heap[min.node].val]]

\* A child takes the place of the node that was cut; if the node was black the tree
\* is balanced from there.
TakeOut(cut, base, k, next) ==
    LET child == IF Child(cut.heap, cut.node, "left") = Nil
                 THEN Child(cut.heap, cut.node, "right") ELSE Child(cut.heap, cut.node, "left")
        s     == transplant([heap |-> cut.heap, root |-> base], Head(cut.path), cut.node, child)
    IN  /\ heap' = s.heap
        /\ op' = [pc |-> IF s.heap[cut.node].red THEN "deleted" ELSE "delete",
                  next |-> next, key |-> k, root |-> s.root, node |-> child,
                  parent |-> Head(cut.path), path |-> Tail(cut.path)]

RemoveKey(k, next) ==
    LET c == copy_path(heap, Base, k)
    IN  TakeOut(Cut(c.heap, Head(c.path), Append(c.path, Nil)), Last(c.path), k, next)

\* Mutant of Unbalanced: the loop is left at once.
Unbalanced_Never == FALSE

Unbalanced == op.node # op.root /\ ~heap[op.node].red

DeleteSide == IF Child(heap, op.parent, "left") = op.node THEN "left" ELSE "right"
Brother == Child(heap, op.parent, Opposite(DeleteSide))

RedBrother ==
    /\ op.pc = "delete"
    /\ Unbalanced
    /\ heap[Brother].red
    /\ LET a  == DeleteSide
           b  == Opposite(a)
           h  == OwnChild(heap, op.parent, b)
           br == Child(h, op.parent, b)
           s  == rotate([heap |-> swap_color(h, br, op.parent), root |-> op.root],
                        Head(op.path), op.parent, a, b)
       IN  /\ heap' = s.heap
           /\ op' = [op EXCEPT !.root = s.root, !.path = <<br>> \o @]
    /\ UNCHANGED <<src_root, root, rid, images, fresh_nil, flush, content, committed, ops>>

BlackNephews ==
    /\ op.pc = "delete"
    /\ Unbalanced
    /\ ~heap[Brother].red
    /\ \A side \in {"left", "right"} : ~heap[Child(heap, Brother, side)].red
    /\ LET b == Opposite(DeleteSide)
           h == OwnChild(heap, op.parent, b)
       IN  heap' = [h EXCEPT ![Child(h, op.parent, b)].red = TRUE]
    /\ op' = [op EXCEPT !.node = op.parent, !.parent = Head(op.path), !.path = Tail(@)]
    /\ UNCHANGED <<src_root, root, rid, images, fresh_nil, flush, content, committed, ops>>

\* Of two red nephews the outer one counts.
RedNephew ==
    /\ op.pc = "delete"
    /\ Unbalanced
    /\ ~heap[Brother].red
    /\ \E side \in {"left", "right"} : heap[Child(heap, Brother, side)].red
    /\ LET a  == DeleteSide
           b  == Opposite(a)
           h1 == OwnChild(heap, op.parent, b)
           br == Child(h1, op.parent, b)
           h2 == OwnChild(h1, br, a)
           s1 == IF heap[Child(heap, Brother, b)].red THEN [heap |-> heap, root |-> op.root]
                 ELSE rotate([heap |-> swap_color(h2, br, Child(h2, br, a)), root |-> op.root],
                             op.parent, br, b, a)
           h3 == OwnChild(s1.heap, op.parent, b)
           top == Child(h3, op.parent, b)
           h4 == OwnChild(h3, top, b)
           h5 == [h4 EXCEPT ![top].red = h4[op.parent].red, ![op.parent].red = FALSE,
                            ![Child(h4, top, b)].red = FALSE]
           s2 == rotate([heap |-> h5, root |-> s1.root], Head(op.path), op.parent, a, b)
       IN  /\ heap' = s2.heap
           /\ op' = [op EXCEPT !.root = s2.root, !.node = s2.root, !.parent = Nil]
    /\ UNCHANGED <<src_root, root, rid, images, fresh_nil, flush, content, committed, ops>>

BalanceDone ==
    /\ op.pc = "delete"
    /\ ~Unbalanced
    /\ LET c == Copy(heap, op.node)
           s == transplant([heap |-> c.heap, root |-> op.root], op.parent, op.node, c.node)
       IN  /\ heap' = IF c.node = Nil THEN s.heap ELSE [s.heap EXCEPT ![c.node].red = FALSE]
           /\ op' = [op EXCEPT !.pc = "deleted", !.root = s.root]
    /\ fresh_nil' = (fresh_nil \/ op.node = Nil)
    /\ UNCHANGED <<src_root, root, rid, images, flush, content, committed, ops>>

\* A Put of a key that was there goes on to insert it.
DeleteDone ==
    /\ op.pc = "deleted"
    /\ root' = op.root
    /\ LET h == Live(heap, {src_root, op.root})
       IN  IF op.next = "reinsert" THEN Insert(h, op.root, op.key, "idle")
           ELSE heap' = h /\ op' = Idle
    /\ UNCHANGED <<src_root, rid, images, fresh_nil, flush, content, committed, ops>>

-----------------------------------------------------------------------------
(* The operations of a transaction. *)

Operation ==
    /\ op = Idle
    /\ rid <= MaxDeltas
    /\ ops < MaxOps
    /\ ops' = ops + 1
    /\ UNCHANGED <<src_root, rid, images, fresh_nil, committed>>

Put(k) ==
    /\ Operation
    /\ IF Present(heap, Base, k) THEN RemoveKey(k, "reinsert") ELSE Insert(heap, Base, k, "idle")
    /\ content' = With(content, k, rid)
    /\ UNCHANGED <<root, flush>>

Delete(k) ==
    /\ Operation
    /\ Present(heap, Base, k)
    /\ RemoveKey(k, "idle")
    /\ content' = [j \in DOMAIN content \ {k} |-> content[j]]
    /\ UNCHANGED <<root, flush>>

\* gc() collects the keys below the oldest pointers of the snapshot ...
GC ==
    /\ Operation
    /\ flush = <<>>
    /\ flush' = Oldest(heap, src_root)
    /\ UNCHANGED <<heap, root, op, content>>

Abort ==
    /\ op = Idle
    /\ root # NoRoot
    /\ root' = NoRoot
    /\ heap' = Live(heap, {src_root})
    /\ content' = committed
    /\ UNCHANGED <<src_root, rid, op, images, fresh_nil, flush, committed, ops>>

-----------------------------------------------------------------------------
(* Commit: the catalog key, the addresses and the after-image. *)

Commit ==
    /\ op = Idle
    /\ rid <= MaxDeltas
    /\ Insert(heap, Base, rid, "publish")
    /\ content' = With(content, rid, rid)
    /\ UNCHANGED <<src_root, root, rid, images, fresh_nil, flush, committed, ops>>

\* ... and its intention, replayed on a later snapshot, has their paths copied.
Flush ==
    /\ op = Idle
    /\ root = NoRoot
    /\ rid <= MaxDeltas
    /\ flush # <<>>
    /\ LET c == copy_paths(heap, src_root, flush)
       IN  Insert(c.heap, c.root, rid, "publish")
    /\ content' = With(content, rid, rid)
    /\ flush' = <<>>
    /\ UNCHANGED <<src_root, root, rid, images, fresh_nil, committed, ops>>

Offset(delta, n) == (CHOOSE i \in DOMAIN delta : delta[i] = n) - 1

\* infect_node_ptr: pointers into the delta get their address.
Infected(delta, p) ==
    IF p.ref # Nil /\ heap[p.ref].rid = rid THEN [p EXCEPT !.addr = <<rid, Offset(delta, p.ref)>>]
    ELSE p

\* Position 0 stands for self.
serialize_node_ptr(p) ==
    IF p.ref = Nil THEN NoAddr
    ELSE IF heap[p.ref].rid = rid THEN <<0, p.addr[2]>> ELSE p.addr

\* Mutant of serialize_node: the pointers change places.
serialize_node_Swapped(node) ==
    [key |-> node.key, val |-> node.val, red |-> node.red,
     left |-> serialize_node_ptr(node.right), right |-> serialize_node_ptr(node.left)]

serialize_node(node) ==
    [key |-> node.key, val |-> node.val, red |-> node.red,
     left |-> serialize_node_ptr(node.left), right |-> serialize_node_ptr(node.right)]

Publish ==
    /\ op.pc = "publish"
    /\ LET delta == Delta(heap, root)
           h     == [n \in DOMAIN heap |->
                        IF heap[n].rid = rid
                        THEN [heap[n] EXCEPT !.left = Infected(delta, @), !.right = Infected(delta, @)]
                        ELSE heap[n]]
       IN  /\ heap' = Live(h, {root})
           /\ images' = Append(images, [i \in DOMAIN delta |-> serialize_node(h[delta[i]])])
    /\ src_root' = root
    /\ root' = NoRoot
    /\ rid' = rid + 1
    /\ op' = Idle
    /\ committed' = content
    /\ UNCHANGED <<fresh_nil, flush, content, ops>>

-----------------------------------------------------------------------------
(* Reading the nodes back from the log. *)

Image(addr) == images[addr[1]][addr[2] + 1]
RootAddress == <<Len(images), Len(Last(images)) - 1>>

\* Where a serialized pointer of the after-image at pos leads.
Target(pos, p) == IF p # NoAddr /\ p[1] = 0 THEN <<pos, p[2]>> ELSE p

RECURSIVE Stored(_)
Stored(addr) ==
    IF addr = NoAddr THEN {}
    ELSE {addr} \cup Stored(Target(addr[1], Image(addr).left))
                \cup Stored(Target(addr[1], Image(addr).right))

Name(addr) == IF addr = NoAddr THEN Nil ELSE <<addr[1], Image(addr).key>>

deserialize_node(addr) ==
    LET i == Image(addr)
        Ptr(p) == [ref |-> Name(Target(addr[1], p)), addr |-> Target(addr[1], p)]
    IN  [key |-> i.key, val |-> i.val, red |-> i.red, rid |-> addr[1],
         left |-> Ptr(i.left), right |-> Ptr(i.right)]

\* The snapshot was dropped from memory, or the database was opened again.
Reload ==
    /\ op = Idle
    /\ root = NoRoot
    /\ LET addrs == Stored(RootAddress)
       IN  heap' = [n \in {Name(a) : a \in addrs} \cup {Nil} |->
                       IF n = Nil THEN NilNode
                       ELSE deserialize_node(CHOOSE a \in addrs : Name(a) = n)]
    /\ src_root' = Name(RootAddress)
    /\ UNCHANGED <<root, rid, op, images, fresh_nil, flush, content, committed, ops>>

-----------------------------------------------------------------------------
Next ==
    \/ RedUncle \/ BlackUncle \/ InsertDone
    \/ RedBrother \/ BlackNephews \/ RedNephew \/ BalanceDone \/ DeleteDone
    \/ \E k \in Keys : Put(k) \/ Delete(k)
    \/ Abort \/ GC \/ Commit \/ Flush \/ Publish \/ Reload

Spec == Init /\ [][Next]_vars

-----------------------------------------------------------------------------
\* DBImpl::Validate: the black height, or 0.
RECURSIVE Validate(_)
Validate(n) ==
    IF n = Nil THEN 1
    ELSE LET l == Child(heap, n, "left")
             r == Child(heap, n, "right")
             lh == Validate(l)
             rh == Validate(r)
         IN  IF \/ heap[n].red /\ (heap[l].red \/ heap[r].red)
                \/ l # Nil /\ heap[l].key >= heap[n].key
                \/ r # Nil /\ heap[r].key <= heap[n].key
                \/ lh = 0 \/ rh = 0 \/ lh # rh
             THEN 0 ELSE IF heap[n].red THEN lh ELSE lh + 1

Between == op.pc \in {"idle", "publish"}

\* The tree that Put, Delete and the rewriting of gc() leave is a red-black tree,
\* as DBImpl::Validate defines it.
TreeIsValid == Between => Validate(Base) # 0

Pairs(h, n) == {<<h[m].key, h[m].val>> : m \in Reachable(h, n) \ {Nil}}

\* The tree holds the last value put under each key, and nothing else.
TreeHoldsContent ==
    Between => Pairs(heap, Base) = {<<k, content[k]>> : k \in DOMAIN content}

\* A transaction never changes a node of the snapshot it shares: only nodes with
\* its own rid are written until the tree is published, dropped or read back.
SnapshotsAreFrozen ==
    [][\A n \in DOMAIN heap \cap DOMAIN heap' :
          heap[n].rid # rid => heap'[n] = heap[n] \/ root' = NoRoot]_vars

\* The tree below a node, and the one below an address of the log, as values.
RECURSIVE MemoryTree(_)
MemoryTree(n) ==
    IF n = Nil THEN <<>>
    ELSE [key |-> heap[n].key, val |-> heap[n].val, red |-> heap[n].red,
          left |-> MemoryTree(Child(heap, n, "left")), right |-> MemoryTree(Child(heap, n, "right"))]

RECURSIVE LogTree(_)
LogTree(addr) ==
    IF addr = NoAddr THEN <<>>
    ELSE LET i == Image(addr)
         IN  [i EXCEPT !.left = LogTree(Target(addr[1], @)), !.right = LogTree(Target(addr[1], @))]

\* What is in the log under the root's address is the committed tree: each pointer
\* out of a delta was written with the address of the node it refers to.
LogHoldsSnapshot == LogTree(RootAddress) = MemoryTree(src_root)

\* References are weak: a node of the snapshot may leave memory at any step, and
\* ref() then reads the node at the pointer's address.  That is the node it had
\* pointed to, unless it is pinned: Delete holds the node it balances from.
PointersCanBeFetched ==
    \A n \in DOMAIN heap \ {Nil}, side \in {"left", "right"} :
        LET p == heap[n][side]
            pinned == op.pc = "delete" /\ p.ref = op.node
        IN  (p.ref # Nil /\ heap[p.ref].rid # rid /\ ~pinned) =>
                /\ p.addr # NoAddr
                /\ LogTree(p.addr) = MemoryTree(p.ref)

\* infect_self_pointers may give every node of fresh_nodes_ a new rid: Nil, which
\* is read-only, is not one of them.
NilIsNeverFresh == ~fresh_nil
=============================================================================
