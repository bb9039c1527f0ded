------------------------ MODULE CruzDBHistoryProofs ------------------------
(***************************************************************************)
(* What the trees, the outcomes and the restore point of CruzDB have to do *)
(* with the history in the log, for any number of transactions, keys and   *)
(* crashes and for every limit of the index.                               *)
(***************************************************************************)
EXTENDS CruzDBProofs

(* A tree published for its committed intentions, and one that a client has  *)
(* built on such a tree with the operations ops.                             *)
Holds(l, tree) == tree.kv = Content(l, tree.catalog)

BuiltWith(l, tree, ops) == tree.kv = ReplayIntention(Content(l, tree.catalog), ops)

(* The trees that have been decided on, published, queued for the writer or  *)
(* written, with the intentions that they were published for.                *)
Published ==
    (IF phase = "closed" THEN {} ELSE {[pos |-> root_snapshot, tree |-> root]})
    \cup (IF tp.pc = "publish" THEN {[pos |-> tp.pos, tree |-> tp.tree]} ELSE {})
    \cup {lcs_trees[i] : i \in DOMAIN lcs_trees}
    \cup {[pos |-> log[a].intention, tree |-> log[a].tree] :
             a \in {b \in DOMAIN log : log[b].type = "afterimage"}}

PublishedTrees == \A x \in Published : Holds(log, x.tree)

(* A transaction's tree is its operations on what its snapshot holds. *)
PrivateTree(t) ==
    /\ txn[t].st = "idle" => txn[t].ops = <<>>
    /\ txn[t].st = "active" => BuiltWith(log, txn[t].tree, txn[t].ops)
    /\ txn[t].st = "append" => BuiltWith(log, txn[t].tree, log[txn[t].pos].ops)

(* And so is a tree left in finished_txns_ that was not taken out. *)
LeftTrees ==
    \A p \in DOMAIN finished :
        finished[p] # NullTree => BuiltWith(log, finished[p], log[p].ops)

TreeInv == PublishedTrees /\ (\A t \in Txns : PrivateTree(t)) /\ LeftTrees

-----------------------------------------------------------------------------
(* Facts about the operators. *)

\* The last of the committed intentions to write a key is one of them.
LEMMA LastWriter ==
    ASSUME NEW l, NEW n \in Nat, NEW C \in SUBSET (0..n), NEW pk, Writers(l, C, pk) # {}
    PROVE  /\ Max(Writers(l, C, pk)) \in C
           /\ UpdatesTo(l[Max(Writers(l, C, pk))].ops, pk) # {}
           /\ \A p \in Writers(l, C, pk) : p <= Max(Writers(l, C, pk))
<1>1. Writers(l, C, pk) \in SUBSET (0..n)
  BY DEF Writers
<1>2. /\ Max(Writers(l, C, pk)) \in Writers(l, C, pk)
      /\ \A p \in Writers(l, C, pk) : p <= Max(Writers(l, C, pk))
  BY <1>1, MaxOfBounded
<1>3. QED  BY <1>2 DEF Writers

\* The contents do not depend on what is appended to the log.
LEMMA ContentExtends ==
    ASSUME NEW l, NEW m, NEW n \in Nat, NEW C \in SUBSET (0..n),
           \A p \in C : p \in DOMAIN l,
           \A p \in DOMAIN l : p \in DOMAIN m /\ m[p] = l[p]
    PROVE  Content(m, C) = Content(l, C)
<1>1. ASSUME NEW pk \in UserKeys
      PROVE  /\ Writers(m, C, pk) = Writers(l, C, pk)
             /\ Writers(l, C, pk) # {} =>
                   m[Max(Writers(l, C, pk))] = l[Max(Writers(l, C, pk))]
  <2>1. Writers(m, C, pk) = Writers(l, C, pk)
    BY DEF Writers
  <2>2. QED  BY <2>1, LastWriter
<1>2. QED  BY <1>1 DEF Content

\* Replaying an intention that follows all the committed ones adds it to them.
LEMMA ContentCommits ==
    ASSUME NEW l, NEW n \in Nat, NEW C \in SUBSET (0..n), NEW p \in Nat,
           \A c \in C : c < p
    PROVE  Content(l, C \cup {p}) = ReplayIntention(Content(l, C), l[p].ops)
<1> DEFINE D == C \cup {p}
<1>1. ASSUME NEW pk \in UserKeys, UpdatesTo(l[p].ops, pk) = {}
      PROVE  Writers(l, D, pk) = Writers(l, C, pk)
  BY <1>1 DEF Writers
<1>2. ASSUME NEW pk \in UserKeys, UpdatesTo(l[p].ops, pk) # {}
      PROVE  Writers(l, D, pk) # {} /\ Max(Writers(l, D, pk)) = p
  <2>1. p \in Writers(l, D, pk)
    BY <1>2 DEF Writers
  <2>2. D \in SUBSET (0..p)
    OBVIOUS
  <2>3. /\ Max(Writers(l, D, pk)) \in D
        /\ \A q \in Writers(l, D, pk) : q <= Max(Writers(l, D, pk))
    BY <2>1, <2>2, LastWriter
  <2>4. p <= Max(Writers(l, D, pk)) /\ Max(Writers(l, D, pk)) \in D
    BY <2>1, <2>3
  <2>5. \A d \in D : d \in Nat /\ d <= p
    BY <2>2
  <2>6. Max(Writers(l, D, pk)) \in Nat /\ Max(Writers(l, D, pk)) <= p
    BY <2>4, <2>5
  <2> HIDE DEF D
  <2>7. QED  BY <2>1, <2>4, <2>6
<1>3. QED  BY <1>1, <1>2 DEF Content, ReplayIntention, LastWrite

\* Replaying no operations, and replaying one more.
LEMMA ReplayGrows ==
    ASSUME NEW kv, NEW ops \in Seq(Op), NEW op \in Op
    PROVE  ReplayIntention(kv, Append(ops, op)) =
             [pk \in UserKeys |->
                IF op.op \in {"PUT", "DELETE"} /\ UpdatedKey(op) = pk THEN op.val
                ELSE ReplayIntention(kv, ops)[pk]]
<1> DEFINE more == Append(ops, op)
           n == Len(ops) + 1
<1>1. /\ Len(ops) \in Nat /\ DOMAIN ops = 1..Len(ops) /\ DOMAIN more = 1..n
      /\ \A i \in DOMAIN ops : more[i] = ops[i]
      /\ more[n] = op
  BY AppendFacts
<1> HIDE DEF more
<1>2. ASSUME NEW pk \in UserKeys, op.op \in {"PUT", "DELETE"} /\ UpdatedKey(op) = pk
      PROVE  UpdatesTo(more, pk) # {} /\ Max(UpdatesTo(more, pk)) = n
  <2>1. n \in UpdatesTo(more, pk) /\ UpdatesTo(more, pk) \in SUBSET (0..n) /\ n \in Nat
    BY <1>1, <1>2 DEF UpdatesTo
  <2>2. /\ Max(UpdatesTo(more, pk)) \in UpdatesTo(more, pk)
        /\ \A y \in UpdatesTo(more, pk) : y <= Max(UpdatesTo(more, pk))
    BY <2>1, MaxOfBounded
  <2>3. QED  BY <2>1, <2>2
<1>3. ASSUME NEW pk \in UserKeys, ~(op.op \in {"PUT", "DELETE"} /\ UpdatedKey(op) = pk)
      PROVE  /\ UpdatesTo(more, pk) = UpdatesTo(ops, pk)
             /\ UpdatesTo(ops, pk) # {} =>
                   more[Max(UpdatesTo(ops, pk))] = ops[Max(UpdatesTo(ops, pk))]
  <2>1. \A i \in DOMAIN more : i \in DOMAIN ops \/ i = n
    BY <1>1
  <2>2. UpdatesTo(more, pk) = UpdatesTo(ops, pk)
    BY <1>1, <1>3, <2>1 DEF UpdatesTo
  <2>3. ASSUME UpdatesTo(ops, pk) # {}
        PROVE  Max(UpdatesTo(ops, pk)) \in DOMAIN ops
    <3>1. UpdatesTo(ops, pk) \in SUBSET (0..Len(ops))
      BY <1>1 DEF UpdatesTo
    <3>2. Max(UpdatesTo(ops, pk)) \in UpdatesTo(ops, pk)
      BY <1>1, <2>3, <3>1, MaxOfBounded
    <3>3. QED  BY <3>2 DEF UpdatesTo
  <2>4. QED  BY <1>1, <2>2, <2>3
<1>4. ReplayIntention(kv, more) =
        [pk \in UserKeys |->
           IF op.op \in {"PUT", "DELETE"} /\ UpdatedKey(op) = pk THEN op.val
           ELSE ReplayIntention(kv, ops)[pk]]
  BY <1>1, <1>2, <1>3 DEF ReplayIntention
<1>5. QED  BY <1>4 DEF more

\* Replaying no operations changes nothing.
LEMMA ReplayNothing ==
    ASSUME NEW l, NEW C
    PROVE  ReplayIntention(Content(l, C), <<>>) = Content(l, C)
<1>1. \A pk : UpdatesTo(<<>>, pk) = {}
  BY DEF UpdatesTo
<1>2. QED  BY <1>1 DEF ReplayIntention, Content

\* Replaying one more operation is applying it.
LEMMA ReplayOneMore ==
    ASSUME NEW kv, NEW ops \in Seq(Op), NEW op \in Op
    PROVE  ReplayIntention(kv, Append(ops, op)) = ReplayOp(ReplayIntention(kv, ops), op)
<1>0. PICK old, more : old = ReplayIntention(kv, ops) /\ more = ReplayIntention(kv, Append(ops, op))
  OBVIOUS
<1> SUFFICES more = ReplayOp(old, op)
  BY <1>0, Zenon
<1>1. more = [pk \in UserKeys |->
                IF op.op \in {"PUT", "DELETE"} /\ UpdatedKey(op) = pk THEN op.val ELSE old[pk]]
  <2>1. ReplayIntention(kv, Append(ops, op)) =
          [pk \in UserKeys |->
             IF op.op \in {"PUT", "DELETE"} /\ UpdatedKey(op) = pk THEN op.val
             ELSE ReplayIntention(kv, ops)[pk]]
    BY ReplayGrows, Zenon
  <2>2. QED  BY <1>0, <2>1, Zenon
<1>2. old = [pk \in UserKeys |-> old[pk]]
  BY <1>0 DEF ReplayIntention
<1>3. CASE op.op = "PUT"
  <2>1. ReplayOp(old, op) = [old EXCEPT ![op.key] = op.val] /\ UpdatedKey(op) = op.key
    BY <1>3 DEF ReplayOp, TreePut, UpdatedKey
  <2>2. QED  BY <1>1, <1>2, <1>3, <2>1
<1>4. CASE op.op = "DELETE"
  <2>1. op.val = NoValue
    BY <1>4 DEF Op
  <2>2. /\ ReplayOp(old, op) = [old EXCEPT ![UpdatedKey(op)] = op.val]
        /\ UpdatedKey(op) = prefix_string(PREFIX_USER, op.key)
    BY <1>4, <2>1 DEF ReplayOp, TreeDelete, UpdatedKey
  <2>3. QED  BY <1>1, <1>2, <1>4, <2>2
<1>5. CASE op.op \notin {"PUT", "DELETE"}
  <2>1. ReplayOp(old, op) = old
    BY <1>5 DEF ReplayOp
  <2>2. QED  BY <1>1, <1>2, <1>5, <2>1
<1>6. QED  BY <1>3, <1>4, <1>5

\* The loop of ReplayIntention leaves what the last update of each key left there.
LEMMA LoopReplays ==
    ASSUME NEW kv, kv = [pk \in UserKeys |-> kv[pk]], NEW ops \in Seq(Op)
    PROVE  ReplayLoop(kv, ops) = ReplayIntention(kv, ops)
<1> DEFINE N == Len(ops)
           F(g) == [n \in 0..N |-> IF n = 0 THEN kv ELSE ReplayOp(g[n - 1], ops[n])]
           h == [n \in 0..N |-> ReplayIntention(kv, SubSeq(ops, 1, n))]
<1>1. N \in Nat /\ \A n \in 1..N : ops[n] \in Op
  OBVIOUS
<1>2. \A n \in 0..N : SubSeq(ops, 1, n) \in Seq(Op)
  BY <1>1
<1>3. \A n \in 1..N : n - 1 \in 0..N /\ SubSeq(ops, 1, n) = Append(SubSeq(ops, 1, n - 1), ops[n])
  BY <1>1
<1>4. SubSeq(ops, 1, 0) = <<>> /\ SubSeq(ops, 1, N) = ops /\ N \in 0..N /\ 0 \in 0..N
  BY <1>1
<1> HIDE DEF N
<1>5. h[0] = kv
  <2>1. \A pk : UpdatesTo(<<>>, pk) = {}
    BY DEF UpdatesTo
  <2>2. ReplayIntention(kv, <<>>) = kv
    BY <2>1 DEF ReplayIntention
  <2>3. QED  BY <1>4, <2>2
<1>6. \A n \in 1..N : h[n] = ReplayOp(h[n - 1], ops[n])
  <2>1. TAKE n \in 1..N
  <2>2. n \in 0..N /\ n - 1 \in 0..N /\ ops[n] \in Op
    BY <1>1, <1>3
  <2>3. PICK s \in Seq(Op) : s = SubSeq(ops, 1, n - 1)
    BY <1>2, <2>2
  <2>4. ReplayIntention(kv, Append(s, ops[n])) = ReplayOp(ReplayIntention(kv, s), ops[n])
    BY <2>2, <2>3, ReplayOneMore
  <2>5. QED  BY <1>3, <2>2, <2>3, <2>4
<1>7. h = F(h)
  <2>1. \A n \in 0..N : n = 0 \/ n \in 1..N
    BY <1>1
  <2>2. h = [n \in 0..N |-> h[n]]
    OBVIOUS
  <2> HIDE DEF h
  <2>3. QED  BY <1>5, <1>6, <2>1, <2>2
<1> HIDE DEF h
<1>8. ASSUME NEW g, g = F(g)
      PROVE  g[N] = h[N]
  <2> DEFINE S == {n \in 0..N : g[n] # h[n]}
  <2>1. g[0] = kv /\ \A n \in 1..N : g[n] = ReplayOp(g[n - 1], ops[n])
    <3>1. \A n \in 0..N : g[n] = IF n = 0 THEN kv ELSE ReplayOp(g[n - 1], ops[n])
      BY <1>8
    <3>2. \A n \in 1..N : n \in 0..N /\ n # 0
      BY <1>1
    <3>3. QED  BY <1>4, <3>1, <3>2
  <2>2. ASSUME S # {} PROVE FALSE
    <3>1. S \in SUBSET Nat
      BY <1>1
    <3>2. PICK n : n = Min(S)
      OBVIOUS
    <3>3. n \in S /\ \A m \in S : n <= m
      BY <2>2, <3>1, <3>2, MinOfNats
    <3>4. n # 0
      BY <1>5, <2>1, <3>3
    <3>5. n \in 1..N /\ n - 1 \in 0..N /\ ~(n <= n - 1)
      BY <1>1, <3>3, <3>4
    <3>6. g[n - 1] = h[n - 1]
      BY <3>3, <3>5
    <3>7. QED  BY <1>6, <2>1, <3>3, <3>5, <3>6
  <2>3. QED  BY <1>4, <2>2
<1>9. h[N] = ReplayIntention(kv, ops)
  BY <1>4 DEF h
<1>10. ReplayLoop(kv, ops) = h[N]
  <2> DEFINE G == CHOOSE g : g = F(g)
  <2>1. G = F(G)
    BY <1>7
  <2>2. ReplayLoop(kv, ops) = G[N]
    BY DEF ReplayLoop, N
  <2> HIDE DEF G
  <2>3. QED  BY <1>8, <2>1, <2>2
<1>11. QED  BY <1>9, <1>10

\* Recording an operation and applying it to the private tree keep the two
\* together: a tree that holds the replayed operations holds them after a Get,
\* a Put and a Delete, of a key that is there or not.
LEMMA OperationsReplay ==
    ASSUME NEW base, NEW ops \in Seq(Op), NEW kv, kv = ReplayIntention(base, ops),
           NEW k \in Keys
    PROVE  /\ kv = ReplayIntention(base, Append(ops, GetOp(k)))
           /\ \A v \in Values :
                 TreePut(kv, prefix_string(PREFIX_USER, k), v) =
                   ReplayIntention(base,
                     Append(ops, PutOp(prefix_string(PREFIX_USER, k), v)))
           /\ TreeDelete(kv, PREFIX_USER, k) =
                ReplayIntention(base, Append(ops, DeleteOp(k)))
<1> DEFINE pkey == prefix_string(PREFIX_USER, k)
<1>1. pkey \in UserKeys
  BY DEF UserKeys
<1>2. /\ GetOp(k) \in Op /\ GetOp(k).op = "GET"
      /\ DeleteOp(k) \in Op /\ DeleteOp(k).op = "DELETE" /\ DeleteOp(k).val = NoValue
      /\ UpdatedKey(DeleteOp(k)) = pkey
      /\ \A v \in Values : /\ PutOp(pkey, v) \in Op /\ PutOp(pkey, v).op = "PUT"
                           /\ PutOp(pkey, v).val = v /\ UpdatedKey(PutOp(pkey, v)) = pkey
  BY <1>1 DEF GetOp, DeleteOp, PutOp, Op, UpdatedKey
<1> HIDE DEF pkey
<1>3. kv = [pk \in UserKeys |-> kv[pk]]
  BY DEF ReplayIntention
<1>4. kv = ReplayIntention(base, Append(ops, GetOp(k)))
  BY <1>2, <1>3, ReplayGrows
<1>5. ASSUME NEW v \in Values
      PROVE  TreePut(kv, pkey, v) = ReplayIntention(base, Append(ops, PutOp(pkey, v)))
  <2>1. TreePut(kv, pkey, v) = [pk \in UserKeys |-> IF pkey = pk THEN v ELSE kv[pk]]
    BY <1>1, <1>3 DEF TreePut
  <2>2. ReplayIntention(base, Append(ops, PutOp(pkey, v)))
          = [pk \in UserKeys |-> IF pkey = pk THEN v ELSE kv[pk]]
    BY <1>2, ReplayGrows
  <2>3. QED  BY <2>1, <2>2
<1>6. TreeDelete(kv, PREFIX_USER, k) = ReplayIntention(base, Append(ops, DeleteOp(k)))
  <2>1. TreeDelete(kv, PREFIX_USER, k) = [pk \in UserKeys |-> IF pkey = pk THEN NoValue ELSE kv[pk]]
    BY <1>1, <1>3 DEF TreeDelete, pkey
  <2>2. ReplayIntention(base, Append(ops, DeleteOp(k)))
          = [pk \in UserKeys |-> IF pkey = pk THEN NoValue ELSE kv[pk]]
    BY <1>2, ReplayGrows
  <2>3. QED  BY <2>1, <2>2
<1>7. QED  BY <1>4, <1>5, <1>6 DEF pkey

\* Replaying an intention is applying its operations one after the other, which is
\* what DBImpl::ReplayIntention does and what the model writes as the last update of
\* each key.
THEOREM ReplayInOrder == Spec => []ReplayIsSequential
<1>1. IInv => ReplayIsSequential
  <2> SUFFICES ASSUME IInv, NEW p \in IntentionPositions,
                      NEW kv \in [UserKeys -> Values \cup {NoValue}]
               PROVE  ReplayIntention(kv, log[p].ops) = ReplayLoop(kv, log[p].ops)
    BY DEF ReplayIsSequential
  <2>1. log[p] \in Entry /\ log[p].type = "intention"
    BY DEF IInv, TypeOK, IntentionPositions
  <2>2. log[p].ops \in Seq(Op)
    BY <2>1 DEF Entry
  <2>3. kv = [pk \in UserKeys |-> kv[pk]]
    OBVIOUS
  <2>4. QED  BY <2>2, <2>3, LoopReplays
<1>2. QED  BY <1>1, Invariance, PTL

-----------------------------------------------------------------------------
(* The trees match the log. *)

\* What is known of every published tree.
LEMMA PublishedGood ==
    ASSUME IInv, NEW x \in Published
    PROVE  x.pos \in Nat /\ x.tree \in Tree /\ GoodTree(log, x.pos, x.tree)
<1> USE DEF IInv
<1>1. CASE phase # "closed" /\ x = [pos |-> root_snapshot, tree |-> root]
  BY <1>1 DEF TypeOK, GoodRoot
<1>2. CASE tp.pc = "publish" /\ x = [pos |-> tp.pos, tree |-> tp.tree]
  <2>1. tp.pos \in DOMAIN log /\ tp.tree \in Tree
    BY <1>2 DEF TypeOK
  <2>2. tp.pos \in Nat
    BY <2>1 DEF TypeOK
  <2>3. QED  BY <1>2, <2>1, <2>2 DEF GoodNextRoot
<1>3. CASE \E i \in DOMAIN lcs_trees : x = lcs_trees[i]
  <2>1. PICK i \in DOMAIN lcs_trees : x = lcs_trees[i]
    BY <1>3
  <2>2. lcs_trees[i] \in [pos : Nat, tree : Tree]
    <3>1. lcs_trees \in Seq([pos : Nat, tree : Tree])
      BY DEF TypeOK
    <3>2. PICK S : S = [pos : Nat, tree : Tree]
      OBVIOUS
    <3>3. lcs_trees \in Seq(S) => lcs_trees[i] \in S
      OBVIOUS
    <3>4. QED  BY <3>1, <3>2, <3>3
  <2>3. QED  BY <2>1, <2>2 DEF GoodQueue
<1>4. CASE \E a \in DOMAIN log :
              /\ log[a].type = "afterimage"
              /\ x = [pos |-> log[a].intention, tree |-> log[a].tree]
  <2>1. PICK a \in DOMAIN log :
              /\ log[a].type = "afterimage"
              /\ x = [pos |-> log[a].intention, tree |-> log[a].tree]
    BY <1>4
  <2>2. log[a] \in Entry
    BY DEF TypeOK
  <2>3. log[a].intention \in Nat /\ log[a].tree \in Tree
    BY <2>1, <2>2 DEF Entry
  <2>4. QED  BY <2>1, <2>3 DEF GoodAfterImages
<1>5. QED  BY <1>1, <1>2, <1>3, <1>4 DEF Published

\* A step publishes at most one new tree: the one the processor decides on.
LEMMA PublishedStep ==
    ASSUME IInv, [Next]_vars, NEW x \in Published'
    PROVE  \/ x \in Published
           \/ TPCommit /\ x = [pos |-> Min(Pending), tree |-> NextRoot(Min(Pending))]
<1> USE DEF IInv
<1>0. /\ log \in Seq(Entry) /\ Len(log) \in Nat
      /\ lcs_trees \in Seq([pos : Nat, tree : Tree])
  BY DEF TypeOK
<1>1. CASE phase' # "closed" /\ x = [pos |-> root_snapshot', tree |-> root']
  <2>1. CASE Open
    <3>1. PICK a \in DOMAIN log :
             /\ log[a].type = "afterimage" /\ log[a].intention = RestorePoint
             /\ RestoreTree = log[a].tree
      BY RestoreFacts
    <3>2. x = [pos |-> log[a].intention, tree |-> log[a].tree]
      BY <1>1, <2>1, <3>1 DEF Open
    <3>3. QED  BY <3>1, <3>2 DEF Published
  <2>2. CASE TPPublish
    BY <1>1, <2>2 DEF TPPublish, Published
  <2>3. CASE Lost
    BY <1>1, <2>3 DEF Lost, LoseInstance
  <2>4. CASE UNCHANGED <<root, root_snapshot>> /\ ~Open /\ ~Lost
    <3>1. phase # "closed"
      BY <1>1, <2>4, Frame DEF OpenReturns
    <3>2. QED  BY <1>1, <2>4, <3>1 DEF Published
  <2>5. QED  BY <2>1, <2>2, <2>3, <2>4, Frame
<1>2. CASE tp'.pc = "publish" /\ x = [pos |-> tp'.pos, tree |-> tp'.tree]
  <2>1. CASE TPCommit
    BY <1>2, <2>1 DEF TPCommit
  <2>2. CASE TPPublish \/ Lost
    <3>1. tp' = IdleTP
      BY <2>2 DEF TPPublish, Lost, LoseInstance
    <3>2. QED  BY <1>2, <3>1 DEF IdleTP
  <2>3. CASE tp' = tp
    BY <1>2, <2>3 DEF Published
  <2>4. QED  BY <2>1, <2>2, <2>3, Frame
<1>3. CASE \E i \in DOMAIN lcs_trees' : x = lcs_trees'[i]
  <2>0. PICK i \in DOMAIN lcs_trees' : x = lcs_trees'[i]
    BY <1>3
  <2>1. CASE lcs_trees' = lcs_trees
    BY <2>0, <2>1 DEF Published
  <2>2. CASE TPPublish
    <3>1. /\ lcs_trees' = Append(lcs_trees, [pos |-> tp.pos, tree |-> tp.tree])
          /\ tp.pc = "publish"
      BY <2>2 DEF TPPublish
    <3>2. [pos |-> tp.pos, tree |-> tp.tree] \in [pos : Nat, tree : Tree]
      BY <1>0, <3>1 DEF TypeOK
    <3>3. \/ i \in DOMAIN lcs_trees /\ x = lcs_trees[i]
          \/ x = [pos |-> tp.pos, tree |-> tp.tree]
      BY <1>0, <2>0, <3>1, <3>2, AppendFacts
    <3>4. QED  BY <3>1, <3>3 DEF Published
  <2>3. CASE WriteAfterImage
    <3>1. lcs_trees' = Tail(lcs_trees) /\ lcs_trees # <<>>
      BY <2>3 DEF WriteAfterImage
    <3>2. i + 1 \in DOMAIN lcs_trees /\ lcs_trees'[i] = lcs_trees[i + 1]
      BY <1>0, <2>0, <3>1, TailFacts
    <3>3. QED  BY <2>0, <3>2 DEF Published
  <2>4. CASE Lost
    <3>1. lcs_trees' = <<>>
      BY <2>4 DEF Lost, LoseInstance
    <3>2. DOMAIN lcs_trees' = {}
      BY <3>1
    <3>3. QED  BY <2>0, <3>2
  <2>5. QED  BY <2>1, <2>2, <2>3, <2>4, Frame
<1>4. CASE \E a \in DOMAIN log' :
              /\ log'[a].type = "afterimage"
              /\ x = [pos |-> log'[a].intention, tree |-> log'[a].tree]
  <2>0. PICK a \in DOMAIN log' :
              /\ log'[a].type = "afterimage"
              /\ x = [pos |-> log'[a].intention, tree |-> log'[a].tree]
    BY <1>4
  <2>1. CASE a \in DOMAIN log
    <3>1. log'[a] = log[a]
      BY <2>1, LogGrows
    <3>2. QED  BY <2>0, <2>1, <3>1 DEF Published
  <2>2. CASE a \notin DOMAIN log
    <3>1. WriteAfterImage /\ a = Len(log) + 1
      BY <2>0, <2>2, LogGrows
    <3>2. /\ lcs_trees # <<>>
          /\ log' = Append(log, AfterImageEntry(Head(lcs_trees).pos, Head(lcs_trees).tree))
      BY <3>1 DEF WriteAfterImage
    <3>3. /\ Head(lcs_trees) = lcs_trees[1] /\ 1 \in DOMAIN lcs_trees
          /\ Head(lcs_trees) \in [pos : Nat, tree : Tree]
      BY <1>0, <3>2, TailFacts
    <3>4. AfterImageEntry(Head(lcs_trees).pos, Head(lcs_trees).tree) \in Entry
      BY <3>3, EntryTypes
    <3>5. log'[a] = AfterImageEntry(Head(lcs_trees).pos, Head(lcs_trees).tree)
      BY <1>0, <3>1, <3>2, <3>4, AppendFacts
    <3>6. x = [pos |-> Head(lcs_trees).pos, tree |-> Head(lcs_trees).tree]
      BY <2>0, <3>5 DEF AfterImageEntry
    <3>7. x = lcs_trees[1]
      BY <3>3, <3>6
    <3>8. QED  BY <3>3, <3>7 DEF Published
  <2>3. QED  BY <2>1, <2>2
<1>5. QED  BY <1>1, <1>2, <1>3, <1>4 DEF Published

\* The contents of a set of intentions of the log stay what they are.
LEMMA ContentStep ==
    ASSUME IInv, [Next]_vars, NEW C, \A p \in C : p \in DOMAIN log
    PROVE  Content(log', C) = Content(log, C)
<1>1. log \in Seq(Entry) /\ Len(log) \in Nat /\ DOMAIN log = 1..Len(log)
  BY DEF IInv, TypeOK
<1>2. C \in SUBSET (0..Len(log))
  BY <1>1
<1>3. \A p \in DOMAIN log : p \in DOMAIN log' /\ log'[p] = log[p]
  BY LogGrows
<1>4. QED  BY <1>1, <1>2, <1>3, ContentExtends

\* The tree that the processor decides on holds the root's intentions and the
\* new one, whether it is the client's tree or the intention was replayed.
LEMMA NextRootHolds ==
    ASSUME IInv, TreeInv, TPCommit
    PROVE  Holds(log, NextRoot(Min(Pending)))
<1> USE DEF IInv
<1> DEFINE p == Min(Pending)
<1>1. /\ p \in Nat /\ p \in DOMAIN log /\ log[p].ops \in Seq(Op) /\ iter <= p
  BY PendingFacts DEF TPCommit
<1>2. /\ phase # "closed" /\ root_snapshot \in Nat /\ root_snapshot < p
      /\ NextRoot(p).catalog = root.catalog \cup {p}
  BY CommitFacts
<1> HIDE DEF p
<1>3. /\ log \in Seq(Entry) /\ Len(log) \in Nat /\ DOMAIN log = 1..Len(log)
      /\ root \in Tree /\ GoodTree(log, root_snapshot, root)
  BY <1>2 DEF TypeOK, GoodRoot
<1>4. /\ root.catalog \in SUBSET (0..Len(log))
      /\ \A c \in root.catalog : c < p
  BY <1>1, <1>2, <1>3 DEF GoodTree
<1>5. Content(log, root.catalog \cup {p}) = ReplayIntention(Content(log, root.catalog), log[p].ops)
  BY <1>1, <1>3, <1>4, ContentCommits
<1>6. root.kv = Content(log, root.catalog)
  <2>1. [pos |-> root_snapshot, tree |-> root] \in Published
    BY <1>2 DEF Published
  <2>2. QED  BY <2>1 DEF TreeInv, PublishedTrees, Holds
<1>7. \A tree \in Tree : PutCatalog(tree, p).kv = tree.kv
  BY DEF PutCatalog, Tree
<1>8. CASE Serial(p) /\ Find(p) # NullTree
  <2>1. p \in DOMAIN finished /\ Find(p) = finished[p] /\ finished[p] # NullTree
    BY <1>8 DEF Find
  <2>2. ~log[p].flush /\ BuiltOn(finished[p], log[p].snapshot)
    BY <2>1 DEF GoodFinished
  <2>3. finished[p].catalog = {c \in root.catalog : c <= root_snapshot}
    BY <1>8, <2>2 DEF BuiltOn, Serial
  <2>4. finished[p].catalog = root.catalog
    BY <1>3, <2>3 DEF GoodTree
  <2>5. finished[p].kv = ReplayIntention(Content(log, root.catalog), log[p].ops)
    BY <2>1, <2>4 DEF TreeInv, LeftTrees, BuiltWith
  <2>6. finished[p] \in Tree
    BY <2>1 DEF TypeOK
  <2>7. NextRoot(p).kv = finished[p].kv
    BY <1>7, <1>8, <2>1, <2>6 DEF NextRoot
  <2>8. QED  BY <1>2, <1>5, <2>5, <2>7 DEF Holds, p
<1>9. CASE ~(Serial(p) /\ Find(p) # NullTree)
  <2>1. Replayed(p).kv = ReplayIntention(root.kv, log[p].ops)
    BY <1>3 DEF Replayed, Tree
  <2>2. Replayed(p) \in Tree
    BY <1>1, <1>3, ReplayType DEF Replayed, Tree
  <2>3. NextRoot(p).kv = Replayed(p).kv
    BY <1>7, <1>9, <2>2 DEF NextRoot
  <2>4. QED  BY <1>2, <1>5, <1>6, <2>1, <2>3 DEF Holds, p
<1>10. QED  BY <1>8, <1>9

\* The published trees after every step.
LEMMA PublishedTreesStep ==
    ASSUME IInv, TreeInv, [Next]_vars
    PROVE  PublishedTrees'
<1>1. ASSUME NEW x \in Published'
      PROVE  Holds(log', x.tree)
  <2>1. CASE x \in Published
    <3>1. Holds(log, x.tree)
      BY <2>1 DEF TreeInv, PublishedTrees
    <3>2. \A c \in x.tree.catalog : c \in DOMAIN log
      BY <2>1, PublishedGood DEF GoodTree
    <3>3. QED  BY <3>1, <3>2, ContentStep DEF Holds
  <2>2. CASE TPCommit /\ x = [pos |-> Min(Pending), tree |-> NextRoot(Min(Pending))]
    <3>1. log' = log
      BY <2>2 DEF TPCommit
    <3>2. QED  BY <2>2, <3>1, NextRootHolds
  <2>3. QED  BY <2>1, <2>2, PublishedStep
<1>2. QED  BY <1>1 DEF PublishedTrees

\* What is said of a transaction's tree stays true when only its decision
\* changes, or nothing of it.
LEMMA PrivateKept ==
    ASSUME IInv, [Next]_vars, NEW u \in Txns, PrivateTree(u),
           /\ txn'[u].st = txn[u].st
           /\ txn'[u].tree = txn[u].tree
           /\ txn'[u].ops = txn[u].ops
           /\ txn'[u].pos = txn[u].pos
    PROVE  PrivateTree(u)'
<1> USE DEF IInv
<1>1. ASSUME txn[u].st \in {"active", "append"}
      PROVE  Content(log', txn[u].tree.catalog) = Content(log, txn[u].tree.catalog)
  <2>1. phase # "closed" /\ BuiltOn(txn[u].tree, txn[u].snapshot)
    BY <1>1 DEF GoodTxns, GoodTxn
  <2>2. \A p \in txn[u].tree.catalog : p \in DOMAIN log
    BY <2>1 DEF BuiltOn, GoodRoot, GoodTree
  <2>3. QED  BY <2>2, ContentStep
<1>2. ASSUME txn[u].st = "append"
      PROVE  log'[txn[u].pos] = log[txn[u].pos]
  <2>1. txn[u].pos \in DOMAIN log
    BY <1>2 DEF GoodTxns, GoodTxn, IntentionPositions
  <2>2. QED  BY <2>1, LogGrows
<1>3. QED  BY <1>1, <1>2 DEF PrivateTree, BuiltWith

\* The private tree of a transaction after a step of its own client.
LEMMA PrivateClient ==
    ASSUME IInv, TreeInv, [Next]_vars, NEW t \in Txns, Client(t)
    PROVE  PrivateTree(t)' /\ \A u \in Txns \ {t} : txn'[u] = txn[u]
<1> USE DEF IInv
<1>1. /\ txn \in [Txns -> TxnState] /\ txn[t] \in TxnState /\ txn[t].ops \in Seq(Op)
      /\ log \in Seq(Entry) /\ Len(log) \in Nat /\ PrivateTree(t)
  BY DEF TypeOK, TxnState, TreeInv
<1>2. CASE BeginTransaction(t)
  <2>1. /\ txn[t].st = "idle" /\ log' = log /\ phase = "open"
        /\ txn'[t] = [txn[t] EXCEPT !.st = "active", !.snapshot = root_snapshot, !.tree = root]
        /\ \A u \in Txns \ {t} : txn'[u] = txn[u]
    BY <1>1, <1>2 DEF BeginTransaction
  <2>2. txn'[t].st = "active" /\ txn'[t].ops = <<>> /\ txn'[t].tree = root
    BY <1>1, <2>1 DEF TxnState, PrivateTree
  <2>3. root.kv = Content(log, root.catalog)
    <3>1. [pos |-> root_snapshot, tree |-> root] \in Published
      BY <2>1 DEF Published
    <3>2. QED  BY <3>1 DEF TreeInv, PublishedTrees, Holds
  <2>4. QED  BY <2>1, <2>2, <2>3, ReplayNothing DEF PrivateTree, BuiltWith
<1>3. ASSUME NEW op, NEW kv, NEW ro, Operate(t, op, kv, ro),
             txn[t].tree.kv = ReplayIntention(Content(log, txn[t].tree.catalog), txn[t].ops) =>
               kv = ReplayIntention(Content(log, txn[t].tree.catalog), Append(txn[t].ops, op))
      PROVE  PrivateTree(t)' /\ \A u \in Txns \ {t} : txn'[u] = txn[u]
  <2>1. /\ txn[t].st = "active" /\ log' = log
        /\ txn' = [txn EXCEPT ![t].ops = Append(@, op), ![t].tree.kv = kv, ![t].readonly = ro]
    BY <1>3 DEF Operate
  <2>2. txn[t].tree \in Tree
    BY <2>1 DEF TypeOK
  <2>3. txn'[t].st = "active" /\ txn'[t].ops = Append(txn[t].ops, op)
    BY <1>1, <2>1 DEF TxnState
  <2>4. txn'[t].tree.kv = kv /\ txn'[t].tree.catalog = txn[t].tree.catalog
    BY <1>1, <2>1, <2>2 DEF TxnState, Tree
  <2>5. PrivateTree(t)'
    BY <1>1, <1>3, <2>1, <2>3, <2>4 DEF PrivateTree, BuiltWith
  <2>6. QED  BY <1>1, <2>1, <2>5
<1>4. CASE \E k \in Keys : TxnGet(t, k) \/ TxnDelete(t, k)
  <2>1. PICK k \in Keys : TxnGet(t, k) \/ TxnDelete(t, k)
    BY <1>4
  <2> DEFINE base == Content(log, txn[t].tree.catalog)
             kv == txn[t].tree.kv
  <2>2. kv = ReplayIntention(base, txn[t].ops) =>
          /\ kv = ReplayIntention(base, Append(txn[t].ops, GetOp(k)))
          /\ TreeDelete(kv, PREFIX_USER, k) = ReplayIntention(base, Append(txn[t].ops, DeleteOp(k)))
    BY <1>1, OperationsReplay
  <2>3. QED  BY <1>3, <2>1, <2>2 DEF TxnGet, TxnDelete
<1>5. CASE \E k \in Keys, v \in Values : TxnPut(t, k, v)
  <2>1. PICK k \in Keys, v \in Values : TxnPut(t, k, v)
    BY <1>5
  <2> DEFINE base == Content(log, txn[t].tree.catalog)
             kv == txn[t].tree.kv
             pkey == prefix_string(PREFIX_USER, k)
  <2>2. kv = ReplayIntention(base, txn[t].ops) =>
          TreePut(kv, pkey, v) = ReplayIntention(base, Append(txn[t].ops, PutOp(pkey, v)))
    BY <1>1, OperationsReplay
  <2>3. Operate(t, PutOp(pkey, v), TreePut(kv, pkey, v), FALSE)
    BY <2>1 DEF TxnPut
  <2>4. QED  BY <1>3, <2>2, <2>3
<1>6. CASE CommitReadOnly(t)
  <2>1. txn'[t].st = "readonly" /\ \A u \in Txns \ {t} : txn'[u] = txn[u]
    BY <1>1, <1>6 DEF CommitReadOnly, IdleTxn
  <2>2. QED  BY <2>1 DEF PrivateTree
<1>7. CASE CommitAppend(t)
  <2> DEFINE e == IntentionEntry(txn[t].snapshot, t, txn[t].ops)
             n == Len(log) + 1
  <2>1. /\ txn[t].st = "active" /\ log' = Append(log, e)
        /\ txn' = [txn EXCEPT ![t].st = "append", ![t].ops = <<>>, ![t].pos = n]
    BY <1>7 DEF CommitAppend
  <2>2. txn'[t].st = "append" /\ txn'[t].pos = n /\ txn'[t].tree = txn[t].tree
    BY <1>1, <2>1 DEF TxnState
  <2>3. e.ops = txn[t].ops /\ e \in Entry
    BY <1>1, EntryTypes DEF IntentionEntry, TxnState
  <2> HIDE DEF e
  <2>4. log'[n] = e
    BY <1>1, <2>1, <2>3, AppendFacts
  <2>5. phase # "closed" /\ BuiltOn(txn[t].tree, txn[t].snapshot)
    BY <2>1 DEF GoodTxns, GoodTxn
  <2>6. \A p \in txn[t].tree.catalog : p \in DOMAIN log
    BY <2>5 DEF BuiltOn, GoodRoot, GoodTree
  <2>7. Content(log', txn[t].tree.catalog) = Content(log, txn[t].tree.catalog)
    BY <2>6, ContentStep
  <2>8. txn[t].tree.kv = ReplayIntention(Content(log, txn[t].tree.catalog), txn[t].ops)
    BY <1>1, <2>1 DEF PrivateTree, BuiltWith
  <2>9. PrivateTree(t)'
    BY <2>2, <2>3, <2>4, <2>7, <2>8 DEF PrivateTree, BuiltWith
  <2>10. QED  BY <1>1, <2>1, <2>9
<1>8. CASE CommitInsert(t)
  <2>1. txn'[t].st = "wait" /\ \A u \in Txns \ {t} : txn'[u] = txn[u]
    BY <1>1, <1>8 DEF CommitInsert, TxnState
  <2>2. QED  BY <2>1 DEF PrivateTree
<1>9. CASE CommitReturns(t)
  <2>1. txn'[t].st \in {"committed", "aborted"} /\ \A u \in Txns \ {t} : txn'[u] = txn[u]
    BY <1>1, <1>9 DEF CommitReturns, IdleTxn
  <2>2. QED  BY <2>1 DEF PrivateTree
<1>10. QED  BY <1>2, <1>4, <1>5, <1>6, <1>7, <1>8, <1>9 DEF Client

\* The private trees after every step.
LEMMA PrivateStep ==
    ASSUME IInv, TreeInv, [Next]_vars
    PROVE  \A t \in Txns : PrivateTree(t)'
<1> USE DEF IInv
<1>1. TAKE u \in Txns
<1>2. txn \in [Txns -> TxnState] /\ PrivateTree(u)
  BY DEF TypeOK, TreeInv
<1>3. ASSUME txn'[u] = txn[u]
      PROVE  PrivateTree(u)'
  BY <1>2, <1>3, PrivateKept
<1>4. CASE Lost
  <2>1. CASE txn[u].st \in {"active", "append", "wait"}
    <3>1. txn'[u].st = "lost"
      BY <1>4, <2>1 DEF Lost, LoseInstance, IdleTxn
    <3>2. QED  BY <3>1 DEF PrivateTree
  <2>2. CASE txn[u].st \notin {"active", "append", "wait"}
    BY <1>3, <1>4, <2>2 DEF Lost, LoseInstance
  <2>3. QED  BY <2>1, <2>2
<1>5. CASE TPPublish \/ TPAbort
  <2>1. \E token, d : txn' = NotifyTransaction(token, d)
    BY <1>5 DEF TPPublish, TPAbort
  <2>2. /\ txn'[u].st = txn[u].st /\ txn'[u].tree = txn[u].tree
        /\ txn'[u].ops = txn[u].ops /\ txn'[u].pos = txn[u].pos
    BY <2>1, NotifyFacts
  <2>3. QED  BY <1>2, <2>2, PrivateKept
<1>6. ASSUME NEW t \in Txns, Client(t)
      PROVE  PrivateTree(u)'
  <2>1. PrivateTree(t)' /\ \A v \in Txns \ {t} : txn'[v] = txn[v]
    BY <1>6, PrivateClient
  <2>2. QED  BY <1>3, <2>1
<1>7. QED  BY <1>3, <1>4, <1>5, <1>6, Frame

\* The trees left for the processor after every step.
LEMMA LeftStep ==
    ASSUME IInv, TreeInv, [Next]_vars
    PROVE  LeftTrees'
<1> USE DEF IInv
<1>1. ASSUME NEW p \in IntentionPositions, NEW tree, phase # "closed",
             BuiltOn(tree, log[p].snapshot), BuiltWith(log, tree, log[p].ops)
      PROVE  BuiltWith(log', tree, log'[p].ops)
  <2>1. \A c \in tree.catalog : c \in DOMAIN log
    BY <1>1 DEF BuiltOn, GoodRoot, GoodTree
  <2>2. Content(log', tree.catalog) = Content(log, tree.catalog)
    BY <2>1, ContentStep
  <2>3. log'[p] = log[p]
    BY LogGrows DEF IntentionPositions
  <2>4. QED  BY <1>1, <2>2, <2>3 DEF BuiltWith
<1>2. ASSUME NEW p \in DOMAIN finished, finished[p] # NullTree
      PROVE  BuiltWith(log', finished[p], log'[p].ops)
  BY <1>1, <1>2 DEF GoodFinished, TreeInv, LeftTrees
<1>3. CASE Lost
  <2>1. DOMAIN finished' = {}
    BY <1>3 DEF Lost, LoseInstance, NoFinished
  <2>2. QED  BY <2>1 DEF LeftTrees
<1>4. CASE finished' = finished \/ TPCommit \/ Janitor
  <2>1. ASSUME NEW p \in DOMAIN finished', finished'[p] # NullTree
        PROVE  p \in DOMAIN finished /\ finished'[p] = finished[p]
    <3>1. CASE TPCommit
      <4>1. \/ finished' = finished
            \/ \E q \in DOMAIN finished : finished' = [finished EXCEPT ![q] = NullTree]
        BY <3>1 DEF TPCommit
      <4>2. QED  BY <2>1, <4>1
    <3>2. CASE Janitor
      BY <2>1, <3>2 DEF Janitor, Clean
    <3>3. QED  BY <1>4, <2>1, <3>1, <3>2
  <2>2. QED  BY <1>2, <2>1 DEF LeftTrees
<1>5. ASSUME NEW t \in Txns, CommitInsert(t)
      PROVE  LeftTrees'
  <2>1. /\ finished' = [p \in DOMAIN finished \cup {txn[t].pos} |->
                           IF p = txn[t].pos THEN txn[t].tree ELSE finished[p]]
        /\ txn[t].st = "append"
    BY <1>5 DEF CommitInsert
  <2>2. GoodTxn(t) /\ PrivateTree(t)
    BY DEF GoodTxns, TreeInv
  <2>3. ASSUME NEW p \in DOMAIN finished', finished'[p] # NullTree
        PROVE  BuiltWith(log', finished'[p], log'[p].ops)
    <3>1. CASE p = txn[t].pos
      <4>1. finished'[p] = txn[t].tree
        BY <2>1, <3>1
      <4>2. /\ p \in IntentionPositions /\ phase # "closed"
            /\ BuiltOn(txn[t].tree, log[p].snapshot)
            /\ BuiltWith(log, txn[t].tree, log[p].ops)
        BY <2>1, <2>2, <3>1 DEF GoodTxn, PrivateTree
      <4>3. QED  BY <1>1, <4>1, <4>2
    <3>2. CASE p # txn[t].pos
      <4>1. p \in DOMAIN finished /\ finished'[p] = finished[p]
        BY <2>1, <2>3, <3>2
      <4>2. QED  BY <1>2, <2>3, <4>1
    <3>3. QED  BY <3>1, <3>2
  <2>4. QED  BY <2>3 DEF LeftTrees
<1>6. QED  BY <1>3, <1>4, <1>5, Frame

\* The created database holds nothing under a user key.
LEMMA InitTrees == Init => TreeInv
<1> SUFFICES ASSUME Init PROVE TreeInv
  OBVIOUS
<1> DEFINE c == IntentionEntry(0, NoToken, CreationOps)
           a == AfterImageEntry(1, [kv |-> NoKeys, catalog |-> {1}])
<1>1. /\ c.type = "intention" /\ c.ops = CreationOps
      /\ a.type = "afterimage" /\ a.tree = [kv |-> NoKeys, catalog |-> {1}]
  BY DEF IntentionEntry, AfterImageEntry
<1>2. log = <<c, a>>
  BY DEF Init, CreatedLog
<1> HIDE DEF c, a
<1>3. DOMAIN log = 1..2 /\ log[1] = c /\ log[2] = a
  BY <1>2
<1>4. \A pk \in UserKeys : UpdatesTo(CreationOps, pk) = {}
  <2>1. TAKE pk \in UserKeys
  <2>2. PICK k \in Keys : pk = <<"U", k>>
    BY DEF UserKeys, prefix_string, PREFIX_USER
  <2>3. /\ DOMAIN CreationOps = {1} /\ CreationOps[1].op = "PUT"
        /\ CreationOps[1].key = <<"C", 1>>
    <3>1. PICK o : o = PutOp(prefix_string(PREFIX_COMMITTED_INTENTION, 1), "")
      OBVIOUS
    <3>2. CreationOps = <<o>>
      BY <3>1 DEF CreationOps
    <3>3. DOMAIN CreationOps = {1} /\ CreationOps[1] = o
      BY <3>2
    <3>4. o.op = "PUT" /\ o.key = <<"C", 1>>
      BY <3>1 DEF PutOp, prefix_string, PREFIX_COMMITTED_INTENTION
    <3>5. QED  BY <3>3, <3>4
  <2>4. UpdatedKey(CreationOps[1]) # pk
    BY <2>2, <2>3 DEF UpdatedKey
  <2>5. QED  BY <2>3, <2>4 DEF UpdatesTo
<1>5. Content(log, {1}) = NoKeys
  BY <1>1, <1>3, <1>4 DEF Content, Writers, NoKeys
<1>6. Holds(log, a.tree)
  BY <1>1, <1>5 DEF Holds
<1>7. /\ phase = "closed" /\ tp.pc = "next" /\ DOMAIN lcs_trees = {} /\ DOMAIN finished = {}
  BY DEF Init, IdleTP, NoFinished
<1>8. PublishedTrees
  <2>1. ASSUME NEW x \in Published
        PROVE  x.tree = a.tree
    BY <1>1, <1>3, <1>7 DEF Published
  <2>2. QED  BY <1>6, <2>1 DEF PublishedTrees
<1>9. \A t \in Txns : PrivateTree(t)
  BY DEF Init, IdleTxn, PrivateTree
<1>10. QED  BY <1>7, <1>8, <1>9 DEF TreeInv, LeftTrees

\* The trees are what the log says in every reachable state.
THEOREM TreeInvariance == Spec => [](IInv /\ TreeInv)
<1>1. ASSUME IInv, TreeInv, [Next]_vars
      PROVE  TreeInv'
  BY <1>1, PublishedTreesStep, PrivateStep, LeftStep DEF TreeInv
<1>2. QED  BY <1>1, InitTrees, Invariance, PTL DEF Spec

\* The root and every after-image are the result of applying their committed
\* intentions in log order, for any number of transactions, keys, crashes and
\* calls of gc(): also when a serial intention was not replayed because its
\* client's tree was found in finished_txns_, and when the database was restored
\* from an after-image that an earlier instance wrote.
THEOREM TreesFollowLog == Spec => []TreesMatchLog
<1>1. ASSUME IInv, TreeInv PROVE TreesMatchLog
  <2>1. ASSUME NEW x \in Published
        PROVE  MatchesLog(x.tree)
    <3>1. x.tree.kv = Content(log, x.tree.catalog)
      BY <1>1 DEF TreeInv, PublishedTrees, Holds
    <3>2. QED  BY <3>1 DEF MatchesLog
  <2>2. phase # "closed" => MatchesLog(root)
    <3>1. phase # "closed" => [pos |-> root_snapshot, tree |-> root] \in Published
      BY DEF Published
    <3>2. QED  BY <2>1, <3>1
  <2>3. ASSUME NEW a \in DOMAIN log, log[a].type = "afterimage"
        PROVE  MatchesLog(log[a].tree)
    <3>1. [pos |-> log[a].intention, tree |-> log[a].tree] \in Published
      BY <2>3 DEF Published
    <3>2. QED  BY <2>1, <3>1
  <2>4. QED  BY <2>2, <2>3 DEF TreesMatchLog
<1>2. QED  BY <1>1, TreeInvariance, PTL

-----------------------------------------------------------------------------
(* What the processor has decided, and what is restored. *)

(* The set C has decided every intention of the log l up to u as the conflict *)
(* check does when no intention meets the keys of its own snapshot: exactly   *)
(* those are in it that meet no update in their conflict zone.                *)
Faithful(l, C, u) ==
    /\ \A c \in C : c \in DOMAIN l /\ l[c].type = "intention"
    /\ \A p \in DOMAIN l :
          (l[p].type = "intention" /\ p <= u) =>
              (p \in C <=> \A q \in C : ZoneFree(l, p, q))

(* Replaying the log commits the intention, or aborts it. *)
Commits(l, p) == \E C \in SUBSET DOMAIN l : Faithful(l, C, p) /\ p \in C
Aborts(l, p)  == \E C \in SUBSET DOMAIN l : Faithful(l, C, p) /\ p \notin C

(* An intention is found under its token and nowhere else. *)
Tokens ==
    \A p \in IntentionPositions :
        log[p].token \in Txns =>
            /\ txn[log[p].token].pos = p
            /\ txn[log[p].token].st \notin {"idle", "active"}

(* What the processor has passed. *)
Frontier ==
    phase # "closed" =>
        /\ iter - 1 \in DOMAIN log
        /\ last_processed < iter
        /\ tp.pc = "publish" => last_processed < tp.pos
        /\ phase = "open" => latest <= last_processed

ClientView(t) ==
    /\ txn[t].st \in {"append", "wait", "committed", "aborted"} =>
          txn[t].pos \in IntentionPositions
    /\ txn[t].decision # "none" => txn[t].st \in {"append", "wait"} /\ phase # "closed"
    /\ txn[t].st = "active" => txn[t].snapshot \in root.catalog
    /\ (txn[t].decision = "commit" \/ txn[t].st = "committed") =>
          (phase # "closed" => txn[t].pos <= latest \/ txn[t].pos <= last_processed)

ClientViews == \A t \in Txns : ClientView(t)

(* The queue of the after-image writer goes on where the restore point is. *)
Restorable ==
    phase # "closed" =>
        /\ BuiltOn(RestoreTree, RestorePoint)
        /\ \A i \in DOMAIN lcs_trees :
              /\ RestorePoint < lcs_trees[i].pos
              /\ BuiltOn(lcs_trees[i].tree, lcs_trees[i].pos)
              /\ \A j \in DOMAIN lcs_trees : i < j => lcs_trees[i].pos < lcs_trees[j].pos

(* The snapshot of a client's intention is in the log. *)
Snapshots ==
    \A p \in IntentionPositions : (p # 1 /\ ~log[p].flush) => log[p].snapshot \in DOMAIN log

ViewInv == Tokens /\ Snapshots /\ Frontier /\ ClientViews /\ AbortsAreJustified

(* All that was ever decided follows from the log. *)
DecidedTrees ==
    /\ \A x \in Published : Faithful(log, x.tree.catalog, x.pos)
    /\ phase # "closed" => Faithful(log, Catalog, iter - 1)

DecidedSnapshots ==
    \A p \in IntentionPositions : (p # 1 /\ ~log[p].flush) => Commits(log, log[p].snapshot)

DecidedTxns ==
    \A t \in Txns :
        /\ (txn[t].decision = "commit" \/ txn[t].st = "committed") => Commits(log, txn[t].pos)
        /\ (txn[t].decision = "abort" \/ txn[t].st = "aborted") => Aborts(log, txn[t].pos)

Determined == NoSelfConflict => DecidedTrees /\ DecidedSnapshots /\ DecidedTxns

\* The restore point is the latest intention with an after-image, and an
\* after-image of it that is the only one is what is restored.
LEMMA RestoreIs ==
    ASSUME TypeOK, LogStarts
    PROVE  /\ \A p \in IntentionPositions : AfterImagePositions(p) # {} => p <= RestorePoint
           /\ AfterImagePositions(RestorePoint) # {}
           /\ \A a : AfterImagePositions(RestorePoint) = {a} => RestoreTree = log[a].tree
<1> DEFINE S == {p \in IntentionPositions : AfterImagePositions(p) # {}}
<1>1. log \in Seq(Entry) /\ Len(log) \in Nat /\ DOMAIN log = 1..Len(log)
  BY DEF TypeOK
<1>2. 1 \in IntentionPositions /\ 2 \in AfterImagePositions(1)
  BY <1>1 DEF LogStarts, IntentionPositions, AfterImagePositions
<1>3. S \in SUBSET (0..Len(log)) /\ S # {}
  BY <1>1, <1>2 DEF IntentionPositions
<1>4. RestorePoint \in S /\ \A y \in S : y <= RestorePoint
  BY <1>1, <1>3, MaxOfBounded DEF RestorePoint
<1>5. ASSUME NEW a, AfterImagePositions(RestorePoint) = {a}
      PROVE  RestoreTree = log[a].tree
  <2>1. {a} \in SUBSET Nat
    BY <1>1, <1>5 DEF AfterImagePositions
  <2>2. Min({a}) = a
    BY <2>1, MinOfNats
  <2>3. QED  BY <1>5, <2>2 DEF RestoreTree
<1>6. QED  BY <1>4, <1>5

\* An after-image belongs to an intention of the log.
LEMMA AfterImageOf ==
    ASSUME IInv, NEW p, AfterImagePositions(p) # {}
    PROVE  p \in IntentionPositions
<1>1. PICK a \in DOMAIN log : log[a].type = "afterimage" /\ log[a].intention = p
  BY DEF AfterImagePositions
<1>2. GoodTree(log, p, log[a].tree)
  BY <1>1 DEF IInv, GoodAfterImages
<1>3. QED  BY <1>2 DEF GoodTree, IntentionPositions

\* Appending anything but an after-image does not change what is restored.
LEMMA RestoreKept ==
    ASSUME IInv, [Next]_vars, ~WriteAfterImage
    PROVE  RestorePoint' = RestorePoint /\ RestoreTree' = RestoreTree
<1> USE DEF IInv
<1>0. TypeOK /\ LogStarts /\ log \in Seq(Entry) /\ Len(log) \in Nat /\ DOMAIN log = 1..Len(log)
  BY DEF TypeOK
<1>1. \A p \in DOMAIN log : p \in DOMAIN log' /\ log'[p] = log[p]
  BY LogGrows
<1>2. \A a \in DOMAIN log' : log'[a].type = "afterimage" => a \in DOMAIN log
  BY LogGrows
<1>3. ASSUME NEW p PROVE AfterImagePositions(p)' = AfterImagePositions(p)
  BY <1>1, <1>2 DEF AfterImagePositions
<1>4. ASSUME NEW p \in IntentionPositions', AfterImagePositions(p)' # {}
      PROVE  p \in IntentionPositions /\ AfterImagePositions(p) # {}
  BY <1>3, <1>4, AfterImageOf
<1>5. ASSUME NEW p \in IntentionPositions, AfterImagePositions(p) # {}
      PROVE  p \in IntentionPositions' /\ AfterImagePositions(p)' # {}
  BY <1>1, <1>3, <1>5 DEF IntentionPositions
<1>6. {p \in IntentionPositions' : AfterImagePositions(p)' # {}}
        = {p \in IntentionPositions : AfterImagePositions(p) # {}}
  BY <1>4, <1>5
<1>7. RestorePoint' = RestorePoint
  BY <1>6 DEF RestorePoint
<1>8. AfterImagePositions(RestorePoint)' = AfterImagePositions(RestorePoint)
  BY <1>1, <1>2, <1>7 DEF AfterImagePositions
<1>9. Min(AfterImagePositions(RestorePoint)) \in DOMAIN log
  <2>1. AfterImagePositions(RestorePoint) \in SUBSET Nat
    BY <1>0 DEF AfterImagePositions
  <2>2. Min(AfterImagePositions(RestorePoint)) \in AfterImagePositions(RestorePoint)
    BY <1>0, <2>1, MinOfNats, RestoreIs
  <2>3. QED  BY <2>2 DEF AfterImagePositions
<1>10. QED  BY <1>1, <1>7, <1>8, <1>9 DEF RestoreTree

\* Writing an after-image of a later intention makes it the restore point.
LEMMA RestoreWritten ==
    ASSUME IInv, [Next]_vars, WriteAfterImage, RestorePoint < lcs_trees[1].pos
    PROVE  RestorePoint' = lcs_trees[1].pos /\ RestoreTree' = lcs_trees[1].tree
<1> USE DEF IInv
<1>0. /\ TypeOK /\ LogStarts /\ log \in Seq(Entry) /\ Len(log) \in Nat /\ DOMAIN log = 1..Len(log)
      /\ lcs_trees \in Seq([pos : Nat, tree : Tree])
  BY DEF TypeOK
<1>1. /\ lcs_trees # <<>>
      /\ log' = Append(log, AfterImageEntry(Head(lcs_trees).pos, Head(lcs_trees).tree))
  BY DEF WriteAfterImage
<1>2. /\ Head(lcs_trees) = lcs_trees[1] /\ 1 \in DOMAIN lcs_trees
      /\ Head(lcs_trees) \in [pos : Nat, tree : Tree]
  BY <1>0, <1>1, TailFacts
<1> DEFINE h == lcs_trees[1]
           n == Len(log) + 1
<1>3. h \in [pos : Nat, tree : Tree] /\ AfterImageEntry(h.pos, h.tree) \in Entry
  BY <1>2, EntryTypes
<1> HIDE DEF h
<1>4. /\ DOMAIN log' = 1..n /\ \A i \in DOMAIN log : log'[i] = log[i]
      /\ log'[n] = AfterImageEntry(h.pos, h.tree)
  BY <1>0, <1>1, <1>2, <1>3, AppendFacts DEF h
<1>5. log'[n].type = "afterimage" /\ log'[n].intention = h.pos /\ log'[n].tree = h.tree
  BY <1>4 DEF AfterImageEntry
<1>6. h.pos \in IntentionPositions
  BY <1>2 DEF GoodQueue, GoodTree, IntentionPositions, h
<1>7. AfterImagePositions(h.pos) = {}
  BY <1>0, <1>3, <1>6, RestoreIs, RestoreFacts DEF h
<1>8. ASSUME NEW p PROVE AfterImagePositions(p)' =
                 AfterImagePositions(p) \cup (IF p = h.pos THEN {n} ELSE {})
  BY <1>0, <1>4, <1>5 DEF AfterImagePositions
<1>9. IntentionPositions' = IntentionPositions
  BY <1>0, <1>4, <1>5 DEF IntentionPositions
<1> DEFINE S == {p \in IntentionPositions : AfterImagePositions(p) # {}}
<1>10. {p \in IntentionPositions' : AfterImagePositions(p)' # {}} = S \cup {h.pos}
  BY <1>6, <1>8, <1>9
<1>11. RestorePoint' = h.pos
  <2>1. S \cup {h.pos} \in SUBSET (0..Len(log)) /\ S \cup {h.pos} # {}
    BY <1>0, <1>6 DEF IntentionPositions
  <2>2. RestorePoint' = Max(S \cup {h.pos})
    BY <1>10 DEF RestorePoint
  <2>3. /\ Max(S \cup {h.pos}) \in S \cup {h.pos}
        /\ \A y \in S \cup {h.pos} : y <= Max(S \cup {h.pos})
    BY <1>0, <2>1, MaxOfBounded
  <2>4. \A y \in S : y \in Nat /\ y < h.pos
    <3>1. TAKE y \in S
    <3>2. y <= RestorePoint /\ y \in Nat
      BY <1>0, RestoreIs DEF IntentionPositions
    <3>3. QED  BY <1>0, <1>3, <3>2, RestoreFacts DEF h
  <2>5. QED  BY <1>3, <2>2, <2>3, <2>4
<1>12. AfterImagePositions(RestorePoint)' = {n}
  <2>1. AfterImagePositions(RestorePoint)' =
          {a \in DOMAIN log' : log'[a].type = "afterimage" /\ log'[a].intention = h.pos}
    BY <1>11 DEF AfterImagePositions
  <2>2. {a \in DOMAIN log' : log'[a].type = "afterimage" /\ log'[a].intention = h.pos} = {n}
    <3> USE <1>5 DEF AfterImagePositions
    <3>1. n \in DOMAIN log'
      BY <1>0, <1>4
    <3>2. ASSUME NEW a \in DOMAIN log', a # n
          PROVE  a \in DOMAIN log /\ log'[a] = log[a]
      BY <1>0, <1>4, <3>2
    <3>3. \A a \in DOMAIN log : ~(log[a].type = "afterimage" /\ log[a].intention = h.pos)
      BY <1>7
    <3> HIDE DEF n, AfterImagePositions, IInv
    <3>4. QED  BY <3>1, <3>2, <3>3
  <2>3. QED  BY <2>1, <2>2
<1>13. RestoreTree' = log'[n].tree
  <2>1. {n} \in SUBSET Nat
    BY <1>0
  <2>2. Min({n}) = n
    BY <2>1, MinOfNats
  <2>3. QED  BY <1>12, <2>2 DEF RestoreTree
<1>14. QED  BY <1>5, <1>11, <1>13 DEF h

\* The queue of the writer and the restore point after every step.
LEMMA RestorableStep ==
    ASSUME IInv, Restorable, [Next]_vars
    PROVE  Restorable'
<1> USE DEF IInv
<1>0. /\ TypeOK /\ LogStarts /\ RestorePoint \in Nat /\ root_snapshot \in Nat
      /\ lcs_trees \in Seq([pos : Nat, tree : Tree])
      /\ \A i \in DOMAIN lcs_trees : lcs_trees[i].pos \in Nat
      /\ DOMAIN lcs_trees = 1..Len(lcs_trees) /\ Len(lcs_trees) \in Nat
  <2>1. TypeOK /\ LogStarts /\ lcs_trees \in Seq([pos : Nat, tree : Tree]) /\ root_snapshot \in Nat
    BY DEF TypeOK
  <2>2. PICK S : S = [pos : Nat, tree : Tree]
    OBVIOUS
  <2>3. lcs_trees \in Seq(S) => \A i \in DOMAIN lcs_trees : lcs_trees[i] \in S
    OBVIOUS
  <2>4. \A x \in S : x.pos \in Nat
    BY <2>2
  <2>5. QED  BY <2>1, <2>2, <2>3, <2>4, RestoreFacts
<1>1. CASE phase' = "closed"
  BY <1>1 DEF Restorable
<1>2. CASE Open
  <2>1. /\ root' = RestoreTree /\ root_snapshot' = RestorePoint /\ lcs_trees' = lcs_trees
        /\ phase = "closed"
    BY <1>2 DEF Open
  <2>2. lcs_trees' = <<>>
    BY <2>1 DEF Closed
  <2>3. DOMAIN lcs_trees' = {}
    BY <2>2
  <2>4. RestorePoint' = RestorePoint /\ RestoreTree' = RestoreTree
    <3>1. ~WriteAfterImage
      BY <2>1 DEF WriteAfterImage
    <3>2. QED  BY <3>1, RestoreKept
  <2>5. \A c \in RestoreTree.catalog : c <= RestorePoint
    BY <1>0, RestoreFacts DEF GoodAfterImages, GoodTree
  <2>6. BuiltOn(RestoreTree, RestorePoint)'
    BY <1>0, <2>1, <2>4, <2>5 DEF BuiltOn
  <2>7. QED  BY <2>3, <2>6 DEF Restorable
<1>3. CASE phase' # "closed" /\ ~Open
  <2>1. ~Lost /\ phase # "closed"
    <3>1. ~Lost
      BY <1>3 DEF Lost, LoseInstance
    <3>2. QED  BY <1>3, <3>1, Frame DEF OpenReturns
  <2>2. /\ BuiltOn(RestoreTree, RestorePoint)
        /\ \A i \in DOMAIN lcs_trees :
              /\ RestorePoint < lcs_trees[i].pos
              /\ BuiltOn(lcs_trees[i].tree, lcs_trees[i].pos)
              /\ \A j \in DOMAIN lcs_trees : i < j => lcs_trees[i].pos < lcs_trees[j].pos
    BY <2>1 DEF Restorable
  <2>3. \A i \in DOMAIN lcs_trees :
           /\ lcs_trees[i].pos <= root_snapshot'
           /\ lcs_trees[i].tree.catalog = {c \in root'.catalog : c <= lcs_trees[i].pos}
    BY <1>0, <2>1, <2>2, BuiltOnStep
  <2>4. CASE WriteAfterImage
    <3>1. lcs_trees' = Tail(lcs_trees) /\ lcs_trees # <<>>
      BY <2>4 DEF WriteAfterImage
    <3>2. /\ 1 \in DOMAIN lcs_trees
          /\ \A i \in DOMAIN lcs_trees' : i + 1 \in DOMAIN lcs_trees /\ lcs_trees'[i] = lcs_trees[i + 1]
          /\ \A i \in DOMAIN lcs_trees' : i \in Nat /\ 1 < i + 1
      <4>1. Tail(lcs_trees) \in Seq([pos : Nat, tree : Tree])
        BY <1>0, <3>1, TailFacts
      <4>2. \A i \in DOMAIN Tail(lcs_trees) : i \in Nat /\ 1 < i + 1
        BY <4>1
      <4>3. QED  BY <1>0, <3>1, <4>2, TailFacts
    <3>3. RestorePoint' = lcs_trees[1].pos /\ RestoreTree' = lcs_trees[1].tree
      BY <2>2, <2>4, <3>2, RestoreWritten
    <3>4. BuiltOn(RestoreTree, RestorePoint)'
      BY <2>3, <3>2, <3>3 DEF BuiltOn
    <3>5. ASSUME NEW i \in DOMAIN lcs_trees'
          PROVE  /\ RestorePoint' < lcs_trees'[i].pos
                 /\ BuiltOn(lcs_trees[i].tree, lcs_trees[i].pos)'
                 /\ \A j \in DOMAIN lcs_trees' : i < j => lcs_trees'[i].pos < lcs_trees'[j].pos
      <4>1. RestorePoint' < lcs_trees'[i].pos
        BY <2>2, <3>2, <3>3
      <4>2. BuiltOn(lcs_trees[i].tree, lcs_trees[i].pos)'
        BY <2>3, <3>2 DEF BuiltOn
      <4>3. ASSUME NEW j \in DOMAIN lcs_trees', i < j
            PROVE  lcs_trees'[i].pos < lcs_trees'[j].pos
        <5>1. i \in Nat /\ j \in Nat /\ i + 1 < j + 1
          BY <3>2, <4>3
        <5>2. QED  BY <2>2, <3>2, <5>1
      <4>4. QED  BY <4>1, <4>2, <4>3
    <3>6. QED  BY <3>4, <3>5 DEF Restorable
  <2>5. CASE ~WriteAfterImage
    <3>1. RestorePoint' = RestorePoint /\ RestoreTree' = RestoreTree
      BY <2>5, RestoreKept
    <3>2. BuiltOn(RestoreTree, RestorePoint)'
      <4>1. /\ RestorePoint <= root_snapshot'
            /\ RestoreTree.catalog = {c \in root'.catalog : c <= RestorePoint}
        BY <1>0, <2>1, <2>2, BuiltOnStep
      <4>2. QED  BY <3>1, <4>1 DEF BuiltOn
    <3>3. CASE lcs_trees' = lcs_trees
      <4>1. \A i \in DOMAIN lcs_trees : BuiltOn(lcs_trees[i].tree, lcs_trees[i].pos)'
        BY <2>3, <3>3 DEF BuiltOn
      <4>2. QED  BY <2>2, <3>1, <3>2, <3>3, <4>1 DEF Restorable
    <3>4. CASE TPPublish
      <4> DEFINE n == Len(lcs_trees) + 1
      <4>1. /\ lcs_trees' = Append(lcs_trees, [pos |-> tp.pos, tree |-> tp.tree])
            /\ tp.pc = "publish" /\ root' = tp.tree /\ root_snapshot' = tp.pos
        BY <3>4 DEF TPPublish
      <4>2. [pos |-> tp.pos, tree |-> tp.tree] \in [pos : Nat, tree : Tree] /\ tp.pos \in Nat
        BY <1>0, <4>1 DEF TypeOK
      <4>3. /\ DOMAIN lcs_trees' = 1..n
            /\ \A i \in DOMAIN lcs_trees : lcs_trees'[i] = lcs_trees[i]
            /\ lcs_trees'[n] = [pos |-> tp.pos, tree |-> tp.tree]
        BY <1>0, <4>1, <4>2, AppendFacts
      <4>4. root_snapshot < tp.pos /\ \A c \in tp.tree.catalog : c <= tp.pos
        BY <4>1 DEF GoodNextRoot, GoodTree
      <4>5. \A i \in DOMAIN lcs_trees : lcs_trees[i].pos < tp.pos
        BY <1>0, <2>2, <4>2, <4>4 DEF BuiltOn
      <4>6. RestorePoint < tp.pos
        BY <1>0, <2>2, <4>2, <4>4 DEF BuiltOn
      <4>7. ASSUME NEW i \in DOMAIN lcs_trees'
            PROVE  /\ RestorePoint' < lcs_trees'[i].pos
                   /\ BuiltOn(lcs_trees[i].tree, lcs_trees[i].pos)'
                   /\ \A j \in DOMAIN lcs_trees' : i < j => lcs_trees'[i].pos < lcs_trees'[j].pos
        <5>1. CASE i \in DOMAIN lcs_trees
          <6>1. BuiltOn(lcs_trees[i].tree, lcs_trees[i].pos)'
            BY <2>3, <4>3, <5>1 DEF BuiltOn
          <6>2. RestorePoint' < lcs_trees'[i].pos
            BY <2>2, <3>1, <4>3, <5>1
          <6>3. ASSUME NEW j \in DOMAIN lcs_trees', i < j
                PROVE  lcs_trees'[i].pos < lcs_trees'[j].pos
            <7>1. CASE j \in DOMAIN lcs_trees
              BY <2>2, <4>3, <5>1, <6>3, <7>1
            <7>2. CASE j = n
              BY <4>3, <4>5, <5>1, <7>2
            <7>3. QED  BY <1>0, <4>3, <7>1, <7>2
          <6>4. QED  BY <6>1, <6>2, <6>3
        <5>2. CASE i = n
          <6>1. lcs_trees'[i].pos = tp.pos /\ lcs_trees'[i].tree = tp.tree
            BY <4>3, <5>2
          <6>2. BuiltOn(lcs_trees[i].tree, lcs_trees[i].pos)'
            BY <4>1, <4>2, <4>4, <6>1 DEF BuiltOn
          <6>3. \A j \in DOMAIN lcs_trees' : ~(i < j)
            BY <1>0, <4>3, <5>2
          <6>4. QED  BY <3>1, <4>6, <6>1, <6>2, <6>3
        <5>3. QED  BY <1>0, <4>3, <5>1, <5>2
      <4>8. QED  BY <3>2, <4>7 DEF Restorable
    <3>5. QED  BY <2>1, <2>5, <3>3, <3>4, Frame
  <2>6. QED  BY <2>4, <2>5
<1>4. QED  BY <1>1, <1>2, <1>3

\* What would be restored is a prefix of what the instance has published, and the
\* writer goes on where it ends, in every reachable state.
THEOREM RestoreInvariance == Spec => [](IInv /\ Restorable)
<1>1. Init => Restorable
  BY DEF Init, Restorable
<1>2. ASSUME IInv, Restorable, [Next]_vars
      PROVE  Restorable'
  BY <1>2, RestorableStep
<1>3. QED  BY <1>1, <1>2, Invariance, PTL DEF Spec

\* No step takes the restore point back, or changes which of the intentions up to
\* it a restored database holds as committed: a crash after any number of
\* after-images of any number of instances loses no commit that was durable
\* before, whether or not the assertions of the conflict check hold.
THEOREM RestoreMovesForward == Spec => RestorePointAdvances
<1> DEFINE Fwd == LET old == RestorePoint
                      new == RestorePoint'
                  IN  /\ old <= new
                      /\ old < new => RestoreTree'.catalog \cap (1..old) = RestoreTree.catalog
<1>1. ASSUME IInv, Restorable, [Next]_vars
      PROVE  [Fwd]_log
  <2> USE <1>1 DEF IInv
  <2>1. TypeOK /\ LogStarts /\ RestorePoint \in Nat
    BY RestoreFacts
  <2>2. CASE ~WriteAfterImage
    <3>1. RestorePoint' = RestorePoint
      BY <1>1, <2>2, RestoreKept
    <3>2. QED  BY <2>1, <3>1
  <2>3. CASE WriteAfterImage
    <3>1. lcs_trees # <<>> /\ phase # "closed" /\ lcs_trees \in Seq([pos : Nat, tree : Tree])
      BY <2>3 DEF WriteAfterImage, TypeOK
    <3>2. 1 \in DOMAIN lcs_trees /\ lcs_trees[1] \in [pos : Nat, tree : Tree]
      BY <3>1, TailFacts
    <3>3. /\ BuiltOn(RestoreTree, RestorePoint)
          /\ RestorePoint < lcs_trees[1].pos
          /\ BuiltOn(lcs_trees[1].tree, lcs_trees[1].pos)
      BY <3>1, <3>2 DEF Restorable
    <3>4. RestorePoint' = lcs_trees[1].pos /\ RestoreTree' = lcs_trees[1].tree
      BY <1>1, <2>3, <3>3, RestoreWritten
    <3>5. GoodTree(log, root_snapshot, root)
      BY <3>1 DEF GoodRoot
    <3>6. \A c \in root.catalog : c \in Nat /\ 1 <= c
      BY <3>5 DEF GoodTree, TypeOK
    <3>7. lcs_trees[1].tree.catalog \cap (1..RestorePoint) = RestoreTree.catalog
      BY <2>1, <3>2, <3>3, <3>6 DEF BuiltOn
    <3>8. lcs_trees[1].pos \in Nat
      BY <3>2
    <3>9. QED  BY <2>1, <3>3, <3>4, <3>7, <3>8
  <2>4. QED  BY <2>2, <2>3
<1>2. [][Fwd]_log => RestorePointAdvances
  BY PTL DEF RestorePointAdvances
<1>3. QED  BY <1>1, <1>2, RestoreInvariance, PTL DEF Spec

-----------------------------------------------------------------------------
(* What clients are told. *)

(* The ways in which a step can change a transaction. *)
Begins(t) ==
    /\ BeginTransaction(t)
    /\ txn[t].st = "idle" /\ txn'[t].st = "active"
    /\ txn'[t].snapshot = root_snapshot /\ txn'[t].tree = root
    /\ txn'[t].pos = txn[t].pos /\ txn'[t].decision = txn[t].decision

Records(t) ==
    /\ txn[t].st = "active" /\ txn'[t].st = "active" /\ UNCHANGED <<root, phase>>
    /\ txn'[t].snapshot = txn[t].snapshot
    /\ txn'[t].pos = txn[t].pos /\ txn'[t].decision = txn[t].decision

EndsReadOnly(t) ==
    txn[t].st = "active" /\ txn'[t].st = "readonly" /\ txn'[t].decision = "none"

Appends(t) ==
    /\ CommitAppend(t)
    /\ txn[t].st = "active" /\ txn'[t].st = "append"
    /\ txn'[t].pos = Len(log) + 1 /\ txn'[t].decision = txn[t].decision

Inserts(t) ==
    /\ txn[t].st = "append" /\ txn'[t].st = "wait" /\ UNCHANGED <<phase, latest, last_processed>>
    /\ txn'[t].pos = txn[t].pos /\ txn'[t].decision = txn[t].decision

Returns(t) ==
    /\ UNCHANGED <<phase, latest, last_processed>>
    /\ txn[t].st = "wait" /\ txn[t].decision # "none" /\ txn'[t].decision = "none"
    /\ txn'[t].st = IF txn[t].decision = "commit" THEN "committed" ELSE "aborted"
    /\ txn'[t].pos = txn[t].pos

Forgets(t) ==
    /\ Lost /\ txn[t].st \in {"active", "append", "wait"} /\ txn'[t].st = "lost"
    /\ txn'[t].pos = txn[t].pos /\ txn'[t].decision = "none"

Told(t, p, d) ==
    /\ log[p].token = t
    /\ txn[t].st \in {"append", "wait"} /\ txn'[t].st = txn[t].st
    /\ txn'[t].pos = txn[t].pos /\ txn'[t].decision = d

\* A notification tells the transaction whose token it names, and no other.
LEMMA NotifyMoves ==
    ASSUME TypeOK, NEW p, NEW d, NEW u \in Txns,
           txn' = NotifyTransaction(log[p].token, d)
    PROVE  txn'[u] = txn[u] \/ Told(u, p, d)
<1>1. txn \in [Txns -> TxnState] /\ txn[u] \in TxnState
  BY DEF TypeOK
<1>2. CASE log[p].token = u /\ txn[u].st \in {"append", "wait"}
  <2>1. txn'[u] = [txn[u] EXCEPT !.decision = d]
    BY <1>1, <1>2 DEF NotifyTransaction
  <2>2. QED  BY <1>1, <1>2, <2>1 DEF Told, TxnState
<1>3. CASE ~(log[p].token = u /\ txn[u].st \in {"append", "wait"})
  BY <1>1, <1>3 DEF NotifyTransaction
<1>4. QED  BY <1>2, <1>3

\* Every step changes a transaction in one of these ways, or not at all.
LEMMA TxnMoves ==
    ASSUME TypeOK, [Next]_vars, NEW u \in Txns
    PROVE  \/ txn'[u] = txn[u]
           \/ Begins(u) \/ Records(u) \/ EndsReadOnly(u) \/ Appends(u)
           \/ Inserts(u) \/ Returns(u) \/ Forgets(u)
           \/ TPPublish /\ Told(u, tp.pos, "commit")
           \/ TPAbort /\ Told(u, Min(Pending), "abort")
<1>1. txn \in [Txns -> TxnState] /\ txn[u] \in TxnState
  BY DEF TypeOK
<1>2. ASSUME NEW t \in Txns, Client(t), t # u
      PROVE  txn'[u] = txn[u]
  <2>1. CASE BeginTransaction(t)     BY <1>1, <1>2, <2>1 DEF BeginTransaction
  <2>2. CASE \E k \in Keys : TxnGet(t, k) \/ TxnDelete(t, k)
    BY <1>1, <1>2, <2>2 DEF TxnGet, TxnDelete, Operate
  <2>3. CASE \E k \in Keys, v \in Values : TxnPut(t, k, v)
    BY <1>1, <1>2, <2>3 DEF TxnPut, Operate
  <2>4. CASE CommitReadOnly(t)       BY <1>1, <1>2, <2>4 DEF CommitReadOnly
  <2>5. CASE CommitAppend(t)         BY <1>1, <1>2, <2>5 DEF CommitAppend
  <2>6. CASE CommitInsert(t)         BY <1>1, <1>2, <2>6 DEF CommitInsert
  <2>7. CASE CommitReturns(t)        BY <1>1, <1>2, <2>7 DEF CommitReturns
  <2>8. QED  BY <1>2, <2>1, <2>2, <2>3, <2>4, <2>5, <2>6, <2>7 DEF Client
<1>3. CASE BeginTransaction(u)
  <2>1. txn'[u] = [txn[u] EXCEPT !.st = "active", !.snapshot = root_snapshot, !.tree = root]
    BY <1>1, <1>3 DEF BeginTransaction
  <2>2. txn[u].st = "idle"
    BY <1>3 DEF BeginTransaction
  <2>3. QED  BY <1>1, <1>3, <2>1, <2>2 DEF Begins, TxnState
<1>4. ASSUME NEW op, NEW kv, NEW ro, Operate(u, op, kv, ro)
      PROVE  Records(u)
  <2>1. /\ txn[u].st = "active" /\ UNCHANGED <<root, phase>>
        /\ txn' = [txn EXCEPT ![u].ops = Append(@, op), ![u].tree.kv = kv, ![u].readonly = ro]
    BY <1>4 DEF Operate
  <2>2. /\ txn'[u].st = txn[u].st /\ txn'[u].snapshot = txn[u].snapshot
        /\ txn'[u].pos = txn[u].pos /\ txn'[u].decision = txn[u].decision
    BY <1>1, <2>1 DEF TxnState
  <2>3. QED  BY <2>1, <2>2 DEF Records
<1>5. CASE CommitReadOnly(u)
  BY <1>1, <1>5 DEF CommitReadOnly, EndsReadOnly, IdleTxn
<1>6. CASE CommitAppend(u)
  <2>1. /\ txn[u].st = "active"
        /\ txn' = [txn EXCEPT ![u].st = "append", ![u].ops = <<>>, ![u].pos = Len(log) + 1]
    BY <1>6 DEF CommitAppend
  <2>2. txn'[u].st = "append" /\ txn'[u].pos = Len(log) + 1 /\ txn'[u].decision = txn[u].decision
    BY <1>1, <2>1 DEF TxnState
  <2>3. QED  BY <1>6, <2>1, <2>2 DEF Appends
<1>7. CASE CommitInsert(u)
  <2>1. /\ txn[u].st = "append" /\ UNCHANGED <<phase, latest, last_processed>>
        /\ txn' = [txn EXCEPT ![u].st = "wait", ![u].tree = NullTree]
    BY <1>7 DEF CommitInsert
  <2>2. txn'[u].st = "wait" /\ txn'[u].pos = txn[u].pos /\ txn'[u].decision = txn[u].decision
    BY <1>1, <2>1 DEF TxnState
  <2>3. QED  BY <2>1, <2>2 DEF Inserts
<1>8. CASE CommitReturns(u)
  BY <1>1, <1>8 DEF CommitReturns, Returns, IdleTxn
<1>9. CASE Lost
  <2>1. CASE txn[u].st \in {"active", "append", "wait"}
    BY <1>9, <2>1 DEF Lost, LoseInstance, Forgets, IdleTxn
  <2>2. CASE txn[u].st \notin {"active", "append", "wait"}
    BY <1>9, <2>2 DEF Lost, LoseInstance
  <2>3. QED  BY <2>1, <2>2
<1>10. CASE TPPublish
  BY <1>10, NotifyMoves DEF TPPublish
<1>11. CASE TPAbort
  BY <1>11, NotifyMoves DEF TPAbort
<1>12. CASE Client(u)
  <2>1. (\E k \in Keys : TxnGet(u, k) \/ TxnDelete(u, k)) => Records(u)
    BY <1>4 DEF TxnGet, TxnDelete
  <2>2. (\E k \in Keys, v \in Values : TxnPut(u, k, v)) => Records(u)
    BY <1>4 DEF TxnPut
  <2>3. QED  BY <1>3, <1>5, <1>6, <1>7, <1>8, <1>12, <2>1, <2>2 DEF Client
<1>13. QED  BY <1>2, <1>9, <1>10, <1>11, <1>12, Frame

\* An intention that a step appends carries the token of its client, or is the
\* flush of gc().
LEMMA NewIntention ==
    ASSUME IInv, [Next]_vars, NEW p \in IntentionPositions', p \notin DOMAIN log
    PROVE  /\ p = Len(log) + 1
           /\ \/ Gc /\ log'[p].flush /\ log'[p].token = NoToken
              \/ \E t \in Txns : /\ CommitAppend(t) /\ log'[p].token = t
                                 /\ log'[p].snapshot = txn[t].snapshot
                                 /\ log'[p].ops = txn[t].ops
<1> USE DEF IInv
<1>0. log \in Seq(Entry) /\ Len(log) \in Nat /\ DOMAIN log = 1..Len(log)
  BY DEF TypeOK
<1>1. p \in DOMAIN log' /\ log'[p].type = "intention"
  BY DEF IntentionPositions
<1>2. log' # log /\ p = Len(log) + 1 /\ log' = Append(log, log'[p]) /\ log'[p] \in Entry
  BY <1>1, LogGrows
<1>3. ASSUME NEW e, log' = Append(log, e)
      PROVE  log'[p] = e
  <2>1. PICK S : S = Entry \cup {e}
    OBVIOUS
  <2>2. log \in Seq(S) /\ e \in S
    BY <1>0, <2>1
  <2>3. QED  BY <1>2, <1>3, <2>2, AppendFacts
<1>4. CASE Open
  <2>1. log'[p] = FilledEntry
    BY <1>3, <1>4 DEF Open
  <2>2. QED  BY <1>1, <2>1 DEF FilledEntry
<1>5. CASE WriteAfterImage
  <2>1. log'[p] = AfterImageEntry(Head(lcs_trees).pos, Head(lcs_trees).tree)
    BY <1>3, <1>5 DEF WriteAfterImage
  <2>2. QED  BY <1>1, <2>1 DEF AfterImageEntry
<1>6. CASE Gc
  <2>1. PICK o : o = CopyOp(prefix_string(PREFIX_COMMITTED_INTENTION, Min(root.catalog)))
    OBVIOUS
  <2>2. log'[p] = IntentionEntry(0, NoToken, <<o>>)
    BY <1>3, <1>6, <2>1 DEF Gc
  <2>3. o.op = "COPY"
    BY <2>1 DEF CopyOp
  <2>4. Flush(<<o>>)
    BY <2>3 DEF Flush
  <2>5. QED  BY <1>2, <1>6, <2>2, <2>4 DEF IntentionEntry
<1>7. ASSUME NEW t \in Txns, CommitAppend(t)
      PROVE  log'[p].token = t /\ log'[p].snapshot = txn[t].snapshot /\ log'[p].ops = txn[t].ops
  <2>1. log'[p] = IntentionEntry(txn[t].snapshot, t, txn[t].ops)
    BY <1>3, <1>7 DEF CommitAppend
  <2>2. QED  BY <2>1 DEF IntentionEntry
<1>8. QED  BY <1>2, <1>4, <1>5, <1>6, <1>7, Frame

\* Tokens after every step.
LEMMA TokensStep ==
    ASSUME IInv, Tokens, [Next]_vars
    PROVE  Tokens'
<1> USE DEF IInv
<1>1. ASSUME NEW p \in IntentionPositions', log'[p].token \in Txns
      PROVE  /\ txn'[log'[p].token].pos = p
             /\ txn'[log'[p].token].st \notin {"idle", "active"}
  <2>1. CASE p \in DOMAIN log
    <3>1. p \in IntentionPositions /\ log'[p] = log[p]
      BY <2>1, LogGrows DEF IntentionPositions
    <3>2. PICK u \in Txns : u = log[p].token
      BY <1>1, <3>1
    <3>3. txn[u].pos = p /\ txn[u].st \notin {"idle", "active"}
      BY <3>1, <3>2 DEF Tokens
    <3>4. txn'[u].pos = p /\ txn'[u].st \notin {"idle", "active"}
      <4>1. CASE txn'[u] = txn[u]
        BY <3>3, <4>1
      <4>2. CASE Inserts(u) \/ Returns(u) \/ Forgets(u)
        BY <3>3, <4>2 DEF Inserts, Returns, Forgets
      <4>3. CASE \E q, d : Told(u, q, d)
        BY <3>3, <4>3 DEF Told
      <4>4. QED
        BY <3>3, <4>1, <4>2, <4>3, TxnMoves DEF Begins, Records, EndsReadOnly, Appends
    <3>5. QED  BY <3>1, <3>2, <3>4
  <2>2. CASE p \notin DOMAIN log
    <3>1. p = Len(log) + 1
      BY <2>2, NewIntention
    <3>2. PICK t \in Txns : CommitAppend(t) /\ log'[p].token = t
      BY <1>1, <2>2, NewIntention, NoTokenAssumption
    <3>3. txn \in [Txns -> TxnState] /\ txn[t] \in TxnState
      BY DEF TypeOK
    <3>4. txn' = [txn EXCEPT ![t].st = "append", ![t].ops = <<>>, ![t].pos = Len(log) + 1]
      BY <3>2 DEF CommitAppend
    <3>5. txn'[t].st = "append" /\ txn'[t].pos = Len(log) + 1
      BY <3>3, <3>4 DEF TxnState
    <3>6. QED  BY <3>1, <3>2, <3>5
  <2>3. QED  BY <2>1, <2>2
<1>2. QED  BY <1>1 DEF Tokens

\* Snapshots after every step.
LEMMA SnapshotsStep ==
    ASSUME IInv, ViewInv, [Next]_vars
    PROVE  Snapshots'
<1> USE DEF IInv
<1>1. ASSUME NEW p \in IntentionPositions', p # 1, ~log'[p].flush
      PROVE  log'[p].snapshot \in DOMAIN log'
  <2>1. CASE p \in DOMAIN log
    <3>1. p \in IntentionPositions /\ log'[p] = log[p]
      BY <2>1, LogGrows DEF IntentionPositions
    <3>2. QED  BY <1>1, <3>1, LogGrows DEF ViewInv, Snapshots
  <2>2. CASE p \notin DOMAIN log
    <3>1. PICK t \in Txns : CommitAppend(t) /\ log'[p].snapshot = txn[t].snapshot
      BY <1>1, <2>2, NewIntention
    <3>2. txn[t].st = "active"
      BY <3>1 DEF CommitAppend
    <3>3. txn[t].snapshot \in root.catalog /\ phase # "closed"
      BY <3>2 DEF ViewInv, ClientViews, ClientView, GoodTxns, GoodTxn
    <3>4. txn[t].snapshot \in DOMAIN log
      BY <3>3 DEF GoodRoot, GoodTree
    <3>5. QED  BY <3>1, <3>4, LogGrows
  <2>3. QED  BY <2>1, <2>2
<1>2. QED  BY <1>1 DEF Snapshots

\* Which actions move the processor on.
LEMMA FrontierFrame ==
    ASSUME [Next]_vars
    PROVE  /\ last_processed' = last_processed \/ Open \/ TPPublish \/ TPAbort \/ Lost
           /\ latest' = latest \/ Open \/ Lost
<1>1. CASE Open                        BY <1>1 DEF Open
<1>2. CASE OpenReturns                 BY <1>2 DEF OpenReturns
<1>3. CASE Crash                       BY <1>3 DEF Crash, Lost
<1>4. CASE TPAssertFails               BY <1>4 DEF TPAssertFails, Lost
<1>5. ASSUME NEW t \in Txns, Client(t)
      PROVE  UNCHANGED <<last_processed, latest>>
  <2>1. CASE BeginTransaction(t)       BY <2>1 DEF BeginTransaction
  <2>2. CASE \E k \in Keys : TxnGet(t, k) \/ TxnDelete(t, k)
    BY <2>2 DEF TxnGet, TxnDelete, Operate
  <2>3. CASE \E k \in Keys, v \in Values : TxnPut(t, k, v)
    BY <2>3 DEF TxnPut, Operate
  <2>4. CASE CommitReadOnly(t)         BY <2>4 DEF CommitReadOnly
  <2>5. CASE CommitAppend(t)           BY <2>5 DEF CommitAppend
  <2>6. CASE CommitInsert(t)           BY <2>6 DEF CommitInsert
  <2>7. CASE CommitReturns(t)          BY <2>7 DEF CommitReturns
  <2>8. QED  BY <1>5, <2>1, <2>2, <2>3, <2>4, <2>5, <2>6, <2>7 DEF Client
<1>6. CASE Gc                          BY <1>6 DEF Gc
<1>7. CASE TPCommit                    BY <1>7 DEF TPCommit
<1>8. CASE TPPublish                   BY <1>8 DEF TPPublish
<1>9. CASE TPAbort                     BY <1>9 DEF TPAbort
<1>10. CASE WriteAfterImage            BY <1>10 DEF WriteAfterImage
<1>11. CASE Janitor                    BY <1>11 DEF Janitor
<1>12. CASE UNCHANGED vars             BY <1>12 DEF vars
<1>13. QED
  BY <1>1, <1>2, <1>3, <1>4, <1>5, <1>6, <1>7, <1>8, <1>9, <1>10, <1>11, <1>12 DEF Next

\* The processor only moves on while the instance lives, and what it has passed
\* stays behind the iterator.
LEMMA FrontierStep ==
    ASSUME IInv, Frontier, [Next]_vars
    PROVE  /\ Frontier'
           /\ (phase # "closed" /\ ~Lost) => last_processed <= last_processed'
<1> USE DEF IInv
<1>0. /\ iter \in Nat /\ last_processed \in Nat /\ latest \in Nat
      /\ tp.pc \in {"next", "publish"} /\ (tp.pc = "publish" => tp.pos \in Nat)
  BY DEF TypeOK
<1>g. \A p \in DOMAIN log : p \in DOMAIN log'
  BY LogGrows
<1>1. CASE Lost
  BY <1>1 DEF Lost, LoseInstance, Frontier
<1>2. CASE Open
  <2>1. /\ phase = "closed" /\ phase' = "replay" /\ tp' = tp
        /\ last_processed' = RestorePoint /\ iter' = RestorePoint + 1
    BY <1>2 DEF Open, ReplayStart
  <2>2. RestorePoint \in Nat /\ RestorePoint \in DOMAIN log
    BY RestoreFacts DEF IntentionPositions
  <2>3. tp.pc = "next"
    BY <2>1 DEF Closed, IdleTP
  <2>4. QED  BY <1>g, <2>1, <2>2, <2>3 DEF Frontier
<1>3. CASE TPCommit
  <2>1. /\ Pending # {} /\ iter' = Min(Pending) + 1 /\ phase # "closed"
        /\ tp' = [pc |-> "publish", pos |-> Min(Pending), tree |-> NextRoot(Min(Pending))]
        /\ UNCHANGED <<phase, last_processed, latest>>
    BY <1>3 DEF TPCommit
  <2>2. Min(Pending) \in Nat /\ iter <= Min(Pending) /\ Min(Pending) \in DOMAIN log
    BY <2>1, PendingFacts
  <2>3. QED  BY <1>0, <1>g, <2>1, <2>2 DEF Frontier
<1>4. CASE TPPublish
  <2>1. /\ tp.pc = "publish" /\ tp' = IdleTP /\ last_processed' = tp.pos /\ phase # "closed"
        /\ UNCHANGED <<phase, iter, latest>>
    BY <1>4 DEF TPPublish
  <2>2. tp.pos < iter
    BY <2>1 DEF GoodNextRoot
  <2>3. tp'.pc = "next"
    BY <2>1 DEF IdleTP
  <2>4. QED  BY <1>0, <1>g, <2>1, <2>2, <2>3 DEF Frontier
<1>5. CASE TPAbort
  <2>1. /\ Pending # {} /\ iter' = Min(Pending) + 1 /\ phase # "closed" /\ tp.pc = "next"
        /\ last_processed' = Min(Pending) /\ UNCHANGED <<phase, tp, latest>>
    BY <1>5 DEF TPAbort
  <2>2. Min(Pending) \in Nat /\ iter <= Min(Pending) /\ Min(Pending) \in DOMAIN log
    BY <2>1, PendingFacts
  <2>3. QED  BY <1>0, <1>g, <2>1, <2>2 DEF Frontier
<1>6. CASE ~Open /\ ~TPCommit /\ ~TPPublish /\ ~TPAbort /\ ~Lost
  <2>1. UNCHANGED <<last_processed, latest, iter, tp>>
    BY <1>6, Frame, FrontierFrame
  <2>2. phase' = phase \/ OpenReturns
    BY <1>6, Frame
  <2>3. QED  BY <1>0, <1>g, <2>1, <2>2 DEF Frontier, OpenReturns
<1>7. QED  BY <1>1, <1>2, <1>3, <1>4, <1>5, <1>6

\* The committed intentions of an instance stay committed while it lives.
LEMMA RootGrows ==
    ASSUME IInv, [Next]_vars, phase # "closed", ~Lost
    PROVE  root.catalog \subseteq root'.catalog /\ phase' # "closed"
<1> USE DEF IInv
<1>1. ~Open
  BY DEF Open
<1>2. phase' # "closed"
  BY <1>1, Frame DEF OpenReturns
<1>3. CASE TPPublish
  BY <1>2, <1>3 DEF TPPublish, GoodNextRoot
<1>4. QED  BY <1>1, <1>2, <1>3, Frame

\* What is said of a transaction after every step.
LEMMA ClientViewsStep ==
    ASSUME IInv, ViewInv, [Next]_vars
    PROVE  ClientViews'
<1> USE DEF IInv
<1>0. /\ TypeOK /\ log \in Seq(Entry) /\ Len(log) \in Nat /\ DOMAIN log = 1..Len(log)
      /\ last_processed \in Nat /\ latest \in Nat
  BY DEF TypeOK
<1>1. TypeOK'
  BY TypeStep
<1>2. ASSUME NEW u \in Txns PROVE ClientView(u)'
  <2>0. /\ ClientView(u) /\ txn[u] \in TxnState /\ txn[u].pos \in Nat
    BY DEF ViewInv, ClientViews, TypeOK, TxnState
  <2>1. ASSUME txn[u].pos \in IntentionPositions
        PROVE  txn[u].pos \in IntentionPositions'
    BY <2>1, LogGrows DEF IntentionPositions
  <2>2. ASSUME phase' # "closed", phase # "closed" => txn[u].pos <= latest \/ txn[u].pos <= last_processed,
               txn[u].pos \in IntentionPositions
        PROVE  txn[u].pos <= latest' \/ txn[u].pos <= last_processed'
    <3>1. CASE Open
      <4>1. latest' = Max(IntentionPositions)
        BY <3>1 DEF Open
      <4>2. IntentionPositions \in SUBSET (0..Len(log)) /\ IntentionPositions # {}
        BY <1>0, <2>2 DEF IntentionPositions
      <4>3. txn[u].pos <= Max(IntentionPositions)
        BY <1>0, <2>2, <4>2, MaxOfBounded
      <4>4. QED  BY <4>1, <4>3
    <3>2. CASE ~Open
      <4>1. ~Lost
        BY <2>2 DEF Lost, LoseInstance
      <4>2. phase # "closed"
        BY <2>2, <3>2, <4>1, Frame DEF OpenReturns
      <4>3. last_processed <= last_processed' /\ latest' = latest
        BY <3>2, <4>1, <4>2, FrontierStep, FrontierFrame DEF ViewInv
      <4>4. last_processed' \in Nat
        BY <1>1 DEF TypeOK
      <4>5. QED  BY <1>0, <2>0, <2>2, <4>2, <4>3, <4>4
    <3>3. QED  BY <3>1, <3>2
  <2>3. CASE txn'[u] = txn[u]
    <3>1. CASE Lost
      <4>1. txn[u].st \notin {"active", "append", "wait"}
        BY <2>3, <3>1 DEF Lost, LoseInstance, IdleTxn
      <4>2. txn[u].decision = "none" /\ phase' = "closed"
        BY <2>0, <3>1, <4>1 DEF ClientView, Lost, LoseInstance
      <4>3. QED  BY <2>0, <2>1, <2>3, <4>1, <4>2 DEF ClientView
    <3>2. CASE ~Lost
      <4>1. phase # "closed" => phase' # "closed" /\ root.catalog \subseteq root'.catalog
        BY <3>2, RootGrows
      <4>2. txn[u].st = "active" => phase # "closed"
        BY DEF GoodTxns, GoodTxn
      <4>3. (txn[u].decision = "commit" \/ txn[u].st = "committed") =>
               txn[u].pos \in IntentionPositions
        BY <2>0 DEF ClientView
      <4>4. QED  BY <2>0, <2>1, <2>2, <2>3, <4>1, <4>2, <4>3 DEF ClientView
    <3>3. QED  BY <3>1, <3>2
  <2>4. CASE Begins(u)
    <3>1. phase = "open" /\ UNCHANGED <<root, phase, root_snapshot>>
      BY <2>4 DEF Begins, BeginTransaction
    <3>2. root_snapshot \in root.catalog
      BY <3>1 DEF GoodRoot, GoodTree
    <3>3. QED  BY <2>0, <2>4, <3>1, <3>2 DEF Begins, ClientView
  <2>5. CASE Records(u)
    BY <2>0, <2>5 DEF Records, ClientView
  <2>6. CASE EndsReadOnly(u)
    BY <2>6 DEF EndsReadOnly, ClientView
  <2>7. CASE Appends(u)
    <3>1. Len(log) + 1 \in IntentionPositions'
      <4>1. log' = Append(log, IntentionEntry(txn[u].snapshot, u, txn[u].ops))
        BY <2>7 DEF Appends, CommitAppend
      <4>2. PICK e \in Entry : e = IntentionEntry(txn[u].snapshot, u, txn[u].ops)
        BY <2>0, EntryTypes DEF TxnState
      <4>3. e.type = "intention"
        BY <4>2 DEF IntentionEntry
      <4>4. Len(log) + 1 \in DOMAIN log' /\ log'[Len(log) + 1] = e
        BY <1>0, <4>1, <4>2, AppendFacts
      <4>5. QED  BY <4>3, <4>4 DEF IntentionPositions
    <3>2. txn[u].decision = "none"
      BY <2>0, <2>7 DEF Appends, ClientView
    <3>3. QED  BY <2>7, <3>1, <3>2 DEF Appends, ClientView
  <2>8. CASE Inserts(u)
    BY <2>0, <2>1, <2>8 DEF Inserts, ClientView
  <2>9. CASE Returns(u)
    <3>1. /\ txn'[u].st \in {"committed", "aborted"} /\ txn'[u].decision = "none"
          /\ txn'[u].st = "committed" => txn[u].decision = "commit"
          /\ txn'[u].pos = txn[u].pos /\ txn[u].st = "wait"
          /\ UNCHANGED <<phase, latest, last_processed>>
      BY <2>9 DEF Returns
    <3>2. QED  BY <2>0, <2>1, <3>1 DEF ClientView
  <2>10. CASE Forgets(u)
    BY <2>10 DEF Forgets, ClientView
  <2>11. CASE TPPublish /\ Told(u, tp.pos, "commit")
    <3>1. /\ log[tp.pos].token = u /\ txn[u].st \in {"append", "wait"}
          /\ txn'[u].st = txn[u].st /\ txn'[u].pos = txn[u].pos /\ txn'[u].decision = "commit"
      BY <2>11 DEF Told
    <3>2. /\ last_processed' = tp.pos /\ phase' = phase /\ phase # "closed" /\ tp.pc = "publish"
      BY <2>11 DEF TPPublish
    <3>3. tp.pos \in IntentionPositions
      BY <3>2 DEF GoodNextRoot, GoodTree, IntentionPositions
    <3>4. txn[u].pos = tp.pos
      BY <3>1, <3>3 DEF ViewInv, Tokens
    <3>5. txn[u].pos <= last_processed'
      BY <2>0, <3>2, <3>4
    <3>6. QED  BY <2>0, <2>1, <3>1, <3>2, <3>5 DEF ClientView
  <2>12. CASE TPAbort /\ Told(u, Min(Pending), "abort")
    <3>1. /\ txn[u].st \in {"append", "wait"}
          /\ txn'[u].st = txn[u].st /\ txn'[u].pos = txn[u].pos /\ txn'[u].decision = "abort"
      BY <2>12 DEF Told
    <3>2. phase' # "closed"
      BY <2>12 DEF TPAbort
    <3>3. QED  BY <2>0, <2>1, <3>1, <3>2 DEF ClientView
  <2>13. QED
    BY <1>0, <2>3, <2>4, <2>5, <2>6, <2>7, <2>8, <2>9, <2>10, <2>11, <2>12, TxnMoves
<1>3. QED  BY <1>2 DEF ClientViews

\* The conflict zone holds committed intentions from the snapshot on.
LEMMA ZoneCommitted ==
    ASSUME NEW I \in SUBSET Nat, NEW C \in SUBSET Nat,
           NEW first \in Nat, NEW last \in C, I \subseteq C,
           RangeAsserts(I, C, first, last),
           NEW q \in ConflictZone(I, C, first, last)
    PROVE  q \in C /\ first <= q
<1>1. CASE q \in range(I, first, last)
  <2>1. CASE I = {}
    BY <1>1, <2>1 DEF range, RangeAsserts
  <2>2. CASE I # {}
    BY <1>1, <2>2 DEF range
  <2>3. QED  BY <2>1, <2>2
<1>2. CASE q \in Unknown(I, C, first, last)
  BY <1>2 DEF Unknown
<1>3. QED  BY <1>1, <1>2 DEF ConflictZone

\* What an aborted transaction met stays in the root.
LEMMA JustifiedStep ==
    ASSUME IInv, ViewInv, [Next]_vars
    PROVE  AbortsAreJustified'
<1> USE DEF IInv
<1>0. TypeOK /\ log \in Seq(Entry) /\ Len(log) \in Nat /\ DOMAIN log = 1..Len(log)
  BY DEF TypeOK
<1>1. ASSUME NEW p \in DOMAIN log, phase # "closed", ~Lost, Justified(p)
      PROVE  Justified(p)'
  <2>1. PICK q \in root.catalog :
           /\ log[p].snapshot <= q /\ q < p
           /\ OpKeys(log[p].ops) \cap UpdateOpKeys(log[q].ops) # {}
    BY <1>1 DEF Justified
  <2>2. q \in DOMAIN log
    BY <1>1, <2>1 DEF GoodRoot, GoodTree
  <2>3. log'[p] = log[p] /\ log'[q] = log[q] /\ q \in root'.catalog
    BY <1>1, <2>1, <2>2, LogGrows, RootGrows
  <2>4. QED  BY <2>1, <2>3 DEF Justified
<1>2. ASSUME NEW u \in Txns, txn'[u].decision = "abort"
      PROVE  Justified(txn[u].pos)'
  <2>0. ClientView(u)
    BY DEF ViewInv, ClientViews
  <2>1. ASSUME txn[u].decision = "abort", txn'[u].pos = txn[u].pos, ~Lost
        PROVE  Justified(txn[u].pos)'
    <3>1. Justified(txn[u].pos) /\ txn[u].pos \in DOMAIN log /\ phase # "closed"
      BY <2>0, <2>1 DEF ViewInv, AbortsAreJustified, ClientView, IntentionPositions
    <3>2. PICK p \in DOMAIN log : p = txn[u].pos
      BY <3>1
    <3>3. Justified(p)'
      BY <1>1, <2>1, <3>1, <3>2
    <3>4. QED  BY <2>1, <3>2, <3>3 DEF Justified
  <2>2. CASE txn'[u] = txn[u]
    <3>1. ~Lost
      <4>1. txn[u].st \in {"append", "wait"}
        BY <1>2, <2>0, <2>2 DEF ClientView
      <4>2. QED  BY <2>2, <4>1 DEF Lost, LoseInstance, IdleTxn
    <3>2. QED  BY <1>2, <2>1, <2>2, <3>1
  <2>3. CASE Begins(u) \/ Records(u) \/ Appends(u)
    BY <1>2, <2>0, <2>3 DEF Begins, Records, Appends, ClientView
  <2>4. CASE Inserts(u)
    <3>1. phase' = phase /\ phase # "closed"
      BY <1>2, <2>0, <2>4 DEF Inserts, ClientView
    <3>2. ~Lost
      BY <3>1 DEF Lost, LoseInstance
    <3>3. QED  BY <1>2, <2>1, <2>4, <3>2 DEF Inserts
  <2>5. CASE EndsReadOnly(u) \/ Returns(u) \/ Forgets(u)
    BY <1>2, <2>5 DEF EndsReadOnly, Returns, Forgets
  <2>6. CASE TPPublish /\ Told(u, tp.pos, "commit")
    BY <1>2, <2>6 DEF Told
  <2>7. CASE TPAbort /\ Told(u, Min(Pending), "abort")
    <3> DEFINE p == Min(Pending)
    <3>1. /\ Pending # {} /\ phase # "closed" /\ tp.pc = "next" /\ ~Serial(p)
          /\ RangeAsserts(index, root.catalog, log[p].snapshot, root_snapshot)
          /\ Conflicts(p) /\ UNCHANGED <<log, root>>
      BY <2>7 DEF TPAbort
    <3>2. /\ p \in IntentionPositions /\ p \in DOMAIN log /\ p \in Nat /\ iter <= p
          /\ log[p].snapshot \in Nat
      BY <3>1, PendingFacts
    <3>3. log[p].token = u /\ txn'[u].pos = txn[u].pos
      BY <2>7 DEF Told
    <3> HIDE DEF p
    <3>4. txn[u].pos = p
      BY <3>2, <3>3 DEF ViewInv, Tokens
    <3>5. /\ root_snapshot \in root.catalog /\ root_snapshot < iter /\ iter \in Nat
          /\ \A c \in root.catalog : c <= root_snapshot
          /\ root.catalog \in SUBSET Nat /\ index \in SUBSET Nat /\ index \subseteq root.catalog
      BY <3>1 DEF GoodRoot, GoodTree, GoodIndex, Catalog, TypeOK, Tree
    <3>6. PICK z \in ConflictZone(index, root.catalog, log[p].snapshot, root_snapshot) :
             OpKeys(log[p].ops) \cap UpdateOpKeys(log[z].ops) # {}
      BY <3>1 DEF Conflicts
    <3>7. z \in root.catalog /\ log[p].snapshot <= z
      BY <3>1, <3>2, <3>5, ZoneCommitted
    <3>8. z < p
      BY <3>2, <3>5, <3>7
    <3>9. QED  BY <3>1, <3>3, <3>4, <3>6, <3>7, <3>8 DEF Justified
  <2>8. QED  BY <1>0, <2>2, <2>3, <2>4, <2>5, <2>6, <2>7, TxnMoves
<1>3. QED  BY <1>2 DEF AbortsAreJustified

\* Tokens, the processor's position and the clients' view of it in every
\* reachable state.
THEOREM ViewInvariance == Spec => [](IInv /\ ViewInv)
<1>1. Init => ViewInv
  <2>1. SUFFICES ASSUME Init PROVE ViewInv
    OBVIOUS
  <2>2. PICK c, a : log = <<c, a>> /\ c.token = NoToken /\ a.type = "afterimage"
    BY <2>1 DEF Init, CreatedLog, IntentionEntry, AfterImageEntry
  <2>3. \A p \in IntentionPositions : log[p].token = NoToken /\ p = 1
    BY <2>2 DEF IntentionPositions
  <2>4. QED
    BY <2>1, <2>3, NoTokenAssumption
       DEF Init, ViewInv, Tokens, Snapshots, Frontier, ClientViews, ClientView, IdleTxn, AbortsAreJustified
<1>2. ASSUME IInv, ViewInv, [Next]_vars
      PROVE  ViewInv'
  BY <1>2, TokensStep, SnapshotsStep, FrontierStep, ClientViewsStep, JustifiedStep DEF ViewInv
<1>3. QED  BY <1>1, <1>2, Invariance, PTL DEF Spec

\* Every abort is justified by a committed intention that updated a key the
\* aborted one recorded, at or after its snapshot: there are no false aborts from
\* an index that has dropped positions, for any limit of the index, and none
\* reaches a transaction other than the one whose intention was decided.
THEOREM NoUnjustifiedAbort == Spec => []AbortsAreJustified
<1>1. ViewInv => AbortsAreJustified
  BY DEF ViewInv
<1>2. QED  BY <1>1, ViewInvariance, PTL

-----------------------------------------------------------------------------
(* Replays decide as the first time. *)

\* Of a set that has decided all up to u, what is appended to the log after u
\* says nothing.
LEMMA FaithfulExtends ==
    ASSUME NEW l, NEW m, NEW C, NEW u, Faithful(l, C, u),
           \A p \in DOMAIN l : p \in DOMAIN m /\ m[p] = l[p],
           \A p \in DOMAIN m : p <= u => p \in DOMAIN l
    PROVE  Faithful(m, C, u)
<1>1. \A c \in C : c \in DOMAIN m /\ m[c].type = "intention"
  BY DEF Faithful
<1>2. ASSUME NEW p \in DOMAIN m, m[p].type = "intention", p <= u
      PROVE  p \in C <=> \A q \in C : ZoneFree(m, p, q)
  <2>1. p \in DOMAIN l /\ m[p] = l[p]
    BY <1>2
  <2>2. \A q \in C : m[q] = l[q]
    BY DEF Faithful
  <2>3. \A q \in C : ZoneFree(m, p, q) <=> ZoneFree(l, p, q)
    BY <2>1, <2>2 DEF ZoneFree
  <2>4. p \in C <=> \A q \in C : ZoneFree(l, p, q)
    BY <1>2, <2>1 DEF Faithful
  <2>5. QED  BY <2>3, <2>4
<1>3. QED  BY <1>1, <1>2 DEF Faithful

\* The decisions follow from the log: two sets that have decided all up to u
\* agree up to u.
LEMMA FaithfulAgree ==
    ASSUME NEW l, NEW C, NEW D, NEW u \in Nat, DOMAIN l \in SUBSET Nat,
           Faithful(l, C, u), Faithful(l, D, u),
           NEW p \in DOMAIN l, l[p].type = "intention", p <= u
    PROVE  p \in C <=> p \in D
<1> DEFINE S == {r \in DOMAIN l : /\ l[r].type = "intention" /\ r <= u
                                  /\ ~(r \in C <=> r \in D)}
<1>1. SUFFICES ASSUME S # {} PROVE FALSE
  OBVIOUS
<1>2. S \in SUBSET Nat
  OBVIOUS
<1>3. PICK r \in S : \A y \in S : r <= y
  BY <1>1, <1>2, MinOfNats
<1>4. r \in DOMAIN l /\ r \in Nat /\ r <= u /\ l[r].type = "intention" /\ ~(r \in C <=> r \in D)
  BY <1>2, <1>3
<1>5. ASSUME NEW q \in DOMAIN l, l[q].type = "intention", q < r
      PROVE  q \in C <=> q \in D
  <2>1. q \in Nat /\ ~(r <= q) /\ q <= u
    BY <1>4, <1>5
  <2>2. q \notin S
    BY <1>3, <2>1
  <2>3. QED  BY <1>5, <2>1, <2>2
<1>6. \A q \in C : q \in DOMAIN l /\ l[q].type = "intention"
  BY DEF Faithful
<1>7. \A q \in D : q \in DOMAIN l /\ l[q].type = "intention"
  BY DEF Faithful
<1>8. (\A q \in C : ZoneFree(l, r, q)) <=> (\A q \in D : ZoneFree(l, r, q))
  BY <1>5, <1>6, <1>7 DEF ZoneFree
<1>9. r \in C <=> \A q \in C : ZoneFree(l, r, q)
  BY <1>4 DEF Faithful
<1>10. r \in D <=> \A q \in D : ZoneFree(l, r, q)
  BY <1>4 DEF Faithful
<1>11. QED  BY <1>4, <1>8, <1>9, <1>10

\* A set that has decided all up to u has decided all up to p <= u.
LEMMA FaithfulBelow ==
    ASSUME NEW l, NEW C, NEW u \in Nat, NEW p \in Nat, p <= u, Faithful(l, C, u),
           DOMAIN l \in SUBSET Nat
    PROVE  Faithful(l, C, p)
<1>1. \A r \in DOMAIN l : r <= p => r <= u
  OBVIOUS
<1>2. QED  BY <1>1 DEF Faithful

\* Every set that has decided all up to u holds the intentions up to u that a
\* replay commits, and none that it aborts.
LEMMA OutcomeIs ==
    ASSUME NEW l, NEW D, NEW u \in Nat, DOMAIN l \in SUBSET Nat, Faithful(l, D, u),
           NEW p \in DOMAIN l, l[p].type = "intention", p <= u
    PROVE  /\ Commits(l, p) => p \in D
           /\ Aborts(l, p) => p \notin D
<1>1. Faithful(l, D, p) /\ p \in Nat /\ p <= p
  BY FaithfulBelow
<1>2. \A C : Faithful(l, C, p) => (p \in C <=> p \in D)
  BY <1>1, FaithfulAgree
<1>3. QED  BY <1>2 DEF Commits, Aborts

\* What a replay does with an intention of the log does not change.
LEMMA OutcomeStep ==
    ASSUME IInv, [Next]_vars, NEW p \in DOMAIN log
    PROVE  /\ Commits(log, p) => Commits(log', p)
           /\ Aborts(log, p) => Aborts(log', p)
<1>0. log \in Seq(Entry) /\ Len(log) \in Nat /\ DOMAIN log = 1..Len(log)
  BY DEF IInv, TypeOK
<1>1. \A q \in DOMAIN log : q \in DOMAIN log' /\ log'[q] = log[q]
  BY LogGrows
<1>2. \A q \in DOMAIN log' : q <= p => q \in DOMAIN log
  BY <1>0, LogGrows
<1>3. \A C : Faithful(log, C, p) => Faithful(log', C, p)
  BY <1>1, <1>2, FaithfulExtends
<1>4. \A C \in SUBSET DOMAIN log : C \in SUBSET DOMAIN log'
  BY <1>1
<1>5. QED  BY <1>3, <1>4 DEF Commits, Aborts

\* A step makes no self-conflict go away.
LEMMA SelfConflictStays ==
    ASSUME IInv, ViewInv, [Next]_vars, NoSelfConflict'
    PROVE  NoSelfConflict
<1>1. ASSUME NEW p \in IntentionPositions, p # 1, ~log[p].flush
      PROVE  OpKeys(log[p].ops) \cap UpdateOpKeys(log[log[p].snapshot].ops) = {}
  <2>1. p \in IntentionPositions' /\ log'[p] = log[p]
    BY LogGrows DEF IntentionPositions
  <2>2. log[p].snapshot \in DOMAIN log
    BY <1>1 DEF ViewInv, Snapshots
  <2>3. log'[log[p].snapshot] = log[log[p].snapshot]
    BY <2>2, LogGrows
  <2>4. QED  BY <1>1, <2>1, <2>3 DEF NoSelfConflict
<1>2. QED  BY <1>1 DEF NoSelfConflict

\* The next intention comes right after those that were passed.
LEMMA NothingSkipped ==
    ASSUME TypeOK, Pending # {}, NEW r \in IntentionPositions, r <= Min(Pending)
    PROVE  r <= iter - 1 \/ r = Min(Pending)
<1>1. Pending \in SUBSET Nat /\ r \in Nat /\ iter \in Nat
  BY DEF Pending, IntentionPositions, TypeOK
<1>2. \A y \in Pending : Min(Pending) <= y
  BY <1>1, MinOfNats
<1>3. Min(Pending) \in Nat
  BY PendingFacts
<1>4. r \in Pending \/ r < iter
  BY <1>1 DEF Pending
<1>5. QED  BY <1>1, <1>2, <1>3, <1>4

\* The decision to commit is that of a replay.
LEMMA CommitDecides ==
    ASSUME IInv, TPCommit, DecidedTrees
    PROVE  Faithful(log, root.catalog \cup {Min(Pending)}, Min(Pending))
<1> USE DEF IInv
<1> DEFINE p == Min(Pending)
           D == root.catalog \cup {p}
<1>1. /\ p \in Nat /\ p \in DOMAIN log /\ p \in IntentionPositions /\ iter <= p
      /\ log[p].type = "intention" /\ Pending # {}
  BY PendingFacts DEF TPCommit
<1>2. /\ phase # "closed" /\ root_snapshot \in Nat /\ root_snapshot < p
      /\ NextRoot(p).catalog = D /\ GoodTree(log, p, NextRoot(p))
  BY CommitFacts
<1>3. Faithful(log, root.catalog, iter - 1)
  BY <1>2 DEF DecidedTrees, Catalog, TPCommit
<1>4. /\ DOMAIN log \in SUBSET Nat /\ iter \in Nat
      /\ \A c \in root.catalog : c \in Nat /\ c < p
  BY <1>1, <1>2 DEF TypeOK, GoodRoot, GoodTree
<1>5. \A r \in DOMAIN log : (log[r].type = "intention" /\ r <= p) => r <= iter - 1 \/ r = p
  BY <1>1, NothingSkipped DEF IntentionPositions
<1> HIDE DEF p
<1>6. \A c \in D : c \in DOMAIN log /\ log[c].type = "intention"
  BY <1>2 DEF GoodTree
<1>7. ASSUME NEW r \in DOMAIN log, log[r].type = "intention", r <= p
      PROVE  r \in D <=> \A q \in D : ZoneFree(log, r, q)
  <2>1. CASE r = p
    <3>1. p \in D
      OBVIOUS
    <3>2. \A q \in D : ZoneFree(log, p, q)
      BY <1>2, <3>1 DEF GoodTree
    <3>3. QED  BY <2>1, <3>1, <3>2
  <2>2. CASE r <= iter - 1
    <3>1. r < p /\ ~(p < r) /\ r # p
      BY <1>1, <1>4, <1>7, <2>2
    <3>2. ZoneFree(log, r, p)
      BY <3>1 DEF ZoneFree
    <3>3. r \in root.catalog <=> \A q \in root.catalog : ZoneFree(log, r, q)
      BY <1>3, <1>7, <2>2 DEF Faithful
    <3>4. QED  BY <3>1, <3>2, <3>3
  <2>3. QED  BY <1>5, <1>7, <2>1, <2>2
<1>8. Faithful(log, D, p)
  BY <1>6, <1>7 DEF Faithful
<1>9. QED  BY <1>8 DEF p

\* The decision to abort is that of a replay, when the intention does not meet
\* the keys of its own snapshot, which the index may count into its zone.
LEMMA AbortDecides ==
    ASSUME IInv, TPAbort, DecidedTrees, NoSelfConflict
    PROVE  /\ Faithful(log, root.catalog, Min(Pending))
           /\ Min(Pending) \notin root.catalog
<1> USE DEF IInv
<1> DEFINE p == Min(Pending)
<1>1. /\ p \in Nat /\ p \in DOMAIN log /\ p \in IntentionPositions /\ iter <= p
      /\ log[p].type = "intention" /\ Pending # {} /\ log[p].snapshot \in Nat
  BY PendingFacts DEF TPAbort
<1>2. /\ phase # "closed" /\ tp.pc = "next" /\ ~Serial(p) /\ Conflicts(p)
      /\ RangeAsserts(index, root.catalog, log[p].snapshot, root_snapshot)
  BY DEF TPAbort
<1>3. Faithful(log, root.catalog, iter - 1)
  BY <1>2 DEF DecidedTrees, Catalog
<1>4. /\ DOMAIN log \in SUBSET Nat /\ iter \in Nat /\ root_snapshot \in Nat
      /\ root_snapshot \in root.catalog /\ root_snapshot < p
      /\ root.catalog \in SUBSET Nat /\ index \in SUBSET Nat /\ index \subseteq root.catalog
      /\ \A c \in root.catalog : c < p
      /\ \A c \in root.catalog : c \in DOMAIN log /\ log[c].type = "intention"
  <2>1. /\ root_snapshot \in root.catalog /\ root_snapshot < iter /\ iter \in Nat
        /\ root.catalog \in SUBSET Nat /\ index \in SUBSET Nat /\ index \subseteq root.catalog
        /\ \A c \in root.catalog : c <= root_snapshot /\ c \in DOMAIN log /\ log[c].type = "intention"
    BY <1>2 DEF GoodRoot, GoodTree, GoodIndex, Catalog, TypeOK, Tree
  <2>2. DOMAIN log \in SUBSET Nat /\ root_snapshot \in Nat
    BY DEF TypeOK
  <2>3. QED  BY <1>1, <2>1, <2>2
<1>5. \A r \in DOMAIN log : (log[r].type = "intention" /\ r <= p) => r <= iter - 1 \/ r = p
  BY <1>1, NothingSkipped DEF IntentionPositions
<1> HIDE DEF p
<1>6. p \notin root.catalog
  BY <1>1, <1>4
<1>7. PICK z \in ConflictZone(index, root.catalog, log[p].snapshot, root_snapshot) :
         OpKeys(log[p].ops) \cap UpdateOpKeys(log[z].ops) # {}
  BY <1>2 DEF Conflicts
<1>8. z \in root.catalog /\ log[p].snapshot <= z
  BY <1>1, <1>2, <1>4, <1>7, ZoneCommitted
<1>9. ~ZoneFree(log, p, z)
  <2>1. ~log[p].flush /\ p # 1
    <3>1. 1 <= root_snapshot
      BY <1>4 DEF TypeOK
    <3>2. QED  BY <1>1, <1>2, <1>4, <3>1 DEF Serial
  <2>2. log[p].snapshot # z
    BY <1>1, <1>7, <2>1 DEF NoSelfConflict
  <2>3. z \in Nat /\ z < p
    BY <1>4, <1>8
  <2>4. log[p].snapshot < z
    BY <1>1, <1>8, <2>2, <2>3
  <2>5. QED  BY <1>7, <2>1, <2>3, <2>4 DEF ZoneFree
<1>10. ASSUME NEW r \in DOMAIN log, log[r].type = "intention", r <= p
       PROVE  r \in root.catalog <=> \A q \in root.catalog : ZoneFree(log, r, q)
  <2>1. CASE r = p
    BY <1>6, <1>8, <1>9, <2>1
  <2>2. CASE r <= iter - 1
    BY <1>3, <1>10, <2>2 DEF Faithful
  <2>3. QED  BY <1>5, <1>10, <2>1, <2>2
<1>11. Faithful(log, root.catalog, p)
  BY <1>4, <1>10 DEF Faithful
<1>12. QED  BY <1>6, <1>11 DEF p

\* Every published tree, and what the processor has decided, after every step.
LEMMA DecidedTreesStep ==
    ASSUME IInv, ViewInv, [Next]_vars, DecidedTrees, NoSelfConflict
    PROVE  DecidedTrees'
<1> USE DEF IInv
<1>0. /\ log \in Seq(Entry) /\ Len(log) \in Nat /\ DOMAIN log = 1..Len(log)
      /\ iter \in Nat
  BY DEF TypeOK
<1>1. ASSUME NEW C, NEW u \in DOMAIN log, Faithful(log, C, u)
      PROVE  Faithful(log', C, u)
  <2>1. \A q \in DOMAIN log : q \in DOMAIN log' /\ log'[q] = log[q]
    BY LogGrows
  <2>2. \A q \in DOMAIN log' : q <= u => q \in DOMAIN log
    BY <1>0, LogGrows
  <2>3. QED  BY <1>1, <2>1, <2>2, FaithfulExtends
<1>2. ASSUME NEW x \in Published'
      PROVE  Faithful(log', x.tree.catalog, x.pos)
  <2>1. CASE x \in Published
    <3>1. x.pos \in DOMAIN log
      BY <2>1, PublishedGood DEF GoodTree
    <3>2. QED  BY <1>1, <2>1, <3>1 DEF DecidedTrees
  <2>2. CASE TPCommit /\ x = [pos |-> Min(Pending), tree |-> NextRoot(Min(Pending))]
    <3>1. log' = log
      BY <2>2 DEF TPCommit
    <3>2. NextRoot(Min(Pending)).catalog = root.catalog \cup {Min(Pending)}
      BY <2>2, CommitFacts
    <3>3. QED  BY <2>2, <3>1, <3>2, CommitDecides
  <2>3. QED  BY <2>1, <2>2, PublishedStep
<1>3. ASSUME phase' # "closed"
      PROVE  Faithful(log', Catalog', iter' - 1)
  <2>1. ~Lost
    BY <1>3 DEF Lost, LoseInstance
  <2>2. CASE Open
    <3>1. PICK a \in DOMAIN log :
             /\ log[a].type = "afterimage" /\ log[a].intention = RestorePoint
             /\ RestoreTree = log[a].tree
      BY RestoreFacts
    <3>2. [pos |-> log[a].intention, tree |-> log[a].tree] \in Published
      BY <3>1 DEF Published
    <3>3. Faithful(log, RestoreTree.catalog, RestorePoint)
      BY <3>1, <3>2 DEF DecidedTrees
    <3>4. RestorePoint \in DOMAIN log /\ RestorePoint \in Nat
      BY RestoreFacts DEF IntentionPositions
    <3>5. phase = "closed" /\ tp' = tp /\ root' = RestoreTree /\ iter' = RestorePoint + 1
      BY <2>2 DEF Open, ReplayStart
    <3>6. Catalog' = RestoreTree.catalog
      BY <3>5 DEF Catalog, Closed, IdleTP
    <3>7. iter' - 1 = RestorePoint
      BY <3>4, <3>5
    <3>8. QED  BY <1>1, <3>3, <3>4, <3>6, <3>7
  <2>3. CASE TPCommit
    <3>1. /\ NextRoot(Min(Pending)).catalog = root.catalog \cup {Min(Pending)}
          /\ tp' = [pc |-> "publish", pos |-> Min(Pending), tree |-> NextRoot(Min(Pending))]
          /\ iter' = Min(Pending) + 1 /\ Min(Pending) \in Nat /\ log' = log
      BY <2>3, CommitFacts
    <3>2. Catalog' = root.catalog \cup {Min(Pending)} /\ iter' - 1 = Min(Pending)
      BY <3>1 DEF Catalog
    <3>3. QED  BY <2>3, <3>1, <3>2, CommitDecides
  <2>4. CASE TPAbort
    <3>1. /\ iter' = Min(Pending) + 1 /\ Pending # {} /\ tp.pc = "next"
          /\ UNCHANGED <<log, tp, root>>
      BY <2>4 DEF TPAbort
    <3>2. Min(Pending) \in Nat
      BY <3>1, PendingFacts
    <3>3. Catalog' = root.catalog /\ iter' - 1 = Min(Pending)
      BY <3>1, <3>2 DEF Catalog
    <3>4. QED  BY <2>4, <3>1, <3>3, AbortDecides
  <2>5. CASE ~Open /\ ~TPCommit /\ ~TPAbort
    <3>1. phase # "closed" /\ iter' = iter
      BY <1>3, <2>1, <2>5, Frame DEF OpenReturns
    <3>2. Catalog' = Catalog
      <4>1. CASE TPPublish
        BY <4>1 DEF TPPublish, IdleTP, Catalog
      <4>2. CASE ~TPPublish
        <5>1. UNCHANGED <<root, tp>>
          BY <2>1, <2>5, <4>2, Frame
        <5>2. QED  BY <5>1 DEF Catalog
      <4>3. QED  BY <4>1, <4>2
    <3>3. Faithful(log, Catalog, iter - 1) /\ iter - 1 \in DOMAIN log
      BY <3>1 DEF DecidedTrees, ViewInv, Frontier
    <3>4. QED  BY <1>1, <3>1, <3>2, <3>3
  <2>6. QED  BY <2>2, <2>3, <2>4, <2>5
<1>4. QED  BY <1>2, <1>3 DEF DecidedTrees

\* A committed position of the current root is one that a replay commits.
LEMMA RootCommits ==
    ASSUME IInv, DecidedTrees, phase # "closed", NEW s \in root.catalog
    PROVE  s \in DOMAIN log /\ Commits(log, s)
<1>1. /\ GoodTree(log, root_snapshot, root) /\ root_snapshot \in Nat
      /\ DOMAIN log \in SUBSET Nat
  BY DEF IInv, GoodRoot, TypeOK
<1>2. s \in Nat /\ s <= root_snapshot /\ s \in DOMAIN log /\ root.catalog \in SUBSET DOMAIN log
  BY <1>1 DEF GoodTree
<1>3. [pos |-> root_snapshot, tree |-> root] \in Published
  BY DEF Published
<1>4. Faithful(log, root.catalog, root_snapshot)
  BY <1>3 DEF DecidedTrees
<1>5. Faithful(log, root.catalog, s)
  BY <1>1, <1>2, <1>4, FaithfulBelow
<1>6. QED  BY <1>2, <1>5 DEF Commits

\* Snapshots are committed in every replay, after every step.
LEMMA DecidedSnapshotsStep ==
    ASSUME IInv, ViewInv, [Next]_vars, DecidedTrees, DecidedSnapshots
    PROVE  DecidedSnapshots'
<1>1. ASSUME NEW p \in IntentionPositions', p # 1, ~log'[p].flush
      PROVE  Commits(log', log'[p].snapshot)
  <2>1. CASE p \in DOMAIN log
    <3>1. p \in IntentionPositions /\ log'[p] = log[p]
      BY <2>1, LogGrows DEF IntentionPositions
    <3>2. log[p].snapshot \in DOMAIN log
      BY <1>1, <3>1 DEF ViewInv, Snapshots
    <3>3. Commits(log, log[p].snapshot)
      BY <1>1, <3>1 DEF DecidedSnapshots
    <3>4. QED  BY <3>1, <3>2, <3>3, OutcomeStep
  <2>2. CASE p \notin DOMAIN log
    <3>1. PICK t \in Txns : CommitAppend(t) /\ log'[p].snapshot = txn[t].snapshot
      BY <1>1, <2>2, NewIntention
    <3>2. txn[t].st = "active"
      BY <3>1 DEF CommitAppend
    <3>3. txn[t].snapshot \in root.catalog /\ phase # "closed"
      BY <3>2 DEF ViewInv, ClientViews, ClientView, IInv, GoodTxns, GoodTxn
    <3>4. txn[t].snapshot \in DOMAIN log /\ Commits(log, txn[t].snapshot)
      BY <3>3, RootCommits
    <3>5. QED  BY <3>1, <3>4, OutcomeStep
  <2>3. QED  BY <2>1, <2>2
<1>2. QED  BY <1>1 DEF DecidedSnapshots

\* Clients are told what a replay decides, after every step.
LEMMA DecidedTxnsStep ==
    ASSUME IInv, ViewInv, [Next]_vars, DecidedTrees, DecidedTxns, NoSelfConflict
    PROVE  DecidedTxns'
<1> USE DEF IInv
<1>0. TypeOK
  OBVIOUS
<1>1. ASSUME NEW u \in Txns
      PROVE  /\ (txn'[u].decision = "commit" \/ txn'[u].st = "committed") => Commits(log', txn'[u].pos)
             /\ (txn'[u].decision = "abort" \/ txn'[u].st = "aborted") => Aborts(log', txn'[u].pos)
  <2>0. ClientView(u) /\ txn[u].decision \in {"none", "commit", "abort"}
    BY DEF ViewInv, ClientViews, TypeOK, TxnState
  <2>1. ASSUME txn'[u].pos = txn[u].pos,
               (txn'[u].decision = "commit" \/ txn'[u].st = "committed") =>
                   (txn[u].decision = "commit" \/ txn[u].st = "committed"),
               (txn'[u].decision = "abort" \/ txn'[u].st = "aborted") =>
                   (txn[u].decision = "abort" \/ txn[u].st = "aborted")
        PROVE  /\ (txn'[u].decision = "commit" \/ txn'[u].st = "committed") => Commits(log', txn'[u].pos)
               /\ (txn'[u].decision = "abort" \/ txn'[u].st = "aborted") => Aborts(log', txn'[u].pos)
    <3>1. (txn[u].decision # "none" \/ txn[u].st \in {"committed", "aborted"}) =>
             txn[u].pos \in DOMAIN log
      BY <2>0 DEF ClientView, IntentionPositions
    <3>2. /\ (txn[u].decision = "commit" \/ txn[u].st = "committed") => Commits(log, txn[u].pos)
          /\ (txn[u].decision = "abort" \/ txn[u].st = "aborted") => Aborts(log, txn[u].pos)
      BY DEF DecidedTxns
    <3>3. QED  BY <2>1, <3>1, <3>2, OutcomeStep
  <2>2. CASE txn'[u] = txn[u]
    BY <2>1, <2>2
  <2>3. CASE Begins(u) \/ Records(u) \/ Inserts(u)
    BY <2>1, <2>3 DEF Begins, Records, Inserts
  <2>4. CASE EndsReadOnly(u) \/ Forgets(u)
    BY <2>4 DEF EndsReadOnly, Forgets
  <2>5. CASE Appends(u)
    BY <2>0, <2>5 DEF Appends, ClientView
  <2>6. CASE Returns(u)
    BY <2>0, <2>1, <2>6 DEF Returns
  <2>7. CASE TPPublish /\ Told(u, tp.pos, "commit")
    <3>1. /\ log[tp.pos].token = u /\ txn[u].st \in {"append", "wait"}
          /\ txn'[u].st = txn[u].st /\ txn'[u].pos = txn[u].pos /\ txn'[u].decision = "commit"
      BY <2>7 DEF Told
    <3>2. tp.pc = "publish" /\ log' = log
      BY <2>7 DEF TPPublish
    <3>3. /\ GoodTree(log, tp.pos, tp.tree) /\ tp.pos \in DOMAIN log
          /\ tp.pos \in IntentionPositions /\ tp.pos \in tp.tree.catalog
          /\ tp.tree.catalog \in SUBSET DOMAIN log
      BY <3>2 DEF GoodNextRoot, GoodTree, IntentionPositions
    <3>4. txn[u].pos = tp.pos
      BY <3>1, <3>3 DEF ViewInv, Tokens
    <3>5. [pos |-> tp.pos, tree |-> tp.tree] \in Published
      BY <3>2 DEF Published
    <3>6. Faithful(log, tp.tree.catalog, tp.pos)
      BY <3>5 DEF DecidedTrees
    <3>7. Commits(log, tp.pos)
      BY <3>3, <3>6 DEF Commits
    <3>8. QED  BY <3>1, <3>2, <3>4, <3>7
  <2>8. CASE TPAbort /\ Told(u, Min(Pending), "abort")
    <3>1. /\ log[Min(Pending)].token = u /\ txn[u].st \in {"append", "wait"}
          /\ txn'[u].st = txn[u].st /\ txn'[u].pos = txn[u].pos /\ txn'[u].decision = "abort"
      BY <2>8 DEF Told
    <3>2. Pending # {} /\ log' = log /\ phase # "closed"
      BY <2>8 DEF TPAbort
    <3>3. Min(Pending) \in IntentionPositions
      BY <3>2, PendingFacts
    <3>4. txn[u].pos = Min(Pending)
      BY <3>1, <3>3 DEF ViewInv, Tokens
    <3>5. root.catalog \in SUBSET DOMAIN log
      BY <3>2 DEF GoodRoot, GoodTree
    <3>6. Aborts(log, Min(Pending))
      BY <2>8, <3>5, AbortDecides DEF Aborts
    <3>7. QED  BY <3>1, <3>2, <3>4, <3>6
  <2>9. QED  BY <1>0, <2>2, <2>3, <2>4, <2>5, <2>6, <2>7, <2>8, TxnMoves
<1>2. QED  BY <1>1 DEF DecidedTxns

\* All that was decided, in any instance, follows from the log, in every
\* reachable state.
THEOREM DecisionInvariance == Spec => [](IInv /\ ViewInv /\ Determined)
<1>1. Init => Determined
  <2>1. SUFFICES ASSUME Init PROVE DecidedTrees /\ DecidedSnapshots /\ DecidedTxns
    BY DEF Determined
  <2>2. PICK c, a : /\ log = <<c, a>> /\ c.type = "intention" /\ a.type = "afterimage"
                    /\ a.intention = 1 /\ a.tree.catalog = {1}
    BY <2>1 DEF Init, CreatedLog, IntentionEntry, AfterImageEntry
  <2>3. DOMAIN log = 1..2 /\ log[1] = c /\ log[2] = a
    BY <2>2
  <2>4. Faithful(log, {1}, 1)
    BY <2>2, <2>3 DEF Faithful, ZoneFree
  <2>5. /\ phase = "closed" /\ tp.pc = "next" /\ DOMAIN lcs_trees = {}
    BY <2>1 DEF Init, IdleTP
  <2>6. ASSUME NEW x \in Published
        PROVE  x.pos = 1 /\ x.tree.catalog = {1}
    BY <2>2, <2>3, <2>5 DEF Published
  <2>7. DecidedTrees
    BY <2>4, <2>5, <2>6 DEF DecidedTrees
  <2>8. DecidedSnapshots
    BY <2>2, <2>3 DEF DecidedSnapshots, IntentionPositions
  <2>9. DecidedTxns
    BY <2>1 DEF Init, IdleTxn, DecidedTxns
  <2>10. QED  BY <2>7, <2>8, <2>9
<1>2. ASSUME IInv, ViewInv, Determined, [Next]_vars
      PROVE  Determined'
  <2>1. SUFFICES ASSUME NoSelfConflict'
                 PROVE  DecidedTrees' /\ DecidedSnapshots' /\ DecidedTxns'
    BY DEF Determined
  <2>2. NoSelfConflict
    BY <1>2, <2>1, SelfConflictStays
  <2>3. DecidedTrees /\ DecidedSnapshots /\ DecidedTxns
    BY <1>2, <2>2 DEF Determined
  <2>4. QED
    BY <1>2, <2>2, <2>3, DecidedTreesStep, DecidedSnapshotsStep, DecidedTxnsStep
<1>3. QED  BY <1>1, <1>2, ViewInvariance, PTL DEF Spec

\* What the processor has passed is decided in the current root, also while the
\* next root waits to be published.
LEMMA PassedOutcome ==
    ASSUME IInv, ViewInv, DecidedTrees, phase # "closed",
           NEW p \in IntentionPositions, p <= last_processed
    PROVE  /\ Commits(log, p) => p \in root.catalog
           /\ Aborts(log, p) => p \notin root.catalog
<1> USE DEF IInv
<1>1. /\ DOMAIN log \in SUBSET Nat /\ p \in DOMAIN log /\ log[p].type = "intention" /\ p \in Nat
      /\ iter \in Nat /\ last_processed \in Nat
      /\ tp.pc \in {"next", "publish"} /\ (tp.pc = "publish" => tp.pos \in Nat)
  BY DEF TypeOK, IntentionPositions
<1>2. /\ last_processed < iter /\ iter - 1 \in DOMAIN log
      /\ tp.pc = "publish" => last_processed < tp.pos
  BY DEF ViewInv, Frontier
<1>3. iter - 1 \in Nat /\ p <= iter - 1
  BY <1>1, <1>2
<1>4. Faithful(log, Catalog, iter - 1)
  BY DEF DecidedTrees
<1>5. /\ Commits(log, p) => p \in Catalog
      /\ Aborts(log, p) => p \notin Catalog
  BY <1>1, <1>3, <1>4, OutcomeIs
<1>6. CASE tp.pc = "next"
  BY <1>5, <1>6 DEF Catalog
<1>7. CASE tp.pc = "publish"
  <2>1. Catalog = root.catalog \cup {tp.pos}
    BY <1>7 DEF Catalog, GoodNextRoot
  <2>2. p # tp.pos
    BY <1>1, <1>2, <1>7
  <2>3. QED  BY <1>5, <2>1, <2>2
<1>8. QED  BY <1>1, <1>6, <1>7

\* Outcomes survive: what any client was told of its transaction, by this instance
\* or by one that has crashed since, is what the database holds once the
\* intention has been processed again, as long as no intention meets the keys of
\* its own snapshot.
THEOREM OutcomesSurvive == Spec => []OutcomesHoldWithoutSelfConflict
<1>1. ASSUME IInv, ViewInv, Determined
      PROVE  OutcomesHoldWithoutSelfConflict
  <2>1. SUFFICES ASSUME NoSelfConflict, phase # "closed", NEW t \in Txns,
                        txn[t].pos \in 1..last_processed
                 PROVE  /\ txn[t].st = "committed" => txn[t].pos \in root.catalog
                        /\ txn[t].st = "aborted" => txn[t].pos \notin root.catalog
    BY DEF OutcomesHoldWithoutSelfConflict, OutcomesHold
  <2>2. /\ txn[t].st = "committed" => Commits(log, txn[t].pos)
        /\ txn[t].st = "aborted" => Aborts(log, txn[t].pos)
    BY <1>1, <2>1 DEF Determined, DecidedTxns
  <2>3. txn[t].st \in {"committed", "aborted"} => txn[t].pos \in IntentionPositions
    BY <1>1 DEF ViewInv, ClientViews, ClientView
  <2>4. txn[t].pos <= last_processed
    BY <1>1, <2>1 DEF IInv, TypeOK
  <2>5. txn[t].pos \in IntentionPositions =>
           /\ Commits(log, txn[t].pos) => txn[t].pos \in root.catalog
           /\ Aborts(log, txn[t].pos) => txn[t].pos \notin root.catalog
    BY <1>1, <2>1, <2>4, PassedOutcome DEF Determined
  <2>6. QED  BY <2>2, <2>3, <2>5
<1>2. QED  BY <1>1, DecisionInvariance, PTL

\* The assertions of the conflict check hold: the snapshot of the next intention is
\* in the catalog and before the current root, after any number of crashes, as
\* long as no intention meets the keys of its own snapshot.
THEOREM ConflictCheckAsserts == Spec => []AssertsHoldWithoutSelfConflict
<1>1. ASSUME IInv, ViewInv, Determined
      PROVE  AssertsHoldWithoutSelfConflict
  <2> USE <1>1 DEF IInv
  <2> DEFINE p == Min(Pending)
  <2>1. SUFFICES ASSUME NoSelfConflict, phase # "closed", tp.pc = "next", Pending # {}, ~Serial(p)
                 PROVE  RangeAsserts(index, root.catalog, log[p].snapshot, root_snapshot)
    BY DEF AssertsHoldWithoutSelfConflict, NextIntentionAsserts
  <2>2. /\ p \in Nat /\ p \in DOMAIN log /\ p \in IntentionPositions /\ iter <= p
        /\ log[p].snapshot \in Nat /\ log[p].snapshot < p
    BY <2>1, PendingFacts DEF LogStarts
  <2>3. /\ root_snapshot \in root.catalog /\ root_snapshot < iter /\ iter \in Nat
        /\ root_snapshot \in Nat /\ 1 <= root_snapshot
        /\ \A c \in root.catalog : c <= root_snapshot
    <3>1. /\ root_snapshot \in root.catalog /\ root_snapshot < iter
          /\ \A c \in root.catalog : c <= root_snapshot /\ c \in DOMAIN log
      BY <2>1 DEF GoodRoot, GoodTree
    <3>2. iter \in Nat /\ DOMAIN log = 1..Len(log) /\ Len(log) \in Nat
      BY DEF TypeOK
    <3>3. QED  BY <3>1, <3>2
  <2>4. ~log[p].flush /\ p # 1 /\ log[p].snapshot # root_snapshot
    BY <2>1, <2>2, <2>3 DEF Serial
  <2>5. log[p].snapshot \in DOMAIN log
    BY <2>2, <2>4 DEF ViewInv, Snapshots
  <2>6. Commits(log, log[p].snapshot)
    BY <2>1, <2>2, <2>4 DEF Determined, DecidedSnapshots
  <2>7. PICK s : s = log[p].snapshot
    OBVIOUS
  <2>8. log[s].type = "intention"
    <3>1. PICK C \in SUBSET DOMAIN log : Faithful(log, C, s) /\ s \in C
      BY <2>6, <2>7 DEF Commits
    <3>2. QED  BY <3>1 DEF Faithful
  <2>9. s <= iter - 1
    <3>1. s \in IntentionPositions /\ s <= p /\ s # p
      BY <2>2, <2>5, <2>7, <2>8 DEF IntentionPositions
    <3>2. QED  BY <2>1, <3>1, NothingSkipped
  <2>10. s \in root.catalog
    <3>1. Faithful(log, root.catalog, iter - 1)
      BY <2>1 DEF Determined, DecidedTrees, Catalog
    <3>2. iter - 1 \in Nat /\ DOMAIN log \in SUBSET Nat
      BY <2>3 DEF TypeOK
    <3>3. QED  BY <2>5, <2>6, <2>7, <2>8, <2>9, <3>1, <3>2, OutcomeIs
  <2>11. s < root_snapshot
    BY <2>2, <2>3, <2>4, <2>7, <2>10
  <2>12. index # {} => root_snapshot \in index
    BY <2>1 DEF GoodIndex, Newest
  <2>13. QED  BY <2>7, <2>10, <2>11, <2>12 DEF RangeAsserts
<1>2. QED  BY <1>1, DecisionInvariance, PTL

\* A transaction reads from a snapshot that includes every commit acknowledged
\* before it began, by this instance or by one that has crashed: Open returns
\* only when the replay has passed everything that the log held.
THEOREM ReadsAckedCommits == Spec => SeesAckedCommits
<1> DEFINE Sees == \A t, u \in Txns :
                      (/\ txn[t].st = "idle" /\ txn'[t].st = "active"
                       /\ txn[u].st = "committed" /\ NoSelfConflict)
                        => txn[u].pos \in txn'[t].tree.catalog
<1>1. ASSUME IInv, ViewInv, Determined, [Next]_vars
      PROVE  [Sees]_vars
  <2> USE <1>1 DEF IInv
  <2>1. SUFFICES ASSUME NEW t \in Txns, NEW u \in Txns,
                        txn[t].st = "idle", txn'[t].st = "active",
                        txn[u].st = "committed", NoSelfConflict
                 PROVE  txn[u].pos \in txn'[t].tree.catalog
    OBVIOUS
  <2>2. Begins(t)
    BY <1>1, <2>1, TxnMoves
       DEF Records, EndsReadOnly, Appends, Inserts, Returns, Forgets, Told
  <2>3. phase = "open" /\ txn'[t].tree = root
    BY <2>2 DEF Begins, BeginTransaction
  <2>4. txn[u].pos \in IntentionPositions /\ Commits(log, txn[u].pos)
    BY <2>1 DEF ViewInv, ClientViews, ClientView, Determined, DecidedTxns
  <2>5. txn[u].pos <= last_processed
    <3>1. /\ txn[u].pos <= latest \/ txn[u].pos <= last_processed
          /\ latest <= last_processed
      BY <2>1, <2>3 DEF ViewInv, ClientViews, ClientView, Frontier
    <3>2. latest \in Nat /\ last_processed \in Nat /\ txn[u].pos \in Nat
      BY DEF TypeOK, TxnState
    <3>3. QED  BY <3>1, <3>2
  <2>6. txn[u].pos \in root.catalog
    BY <2>1, <2>3, <2>4, <2>5, PassedOutcome DEF Determined
  <2>7. QED  BY <2>3, <2>6
<1>2. [][Sees]_vars => SeesAckedCommits
  BY PTL DEF SeesAckedCommits
<1>3. QED  BY <1>1, <1>2, DecisionInvariance, PTL DEF Spec

-----------------------------------------------------------------------------
(***************************************************************************)
(* The transaction pipeline implements the serial history that clients are *)
(* promised.  Which transactions commit is a function of the log, and each *)
(* append extends it; what the processor decides later, after whichever    *)
(* crashes, agrees with it.                                                *)
(***************************************************************************)

(* C is a set of the transactions in l that commit. *)
Settled(l, C) ==
    /\ C \in SUBSET Transactions(l)
    /\ \A p \in Transactions(l) : p \in C <=> \A q \in C : ZoneFree(l, p, q)

\* A log settles which of its transactions commit in one way only, and that is
\* what Committed stands for.
LEMMA SettledOnce ==
    ASSUME NEW l, DOMAIN l \in SUBSET Nat, NEW C, Settled(l, C)
    PROVE  Committed(l) = C
<1> DEFINE D == Committed(l)
<1>1. Settled(l, D)
  BY DEF Settled, Committed
<1> DEFINE S == {p \in Transactions(l) : ~(p \in C <=> p \in D)}
<1> HIDE DEF D
<1>2. Transactions(l) \in SUBSET Nat
  BY DEF Transactions
<1>3. ASSUME S # {} PROVE FALSE
  <2>1. Min(S) \in S /\ \A y \in S : Min(S) <= y
    BY <1>2, <1>3, MinOfNats
  <2> DEFINE p == Min(S)
  <2>2. p \in Transactions(l) /\ p \in Nat /\ ~(p \in C <=> p \in D)
    BY <1>2, <2>1
  <2>3. \A q \in Transactions(l) : q < p => (q \in C <=> q \in D)
    BY <1>2, <2>1
  <2>4. \A q \in Nat : ~(q < p) => ZoneFree(l, p, q)
    BY DEF ZoneFree
  <2> HIDE DEF p, S
  <2>5. (\A q \in C : ZoneFree(l, p, q)) <=> (\A q \in D : ZoneFree(l, p, q))
    BY <1>1, <1>2, <2>3, <2>4 DEF Settled
  <2>6. QED  BY <1>1, <2>2, <2>5 DEF Settled
<1>4. QED  BY <1>1, <1>3 DEF Settled, D

(* What a flush copies, it does not update; a client that has changed        *)
(* nothing still has the contents of its snapshot; a client waits for a      *)
(* transaction.                                                              *)
Flushes ==
    \A p \in IntentionPositions :
        log[p].flush => \A i \in DOMAIN log[p].ops : log[p].ops[i].op = "COPY"

SerialTxn(t) ==
    /\ (txn[t].st = "active" /\ txn[t].readonly) => Holds(log, txn[t].tree)
    /\ txn[t].st \in {"append", "wait"} => txn[t].pos \in Transactions(log)

SerialInv ==
    /\ log[1] = IntentionEntry(0, NoToken, CreationOps)
    /\ Flushes
    /\ Settled(log, Committed(log))
    /\ \A t \in Txns : SerialTxn(t)

\* A flush updates nothing, whatever is asked.
LEMMA FlushUpdatesNothing ==
    ASSUME Flushes, NEW p \in IntentionPositions, log[p].flush
    PROVE  UpdateOpKeys(log[p].ops) = {} /\ \A pk : UpdatesTo(log[p].ops, pk) = {}
  BY DEF Flushes, UpdateOpKeys, UpdatesTo

\* What a tree has decided about the transactions up to u is what the log settles.
LEMMA SettledAgree ==
    ASSUME TypeOK, SerialInv, NEW D, NEW u \in Nat, Faithful(log, D, u),
           NEW p \in Transactions(log), p <= u
    PROVE  p \in D <=> p \in Committed(log)
<1> DEFINE C == Committed(log)
           S == {r \in Transactions(log) : r <= u /\ ~(r \in D <=> r \in C)}
<1>1. Settled(log, C) /\ Flushes
  BY DEF SerialInv
<1>2. DOMAIN log \in SUBSET Nat /\ Transactions(log) \in SUBSET Nat
  BY DEF TypeOK, Transactions
<1> HIDE DEF C
<1>3. ASSUME S # {} PROVE FALSE
  <2>1. Min(S) \in S /\ \A y \in S : Min(S) <= y
    BY <1>2, <1>3, MinOfNats
  <2> DEFINE r == Min(S)
  <2>2. r \in Transactions(log) /\ r \in Nat /\ r <= u /\ ~(r \in C <=> r \in D)
    BY <1>2, <2>1
  <2>3. \A q \in Transactions(log) : q < r => (q \in C <=> q \in D)
    BY <1>2, <2>1, <2>2
  <2>4. \A q \in Nat : ~(q < r) => ZoneFree(log, r, q)
    BY DEF ZoneFree
  <2> HIDE DEF r, S
  <2>5. \A q \in IntentionPositions : log[q].flush => ZoneFree(log, r, q)
    BY <1>1, FlushUpdatesNothing DEF ZoneFree
  <2>6. \A q \in D : q \in IntentionPositions /\ q \in Nat
    BY <1>2 DEF Faithful, IntentionPositions
  <2>7. \A q \in D : q \in Transactions(log) \/ ZoneFree(log, r, q)
    BY <2>5, <2>6 DEF Transactions, IntentionPositions
  <2>8. (\A q \in C : ZoneFree(log, r, q)) <=> (\A q \in D : ZoneFree(log, r, q))
    BY <1>1, <1>2, <2>3, <2>4, <2>6, <2>7 DEF Settled
  <2>9. r \in D <=> \A q \in D : ZoneFree(log, r, q)
    BY <2>2 DEF Faithful, Transactions
  <2>10. r \in C <=> \A q \in C : ZoneFree(log, r, q)
    BY <1>1, <2>2 DEF Settled
  <2>11. QED  BY <2>2, <2>8, <2>9, <2>10
<1>4. p \notin S
  BY <1>3
<1>5. QED  BY <1>4 DEF C

-----------------------------------------------------------------------------
(* The operators of the abstract specification are those of the detailed one. *)

\* Those that both take from Intention and FiniteSetsExt.
LEMMA SharedOperators ==
    /\ \A S : Abstract!Max(S) = Max(S)
    /\ \A ops, pk : Abstract!UpdatesTo(ops, pk) = UpdatesTo(ops, pk)
    /\ \A ops : Abstract!OpKeys(ops) = OpKeys(ops)
    /\ \A ops : Abstract!UpdateOpKeys(ops) = UpdateOpKeys(ops)
    /\ Abstract!UserKeys = UserKeys
    /\ \A kv, ops : Abstract!ReplayIntention(kv, ops) = ReplayIntention(kv, ops)
<1>1. \A S : Abstract!Max(S) = Max(S)
  BY DEF Abstract!Max, Max
<1>2. \A ops, pk : Abstract!UpdatesTo(ops, pk) = UpdatesTo(ops, pk)
  BY DEF Abstract!UpdatesTo, UpdatesTo, Abstract!UpdatedKey, UpdatedKey,
         Abstract!prefix_string, prefix_string, Abstract!PREFIX_USER, PREFIX_USER
<1>3. \A ops : Abstract!OpKeys(ops) = OpKeys(ops)
  BY DEF Abstract!OpKeys, OpKeys
<1>4. \A ops : Abstract!UpdateOpKeys(ops) = UpdateOpKeys(ops)
  BY DEF Abstract!UpdateOpKeys, UpdateOpKeys
<1>5. Abstract!UserKeys = UserKeys
  BY DEF Abstract!UserKeys, UserKeys,
         Abstract!prefix_string, prefix_string, Abstract!PREFIX_USER, PREFIX_USER
<1>6. \A kv, ops : Abstract!ReplayIntention(kv, ops) = ReplayIntention(kv, ops)
  BY <1>1, <1>2, <1>5 DEF Abstract!ReplayIntention, ReplayIntention
<1>7. QED  BY <1>1, <1>2, <1>3, <1>4, <1>5, <1>6

-----------------------------------------------------------------------------
(* The steps of the detailed specification, as the abstract one sees them. *)

(* A client records op and sees what it does to its own tree. *)
Executes(t, op) ==
    /\ UNCHANGED <<log, root, root_snapshot, phase>>
    /\ txn[t].st = "active" /\ txn'[t].st = "active"
    /\ \A u \in Txns \ {t} : txn'[u] = txn[u]
    /\ txn'[t].snapshot = txn[t].snapshot
    /\ txn'[t].tree.catalog = txn[t].tree.catalog
    /\ txn'[t].tree.kv = ReplayIntention(txn[t].tree.kv, <<op>>)
    /\ txn'[t].ops = Append(txn[t].ops, op)
    /\ txn'[t].readonly => txn[t].readonly /\ txn'[t].tree.kv = txn[t].tree.kv

\* One operation, replayed alone, does to a tree what Get, Put and Delete do.
LEMMA ReplayOne ==
    ASSUME NEW kv \in [UserKeys -> Values \cup {NoValue}], NEW k \in Keys
    PROVE  /\ kv = ReplayIntention(kv, <<GetOp(k)>>)
           /\ \A v \in Values :
                 TreePut(kv, prefix_string(PREFIX_USER, k), v) =
                   ReplayIntention(kv, <<PutOp(prefix_string(PREFIX_USER, k), v)>>)
           /\ TreeDelete(kv, PREFIX_USER, k) = ReplayIntention(kv, <<DeleteOp(k)>>)
<1>1. kv = ReplayIntention(kv, <<>>)
  <2>1. \A pk : UpdatesTo(<<>>, pk) = {}
    BY DEF UpdatesTo
  <2>2. ReplayIntention(kv, <<>>) = [pk \in UserKeys |-> kv[pk]]
    BY <2>1 DEF ReplayIntention
  <2>3. QED  BY <2>2
<1>2. PICK s \in Seq(Op) : s = <<>>
  BY ShortSeqs
<1>3. \A op : Append(s, op) = <<op>>
  BY <1>2
<1>4. /\ kv = ReplayIntention(kv, Append(s, GetOp(k)))
      /\ \A v \in Values :
            TreePut(kv, prefix_string(PREFIX_USER, k), v) =
              ReplayIntention(kv, Append(s, PutOp(prefix_string(PREFIX_USER, k), v)))
      /\ TreeDelete(kv, PREFIX_USER, k) = ReplayIntention(kv, Append(s, DeleteOp(k)))
  <2>1. kv = ReplayIntention(kv, s)
    BY <1>1, <1>2
  <2>2. QED  BY <2>1, OperationsReplay
<1>5. QED  BY <1>3, <1>4

\* What the operations of a transaction do.
LEMMA ExecutesFacts ==
    ASSUME TypeOK, NEW t \in Txns
    PROVE  /\ \A k \in Keys : /\ TxnGet(t, k) => Executes(t, GetOp(k))
                              /\ TxnDelete(t, k) => Executes(t, DeleteOp(k))
           /\ \A k \in Keys, v \in Values :
                 TxnPut(t, k, v) => Executes(t, PutOp(prefix_string(PREFIX_USER, k), v))
<1>1. txn \in [Txns -> TxnState] /\ txn[t] \in TxnState
  BY DEF TypeOK
<1>2. ASSUME NEW op, NEW kv, NEW ro, Operate(t, op, kv, ro),
             kv = ReplayIntention(txn[t].tree.kv, <<op>>),
             ro => txn[t].readonly /\ kv = txn[t].tree.kv
      PROVE  Executes(t, op)
  <2>1. /\ txn[t].st = "active" /\ UNCHANGED <<log, root, root_snapshot, phase>>
        /\ txn' = [txn EXCEPT ![t].ops = Append(@, op), ![t].tree.kv = kv, ![t].readonly = ro]
    BY <1>2 DEF Operate
  <2>2. txn[t].tree \in Tree
    BY <2>1 DEF TypeOK
  <2>3. /\ txn'[t].st = "active" /\ txn'[t].ops = Append(txn[t].ops, op)
        /\ txn'[t].snapshot = txn[t].snapshot /\ txn'[t].readonly = ro
    BY <1>1, <2>1 DEF TxnState
  <2>4. txn'[t].tree.kv = kv /\ txn'[t].tree.catalog = txn[t].tree.catalog
    BY <1>1, <2>1, <2>2 DEF TxnState, Tree
  <2>5. \A u \in Txns \ {t} : txn'[u] = txn[u]
    BY <1>1, <2>1
  <2>6. QED  BY <1>2, <2>1, <2>3, <2>4, <2>5 DEF Executes
<1>3. txn[t].st = "active" => txn[t].tree.kv \in [UserKeys -> Values \cup {NoValue}]
  BY DEF TypeOK, Tree
<1> DEFINE kv == txn[t].tree.kv
<1>4. ASSUME NEW k \in Keys
      PROVE  TxnGet(t, k) => Executes(t, GetOp(k))
  <2>1. SUFFICES ASSUME TxnGet(t, k) PROVE Executes(t, GetOp(k))
    OBVIOUS
  <2>2. Operate(t, GetOp(k), kv, txn[t].readonly)
    BY <2>1 DEF TxnGet
  <2>3. kv = ReplayIntention(kv, <<GetOp(k)>>)
    BY <1>3, <2>2, ReplayOne DEF Operate
  <2>4. QED  BY <1>2, <2>2, <2>3
<1>5. ASSUME NEW k \in Keys
      PROVE  TxnDelete(t, k) => Executes(t, DeleteOp(k))
  <2> DEFINE pkey == prefix_string(PREFIX_USER, k)
  <2>1. SUFFICES ASSUME TxnDelete(t, k) PROVE Executes(t, DeleteOp(k))
    OBVIOUS
  <2>2. Operate(t, DeleteOp(k), TreeDelete(kv, PREFIX_USER, k),
                txn[t].readonly /\ kv[pkey] = NoValue)
    BY <2>1 DEF TxnDelete
  <2>3. kv \in [UserKeys -> Values \cup {NoValue}]
    BY <1>3, <2>2 DEF Operate
  <2>4. TreeDelete(kv, PREFIX_USER, k) = ReplayIntention(kv, <<DeleteOp(k)>>)
    BY <2>3, ReplayOne
  <2>5. kv[pkey] = NoValue => TreeDelete(kv, PREFIX_USER, k) = kv
    BY <2>3 DEF TreeDelete
  <2> HIDE DEF pkey, kv
  <2>6. QED  BY <1>2, <2>2, <2>4, <2>5 DEF kv
<1>6. ASSUME NEW k \in Keys, NEW v \in Values
      PROVE  TxnPut(t, k, v) => Executes(t, PutOp(prefix_string(PREFIX_USER, k), v))
  <2> DEFINE pkey == prefix_string(PREFIX_USER, k)
  <2>1. SUFFICES ASSUME TxnPut(t, k, v) PROVE Executes(t, PutOp(pkey, v))
    OBVIOUS
  <2>2. Operate(t, PutOp(pkey, v), TreePut(kv, pkey, v), FALSE)
    BY <2>1 DEF TxnPut
  <2>3. TreePut(kv, pkey, v) = ReplayIntention(kv, <<PutOp(pkey, v)>>)
    BY <1>3, <2>2, ReplayOne DEF Operate
  <2>4. QED  BY <1>2, <2>2, <2>3
<1>7. QED  BY <1>4, <1>5, <1>6

\* The intention that a commit appends.
LEMMA Submits ==
    ASSUME IInv, NEW t \in Txns, CommitAppend(t)
    PROVE  /\ Len(log) \in Nat /\ Len(log') = Len(log) + 1
           /\ log'[Len(log) + 1].type = "intention"
           /\ ~log'[Len(log) + 1].flush
           /\ log'[Len(log) + 1].snapshot = txn[t].snapshot
           /\ log'[Len(log) + 1].ops = txn[t].ops
           /\ DOMAIN log' = DOMAIN log \cup {Len(log) + 1}
           /\ Len(log) + 1 \notin DOMAIN log
           /\ Transactions(log') = Transactions(log) \cup {Len(log) + 1}
           /\ \A p \in DOMAIN log : log'[p] = log[p]
<1> USE DEF IInv
<1> DEFINE e == IntentionEntry(txn[t].snapshot, t, txn[t].ops)
           n == Len(log) + 1
<1>1. txn[t].st = "active" /\ log' = Append(log, e)
  BY DEF CommitAppend
<1>2. txn[t] \in TxnState /\ log \in Seq(Entry) /\ Len(log) \in Nat
  BY DEF TypeOK
<1>3. ~Flush(txn[t].ops)
  BY <1>1 DEF GoodTxns, GoodTxn
<1>4. /\ e.type = "intention" /\ ~e.flush /\ e.snapshot = txn[t].snapshot
      /\ e.ops = txn[t].ops /\ e \in Entry
  BY <1>2, <1>3, EntryTypes DEF IntentionEntry, TxnState
<1> HIDE DEF e
<1>5. /\ Len(log') = n /\ DOMAIN log = 1..Len(log) /\ DOMAIN log' = 1..n
      /\ \A p \in DOMAIN log : log'[p] = log[p]
      /\ log'[n] = e
  BY <1>1, <1>2, <1>4, AppendFacts
<1>6. DOMAIN log' = DOMAIN log \cup {n} /\ n \notin DOMAIN log
  BY <1>2, <1>5
<1>7. Transactions(log') = Transactions(log) \cup {n}
  BY <1>4, <1>5, <1>6 DEF Transactions
<1>8. QED  BY <1>2, <1>4, <1>5, <1>6, <1>7

\* Nothing else adds a transaction.
LEMMA NothingSubmitted ==
    ASSUME IInv, [Next]_vars, \A t \in Txns : ~CommitAppend(t)
    PROVE  Transactions(log') = Transactions(log)
<1>1. /\ \A p \in DOMAIN log : p \in DOMAIN log' /\ log'[p] = log[p]
      /\ log' = log \/ DOMAIN log' = DOMAIN log \cup {Len(log) + 1}
  BY LogGrows
<1>2. ASSUME NEW p \in Transactions(log'), p \notin DOMAIN log
      PROVE  FALSE
  <2>1. p \in IntentionPositions' /\ ~log'[p].flush
    BY <1>2 DEF Transactions, IntentionPositions
  <2>2. QED  BY <1>2, <2>1, NewIntention
<1>3. QED  BY <1>1, <1>2 DEF Transactions

\* An append adds its transaction to those that commit exactly if it is free of
\* conflicts with them; every other step leaves them as they are.
LEMMA CommittedStep ==
    ASSUME IInv, SerialInv, [Next]_vars
    PROVE  /\ Settled(log', Committed(log'))
           /\ (\A t \in Txns : ~CommitAppend(t)) => Committed(log') = Committed(log)
           /\ (\E t \in Txns : CommitAppend(t)) =>
                 Committed(log') =
                   IF \A q \in Committed(log) : ZoneFree(log', Len(log) + 1, q)
                   THEN Committed(log) \cup {Len(log) + 1} ELSE Committed(log)
<1> DEFINE C == Committed(log)
           n == Len(log) + 1
<1>1. Settled(log, C)
  BY DEF SerialInv
<1>2. log \in Seq(Entry) /\ Len(log) \in Nat /\ DOMAIN log = 1..Len(log) /\ DOMAIN log \in SUBSET Nat
  BY DEF IInv, TypeOK
<1>3. DOMAIN log' \in SUBSET Nat
  BY <1>2, LogGrows
<1>4. \A p \in DOMAIN log : log'[p] = log[p]
  BY LogGrows
<1>5. \A p \in Transactions(log), q \in C : ZoneFree(log', p, q) <=> ZoneFree(log, p, q)
  BY <1>1, <1>4 DEF Settled, Transactions, ZoneFree
<1> HIDE DEF C
<1>6. CASE \A t \in Txns : ~CommitAppend(t)
  <2>1. Transactions(log') = Transactions(log)
    BY <1>6, NothingSubmitted
  <2>2. Settled(log', C)
    BY <1>1, <1>5, <2>1 DEF Settled
  <2>3. Committed(log') = C
    BY <1>3, <2>2, SettledOnce
  <2>4. QED  BY <1>6, <2>2, <2>3 DEF C
<1>7. CASE \E t \in Txns : CommitAppend(t)
  <2>1. Transactions(log') = Transactions(log) \cup {n} /\ n \notin DOMAIN log
    BY <1>7, Submits
  <2>2. n \notin Transactions(log) /\ n \notin C /\ \A p \in Transactions(log) : p \in Nat /\ p < n
    BY <1>1, <1>2, <2>1 DEF Settled, Transactions
  <2>3. \A p \in Transactions(log') : ZoneFree(log', p, n)
    BY <1>2, <2>1, <2>2 DEF ZoneFree
  <2> DEFINE D == IF \A q \in C : ZoneFree(log', n, q) THEN C \cup {n} ELSE C
  <2>4. Settled(log', D)
    BY <1>1, <1>5, <2>1, <2>2, <2>3 DEF Settled
  <2> HIDE DEF D
  <2>5. Committed(log') = D
    BY <1>3, <2>4, SettledOnce
  <2>6. QED  BY <1>7, <2>4, <2>5 DEF C, D
<1>8. QED  BY <1>6, <1>7

\* Flushes after every step.
LEMMA FlushesStep ==
    ASSUME IInv, Flushes, [Next]_vars
    PROVE  Flushes'
<1>1. ASSUME NEW p \in IntentionPositions', log'[p].flush
      PROVE  \A i \in DOMAIN log'[p].ops : log'[p].ops[i].op = "COPY"
  <2>1. CASE p \in DOMAIN log
    <3>1. log'[p] = log[p]
      BY <2>1, LogGrows
    <3>2. p \in IntentionPositions
      BY <2>1, <3>1 DEF IntentionPositions
    <3>3. QED  BY <1>1, <3>1, <3>2 DEF Flushes
  <2>2. CASE p \notin DOMAIN log
    <3>1. p = Len(log) + 1 /\ (Gc \/ \E t \in Txns : CommitAppend(t))
      BY <2>2, NewIntention
    <3>2. \A t \in Txns : ~CommitAppend(t)
      BY <1>1, <3>1, Submits
    <3>3. PICK o : o = CopyOp(prefix_string(PREFIX_COMMITTED_INTENTION, Min(root.catalog)))
      OBVIOUS
    <3>4. log' = Append(log, IntentionEntry(0, NoToken, <<o>>))
      BY <3>1, <3>2, <3>3 DEF Gc
    <3>5. log \in Seq(Entry)
      BY DEF IInv, TypeOK
    <3>6. log'[p] = IntentionEntry(0, NoToken, <<o>>)
      <4>1. PICK e : e = IntentionEntry(0, NoToken, <<o>>)
        OBVIOUS
      <4>2. PICK S : S = Entry \cup {e}
        OBVIOUS
      <4>3. log \in Seq(S) /\ e \in S
        BY <3>5, <4>2
      <4>4. QED  BY <3>1, <3>4, <4>1, <4>3, AppendFacts
    <3>7. log'[p].ops = <<o>> /\ o.op = "COPY"
      BY <3>3, <3>6 DEF IntentionEntry, CopyOp
    <3>8. QED  BY <3>7
  <2>3. QED  BY <2>1, <2>2
<1>2. QED  BY <1>1 DEF Flushes

\* A transaction that stays active either waits or records one operation.
LEMMA ActiveMoves ==
    ASSUME TypeOK, [Next]_vars, NEW u \in Txns,
           txn[u].st = "active", txn'[u].st = "active", txn'[u] # txn[u]
    PROVE  \E op \in Abstract!Ops : Executes(u, op)
<1>1. txn \in [Txns -> TxnState]
  BY DEF TypeOK
<1>2. ~Lost
  BY DEF Lost, LoseInstance, IdleTxn
<1>3. ~TPPublish /\ ~TPAbort
  <2>1. TPPublish => txn'[u] = txn[u] \/ Told(u, tp.pos, "commit")
    BY NotifyMoves DEF TPPublish
  <2>2. TPAbort => txn'[u] = txn[u] \/ Told(u, Min(Pending), "abort")
    BY NotifyMoves DEF TPAbort
  <2>3. QED  BY <2>1, <2>2 DEF Told
<1>4. PICK t \in Txns : Client(t)
  BY <1>2, <1>3, Frame
<1>5. \A k \in Keys : GetOp(k) \in Abstract!Ops /\ DeleteOp(k) \in Abstract!Ops
  BY DEF Abstract!Ops, Abstract!GetOp, GetOp, Abstract!DeleteOp, DeleteOp
<1>6. \A k \in Keys, v \in Values : PutOp(prefix_string(PREFIX_USER, k), v) \in Abstract!Ops
  BY DEF Abstract!Ops, Abstract!PutOp, PutOp, Abstract!UserKeys, UserKeys,
         Abstract!prefix_string, prefix_string, Abstract!PREFIX_USER, PREFIX_USER
<1>7. ASSUME NEW op, Executes(t, op)
      PROVE  t = u
  BY <1>7 DEF Executes
<1>8. CASE \E k \in Keys : TxnGet(t, k) \/ TxnDelete(t, k)
  BY <1>5, <1>7, <1>8, ExecutesFacts
<1>9. CASE \E k \in Keys, v \in Values : TxnPut(t, k, v)
  BY <1>6, <1>7, <1>9, ExecutesFacts
<1>10. CASE BeginTransaction(t)   BY <1>1, <1>10 DEF BeginTransaction
<1>11. CASE CommitReadOnly(t)     BY <1>1, <1>11 DEF CommitReadOnly, IdleTxn
<1>12. CASE CommitAppend(t)       BY <1>1, <1>12 DEF CommitAppend, TxnState
<1>13. CASE CommitInsert(t)       BY <1>1, <1>13 DEF CommitInsert
<1>14. CASE CommitReturns(t)      BY <1>1, <1>14 DEF CommitReturns
<1>15. QED  BY <1>4, <1>8, <1>9, <1>10, <1>11, <1>12, <1>13, <1>14 DEF Client

\* The clients after every step.
LEMMA SerialTxnStep ==
    ASSUME IInv, TreeInv, SerialInv, [Next]_vars, NEW u \in Txns
    PROVE  SerialTxn(u)'
<1> USE DEF IInv
<1>1. SerialTxn(u)
  BY DEF SerialInv
<1>2. Transactions(log) \subseteq Transactions(log')
  BY LogGrows DEF Transactions
<1>3. txn[u].st = "active" => \A p \in txn[u].tree.catalog : p \in DOMAIN log
  BY DEF GoodTxns, GoodTxn, BuiltOn, GoodRoot, GoodTree
<1>4. (txn[u].st = "active" /\ txn[u].readonly) => Holds(log', txn[u].tree)
  BY <1>1, <1>3, ContentStep DEF SerialTxn, Holds
<1>5. CASE txn'[u] = txn[u]
  BY <1>1, <1>2, <1>4, <1>5 DEF SerialTxn
<1>6. CASE Begins(u)
  <2>1. log' = log /\ phase # "closed" /\ txn'[u].st = "active" /\ txn'[u].tree = root
    BY <1>6 DEF Begins, BeginTransaction
  <2>2. [pos |-> root_snapshot, tree |-> root] \in Published
    BY <2>1 DEF Published
  <2>3. Holds(log, root)
    BY <2>2 DEF TreeInv, PublishedTrees
  <2>4. QED  BY <2>1, <2>3 DEF SerialTxn
<1>7. CASE Records(u) /\ txn'[u] # txn[u]
  <2>1. txn[u].st = "active" /\ txn'[u].st = "active"
    BY <1>7 DEF Records
  <2>2. PICK op \in Abstract!Ops : Executes(u, op)
    BY <1>7, <2>1, ActiveMoves
  <2>3. QED  BY <1>1, <2>1, <2>2 DEF Executes, SerialTxn, Holds
<1>8. CASE EndsReadOnly(u)  BY <1>8 DEF EndsReadOnly, SerialTxn
<1>9. CASE Appends(u)
  <2>1. txn'[u].st = "append" /\ txn'[u].pos = Len(log) + 1 /\ CommitAppend(u)
    BY <1>9 DEF Appends
  <2>2. Len(log) + 1 \in Transactions(log')
    BY <2>1, Submits
  <2>3. QED  BY <2>1, <2>2 DEF SerialTxn
<1>10. CASE Inserts(u)  BY <1>1, <1>2, <1>10 DEF Inserts, SerialTxn
<1>11. CASE Returns(u)  BY <1>11 DEF Returns, SerialTxn
<1>12. CASE Forgets(u)  BY <1>12 DEF Forgets, SerialTxn
<1>13. ASSUME NEW p, NEW d, Told(u, p, d)
       PROVE  SerialTxn(u)'
  BY <1>1, <1>2, <1>13 DEF Told, SerialTxn
<1>14. QED
  BY <1>5, <1>6, <1>7, <1>8, <1>9, <1>10, <1>11, <1>12, <1>13, TxnMoves

\* The creation is the whole history of a new database.
LEMMA InitSerial ==
    ASSUME Init
    PROVE  SerialInv /\ Committed(log) = {1} /\ Len(log) = 2
<1> DEFINE c == IntentionEntry(0, NoToken, CreationOps)
           a == AfterImageEntry(1, [kv |-> NoKeys, catalog |-> {1}])
<1>1. ~Flush(CreationOps)
  <2>1. PICK o : o = PutOp(prefix_string(PREFIX_COMMITTED_INTENTION, 1), "")
    OBVIOUS
  <2>2. CreationOps = <<o>> /\ o.op = "PUT"
    BY <2>1 DEF CreationOps, PutOp
  <2>3. QED  BY <2>2 DEF Flush
<1>2. c.type = "intention" /\ ~c.flush /\ a.type = "afterimage"
  BY <1>1 DEF IntentionEntry, AfterImageEntry
<1>3. log = <<c, a>>
  BY DEF Init, CreatedLog
<1>4. log[1] = IntentionEntry(0, NoToken, CreationOps)
  BY <1>3
<1> HIDE DEF c, a
<1>5. DOMAIN log = 1..2 /\ log[1] = c /\ log[2] = a /\ Len(log) = 2
  BY <1>3
<1>6. Transactions(log) = {1}
  BY <1>2, <1>5 DEF Transactions
<1>7. Settled(log, {1})
  BY <1>6 DEF Settled, ZoneFree
<1>8. Committed(log) = {1}
  BY <1>5, <1>7, SettledOnce
<1>9. Flushes
  BY <1>2, <1>5 DEF Flushes, IntentionPositions
<1>10. \A t \in Txns : SerialTxn(t)
  BY DEF Init, IdleTxn, SerialTxn
<1>11. QED  BY <1>4, <1>5, <1>7, <1>8, <1>9, <1>10 DEF SerialInv

\* The log settles the history in every reachable state.
THEOREM SerialInvariance ==
    Spec => [](IInv /\ TreeInv /\ ViewInv /\ Determined /\ SerialInv)
<1>1. ASSUME IInv, TreeInv, SerialInv, [Next]_vars
      PROVE  SerialInv'
  <2>1. log'[1] = log[1]
    <3>1. 1 \in DOMAIN log
      BY <1>1 DEF IInv, LogStarts, TypeOK
    <3>2. QED  BY <1>1, <3>1, LogGrows
  <2>2. Flushes'
    BY <1>1, FlushesStep DEF SerialInv
  <2>3. Settled(log', Committed(log'))
    BY <1>1, CommittedStep
  <2>4. \A t \in Txns : SerialTxn(t)'
    BY <1>1, SerialTxnStep
  <2>5. QED  BY <1>1, <2>1, <2>2, <2>3, <2>4 DEF SerialInv
<1>2. Init => SerialInv
  BY InitSerial
<1>3. QED  BY <1>1, <1>2, TreeInvariance, DecisionInvariance, PTL DEF Spec

-----------------------------------------------------------------------------
(* The refinement. *)

\* The history up to a snapshot leaves what the committed intentions of the tree
\* with that snapshot leave.
LEMMA StateIs ==
    ASSUME IInv, SerialInv, DecidedTrees, phase # "closed",
           NEW s \in Nat, s <= root_snapshot
    PROVE  Abstract!State(s) = Content(log, {c \in root.catalog : c <= s})
<1> DEFINE C == Committed(log)
           D == {c \in root.catalog : c <= s}
<1>1. /\ GoodTree(log, root_snapshot, root) /\ root_snapshot \in Nat
      /\ DOMAIN log \in SUBSET Nat
  BY DEF IInv, GoodRoot, TypeOK
<1>2. Faithful(log, root.catalog, root_snapshot)
  <2>1. [pos |-> root_snapshot, tree |-> root] \in Published
    BY DEF Published
  <2>2. QED  BY <2>1 DEF DecidedTrees
<1>3. Settled(log, C) /\ Flushes /\ TypeOK
  BY DEF SerialInv, IInv
<1>4. ASSUME NEW p \in Transactions(log), p <= s
      PROVE  p \in D <=> p \in C
  <2>1. p <= root_snapshot
    BY <1>1, <1>4 DEF Transactions
  <2>2. p \in root.catalog <=> p \in C
    BY <1>1, <1>2, <1>3, <2>1, SettledAgree
  <2>3. QED  BY <1>4, <2>2
<1>5. ASSUME NEW p \in D
      PROVE  p \in Transactions(log) \/ \A pk : UpdatesTo(log[p].ops, pk) = {}
  <2>1. p \in IntentionPositions
    BY <1>1, <1>5 DEF GoodTree, IntentionPositions
  <2>2. QED  BY <1>3, <2>1, FlushUpdatesNothing DEF Transactions, IntentionPositions
<1>6. D \in SUBSET (0..s)
  BY <1>1 DEF GoodTree
<1>7. \A p \in C : p \in Transactions(log) /\ History[p] = log[p].ops
  BY <1>3 DEF Settled, History
<1>8. DOMAIN History = C
  BY DEF History
<1> HIDE DEF C, D
<1>9. ASSUME NEW pk
      PROVE  {p \in DOMAIN History : p <= s /\ UpdatesTo(History[p], pk) # {}} = Writers(log, D, pk)
  <2>1. \A p \in C : (p <= s /\ UpdatesTo(History[p], pk) # {}) => p \in Writers(log, D, pk)
    BY <1>4, <1>7 DEF Writers
  <2>2. \A p \in Writers(log, D, pk) : p \in C /\ p <= s /\ UpdatesTo(History[p], pk) # {}
    BY <1>4, <1>5, <1>6, <1>7 DEF Writers
  <2>3. QED  BY <1>8, <2>1, <2>2
<1>10. ASSUME NEW pk, Writers(log, D, pk) # {}
       PROVE  History[Max(Writers(log, D, pk))] = log[Max(Writers(log, D, pk))].ops
  <2>1. Max(Writers(log, D, pk)) \in D /\ UpdatesTo(log[Max(Writers(log, D, pk))].ops, pk) # {}
    BY <1>6, <1>10, LastWriter
  <2>2. PICK m : m = Max(Writers(log, D, pk))
    OBVIOUS
  <2>3. m \in D /\ UpdatesTo(log[m].ops, pk) # {}
    BY <2>1, <2>2
  <2>4. m \in Transactions(log)
    BY <1>5, <2>3
  <2>5. m <= s
    BY <1>6, <2>3
  <2>6. QED  BY <1>4, <1>7, <2>2, <2>3, <2>4, <2>5
<1>11. Abstract!State(s) =
         [pk \in UserKeys |->
            IF Writers(log, D, pk) = {} THEN NoValue
            ELSE History[Max(Writers(log, D, pk))][Max(UpdatesTo(History[Max(Writers(log, D, pk))], pk))].val]
  BY <1>9, SharedOperators DEF Abstract!State
<1>12. QED  BY <1>10, <1>11 DEF Content, LastWrite, D

(* The clients, as the abstract specification sees them. *)
Clients == [t \in Txns |-> ClientOf(t)]

\* What a client looks like, by the state of its transaction.
LEMMA ClientsOf ==
    ASSUME NEW t \in Txns
    PROVE  /\ Clients[t] = ClientOf(t)
           /\ txn[t].st = "active" =>
                 ClientOf(t) = Abstract!Active(txn[t].snapshot, txn[t].tree.kv, txn[t].ops)
           /\ txn[t].st \in {"append", "wait"} =>
                 ClientOf(t) = [st |-> "submitted", at |-> txn[t].pos]
           /\ txn[t].st \in {"committed", "aborted"} =>
                 ClientOf(t) = [st |-> txn[t].st, at |-> txn[t].pos]
           /\ txn[t].st \notin {"active", "append", "wait", "committed", "aborted"} =>
                 ClientOf(t) = [st |-> txn[t].st]
  BY DEF ClientOf, Abstract!Active, Clients

\* The same after a step.
LEMMA ClientsOfNext ==
    ASSUME NEW t \in Txns
    PROVE  /\ Clients'[t] = ClientOf(t)'
           /\ txn'[t].st = "active" =>
                 ClientOf(t)' = Abstract!Active(txn'[t].snapshot, txn'[t].tree.kv, txn'[t].ops)
           /\ txn'[t].st \in {"append", "wait"} =>
                 ClientOf(t)' = [st |-> "submitted", at |-> txn'[t].pos]
           /\ txn'[t].st \in {"committed", "aborted"} =>
                 ClientOf(t)' = [st |-> txn'[t].st, at |-> txn'[t].pos]
           /\ txn'[t].st \notin {"active", "append", "wait", "committed", "aborted"} =>
                 ClientOf(t)' = [st |-> txn'[t].st]
  BY DEF ClientOf, Abstract!Active, Clients

\* One client moves on.
LEMMA Becomes ==
    ASSUME NEW t \in Txns, NEW c, ClientOf(t)' = c, \A u \in Txns \ {t} : txn'[u] = txn[u]
    PROVE  Abstract!Become(t, c)
<1>1. \A u \in Txns \ {t} : ClientOf(u)' = ClientOf(u)
  BY DEF ClientOf
<1>2. [u \in Txns |-> ClientOf(u)]' = [[u \in Txns |-> ClientOf(u)] EXCEPT ![t] = c]
  BY <1>1
<1>3. QED  BY <1>2 DEF Abstract!Become

\* Only an append changes the history.
LEMMA HistoryKept ==
    ASSUME IInv, SerialInv, [Next]_vars, \A t \in Txns : ~CommitAppend(t)
    PROVE  History' = History
<1>1. Committed(log') = Committed(log)
  BY CommittedStep
<1>2. \A p \in Committed(log) : p \in DOMAIN log
  BY DEF SerialInv, Settled, Transactions
<1>3. \A p \in Committed(log) : log'[p] = log[p]
  BY <1>2, LogGrows
<1>4. QED  BY <1>1, <1>3 DEF History

\* A step in which no client moves is silent, but may take time.
LEMMA SilentStep ==
    ASSUME IInv, SerialInv, [Next]_vars, \A t \in Txns : ClientOf(t)' = ClientOf(t)
    PROVE  Abstract!Tick \/ UNCHANGED <<Len(log), History, Clients>>
<1>1. \A t \in Txns : ~CommitAppend(t)
  <2>1. SUFFICES ASSUME NEW t \in Txns, CommitAppend(t) PROVE FALSE
    OBVIOUS
  <2>2. txn[t].st = "active" /\ txn'[t].st = "append"
    BY <2>1 DEF CommitAppend, IInv, TypeOK, TxnState
  <2>3. ClientOf(t).st = "active" /\ ClientOf(t)'.st = "submitted"
    BY <2>2 DEF ClientOf
  <2>4. QED  BY <2>3
<1>2. History' = History
  BY <1>1, HistoryKept
<1>3. Clients' = Clients
  BY DEF Clients
<1>4. Len(log') = Len(log) \/ (Len(log') \in Nat /\ Len(log') > Len(log))
  <2>1. log \in Seq(Entry) /\ Len(log) \in Nat
    BY DEF IInv, TypeOK
  <2>2. CASE log' = log
    BY <2>2
  <2>3. CASE log' # log
    <3>1. log' = Append(log, log'[Len(log) + 1]) /\ log'[Len(log) + 1] \in Entry
      BY <2>3, LogGrows
    <3>2. Len(log') = Len(log) + 1
      BY <2>1, <3>1, AppendFacts
    <3>3. QED  BY <2>1, <3>2
  <2>4. QED  BY <2>2, <2>3
<1>5. QED  BY <1>2, <1>3, <1>4 DEF Abstract!Tick, Clients

\* Losing the instance is a crash.
LEMMA LostRefines ==
    ASSUME IInv, SerialInv, [Next]_vars, Lost
    PROVE  Abstract!Crash
<1>1. log' = log
  BY DEF Lost
<1>2. ASSUME NEW t \in Txns
      PROVE  ClientOf(t)' = IF Clients[t].st \in {"active", "submitted"}
                            THEN [st |-> "lost"] ELSE Clients[t]
  <2>1. CASE txn[t].st \in {"active", "append", "wait"}
    <3>1. txn'[t].st = "lost"
      BY <2>1 DEF Lost, LoseInstance, IdleTxn
    <3>2. ClientOf(t)' = [st |-> "lost"]
      BY <3>1, ClientsOfNext
    <3>3. Clients[t].st \in {"active", "submitted"}
      BY <2>1, ClientsOf DEF Abstract!Active
    <3>4. QED  BY <3>2, <3>3
  <2>2. CASE txn[t].st \notin {"active", "append", "wait"}
    <3>1. txn'[t] = txn[t]
      BY <2>2 DEF Lost, LoseInstance
    <3>2. ClientOf(t)' = ClientOf(t)
      BY <3>1 DEF ClientOf
    <3>3. Clients[t] = ClientOf(t)
      BY ClientsOf
    <3>4. txn[t] \in TxnState
      BY DEF IInv, TypeOK
    <3>5. ClientOf(t).st \notin {"active", "submitted"}
      BY <2>2, <3>4 DEF ClientOf, TxnState
    <3>6. QED  BY <3>2, <3>3, <3>5
  <2>3. QED  BY <2>1, <2>2
<1>3. \A t \in Txns : ~CommitAppend(t)
  <2>1. SUFFICES ASSUME NEW t \in Txns, CommitAppend(t) PROVE FALSE
    OBVIOUS
  <2>2. Len(log') = Len(log) + 1 /\ Len(log) \in Nat
    BY <2>1, Submits
  <2>3. QED  BY <1>1, <2>2
<1>4. UNCHANGED <<Len(log), History>>
  BY <1>1, <1>3, HistoryKept
<1>5. QED  BY <1>2, <1>4 DEF Abstract!Crash, Clients

(* What is known before a step that is not an exception. *)
StepInv == IInv /\ TreeInv /\ ViewInv /\ SerialInv /\ DecidedTrees /\ DecidedTxns

\* A transaction begins on the contents of the history at its snapshot, which has
\* every commit that a client was told of.
LEMMA BeginRefines ==
    ASSUME StepInv, [Next]_vars, NEW t \in Txns, BeginTransaction(t)
    PROVE  Abstract!ClientStep(t)
<1> USE DEF StepInv, IInv
<1>1. /\ txn[t].st = "idle" /\ phase = "open" /\ log' = log
      /\ txn' = [txn EXCEPT ![t].st = "active", ![t].snapshot = root_snapshot, ![t].tree = root]
  BY DEF BeginTransaction
<1>2. txn \in [Txns -> TxnState] /\ txn[t].ops = <<>>
  BY <1>1 DEF TypeOK, TreeInv, PrivateTree
<1>3. /\ txn'[t].st = "active" /\ txn'[t].snapshot = root_snapshot /\ txn'[t].tree = root
      /\ txn'[t].ops = <<>> /\ \A u \in Txns \ {t} : txn'[u] = txn[u]
  BY <1>1, <1>2 DEF TxnState
<1>4. /\ root_snapshot \in Nat /\ Len(log) \in Nat /\ DOMAIN log = 1..Len(log)
      /\ GoodTree(log, root_snapshot, root)
  BY <1>1 DEF TypeOK, GoodRoot
<1>5. root_snapshot \in 0..Len(log) /\ \A c \in root.catalog : c <= root_snapshot
  BY <1>4 DEF GoodTree
<1>6. root.kv = Abstract!State(root_snapshot)
  <2>1. [pos |-> root_snapshot, tree |-> root] \in Published
    BY <1>1 DEF Published
  <2>2. root.kv = Content(log, root.catalog)
    BY <2>1 DEF TreeInv, PublishedTrees, Holds
  <2>3. {c \in root.catalog : c <= root_snapshot} = root.catalog
    BY <1>5
  <2>4. root_snapshot <= root_snapshot
    BY <1>4
  <2>5. Abstract!State(root_snapshot) = Content(log, {c \in root.catalog : c <= root_snapshot})
    BY <1>1, <1>4, <2>4, StateIs
  <2>6. QED  BY <2>2, <2>3, <2>5
<1>7. ASSUME NEW u \in Txns, Clients[u].st = "committed"
      PROVE  Clients[u].at <= root_snapshot
  <2>1. txn[u].st = "committed" /\ Clients[u].at = txn[u].pos
    <3>1. txn[u].st = "committed"
      BY <1>7 DEF Clients, ClientOf
    <3>2. Clients[u] = [st |-> txn[u].st, at |-> txn[u].pos]
      BY <3>1, ClientsOf
    <3>3. QED  BY <3>1, <3>2
  <2>2. txn[u].pos \in IntentionPositions /\ Commits(log, txn[u].pos)
    BY <2>1 DEF ViewInv, ClientViews, ClientView, DecidedTxns
  <2>3. txn[u].pos <= last_processed
    <3>1. /\ txn[u].pos <= latest \/ txn[u].pos <= last_processed
          /\ latest <= last_processed
      BY <1>1, <2>1 DEF ViewInv, ClientViews, ClientView, Frontier
    <3>2. latest \in Nat /\ last_processed \in Nat /\ txn[u].pos \in Nat
      BY DEF TypeOK, TxnState
    <3>3. QED  BY <3>1, <3>2
  <2>4. txn[u].pos \in root.catalog
    BY <1>1, <2>2, <2>3, PassedOutcome
  <2>5. QED  BY <1>5, <2>1, <2>4
<1>8. Clients[t] = [st |-> "idle"]
  BY <1>1, ClientsOf
<1>9. ClientOf(t)' = Abstract!Active(root_snapshot, Abstract!State(root_snapshot), <<>>)
  BY <1>3, <1>6, ClientsOfNext
<1>10. Abstract!Become(t, Abstract!Active(root_snapshot, Abstract!State(root_snapshot), <<>>))
  BY <1>3, <1>9, Becomes
<1>11. UNCHANGED <<Len(log), History>>
  BY <1>1 DEF History
<1>12. Clients'[t] # Clients[t]
  BY <1>8, <1>9, ClientsOfNext DEF Abstract!Active
<1>13. Abstract!Begin(t)
  BY <1>5, <1>7, <1>8, <1>10, <1>11 DEF Abstract!Begin, Clients
<1>14. QED  BY <1>12, <1>13 DEF Abstract!ClientStep, Clients

\* Get, Put and Delete are operations on the client's own view.
LEMMA OperateRefines ==
    ASSUME StepInv, NEW t \in Txns, NEW op \in Abstract!Ops, Executes(t, op)
    PROVE  Abstract!ClientStep(t)
<1>1. /\ txn[t].st = "active" /\ txn'[t].st = "active" /\ log' = log
      /\ \A u \in Txns \ {t} : txn'[u] = txn[u]
      /\ txn'[t].snapshot = txn[t].snapshot
      /\ txn'[t].tree.kv = ReplayIntention(txn[t].tree.kv, <<op>>)
      /\ txn'[t].ops = Append(txn[t].ops, op)
  BY DEF Executes
<1>2. Clients[t] = Abstract!Active(txn[t].snapshot, txn[t].tree.kv, txn[t].ops)
  BY <1>1, ClientsOf
<1>3. /\ Clients[t].st = "active" /\ Clients[t].at = txn[t].snapshot
      /\ Clients[t].view = txn[t].tree.kv /\ Clients[t].ops = txn[t].ops
  BY <1>2 DEF Abstract!Active
<1>4. ClientOf(t)' = Abstract!Active(Clients[t].at,
                        Abstract!ReplayIntention(Clients[t].view, <<op>>),
                        Append(Clients[t].ops, op))
  BY <1>1, <1>3, ClientsOfNext, SharedOperators
<1>5. UNCHANGED <<Len(log), History>>
  BY <1>1 DEF History
<1>6. Abstract!Operate(t, op)
  BY <1>1, <1>3, <1>4, <1>5, Becomes DEF Abstract!Operate, Clients
<1>7. Clients'[t] # Clients[t]
  <2>1. txn[t].ops \in Seq(Op)
    BY DEF StepInv, IInv, TypeOK, TxnState
  <2>2. Append(txn[t].ops, op) # txn[t].ops
    BY <2>1
  <2>3. Clients'[t].ops = Append(txn[t].ops, op)
    BY <1>3, <1>4, ClientsOfNext DEF Abstract!Active
  <2>4. QED  BY <1>3, <2>2, <2>3
<1>8. QED  BY <1>6, <1>7 DEF Abstract!ClientStep, Clients

\* A client whose tree never got a new root has changed nothing.
LEMMA ReadOnlyRefines ==
    ASSUME StepInv, NEW t \in Txns, CommitReadOnly(t)
    PROVE  Abstract!ClientStep(t)
<1> USE DEF StepInv, IInv
<1>1. /\ txn[t].st = "active" /\ txn[t].readonly /\ log' = log
      /\ txn' = [txn EXCEPT ![t] = [IdleTxn EXCEPT !.st = "readonly"]]
  BY DEF CommitReadOnly
<1>2. txn \in [Txns -> TxnState] /\ txn[t].snapshot \in Nat
  BY DEF TypeOK, TxnState
<1>3. txn'[t].st = "readonly" /\ \A u \in Txns \ {t} : txn'[u] = txn[u]
  BY <1>1, <1>2 DEF IdleTxn
<1>4. phase # "closed" /\ BuiltOn(txn[t].tree, txn[t].snapshot)
  BY <1>1 DEF GoodTxns, GoodTxn
<1>5. txn[t].tree.kv = Abstract!State(txn[t].snapshot)
  BY <1>1, <1>2, <1>4, StateIs DEF SerialInv, SerialTxn, Holds, BuiltOn
<1>6. Clients[t] = Abstract!Active(txn[t].snapshot, txn[t].tree.kv, txn[t].ops)
  BY <1>1, ClientsOf
<1>7. /\ Clients[t].st = "active" /\ Clients[t].at = txn[t].snapshot
      /\ Clients[t].view = txn[t].tree.kv
  BY <1>6 DEF Abstract!Active
<1>8. ClientOf(t)' = [st |-> "readonly"]
  BY <1>3, ClientsOfNext
<1>9. UNCHANGED <<Len(log), History>>
  BY <1>1 DEF History
<1>10. Abstract!EndReadOnly(t)
  BY <1>3, <1>5, <1>7, <1>8, <1>9, Becomes DEF Abstract!EndReadOnly, Clients
<1>11. Clients'[t] # Clients[t]
  BY <1>7, <1>8, ClientsOfNext
<1>12. QED  BY <1>10, <1>11 DEF Abstract!ClientStep, Clients

\* What the processor tells a client is its place in the history.
LEMMA ReturnRefines ==
    ASSUME StepInv, NEW t \in Txns, CommitReturns(t)
    PROVE  Abstract!ClientStep(t)
<1> USE DEF StepInv, IInv
<1>1. /\ txn[t].st = "wait" /\ txn[t].decision # "none" /\ log' = log
      /\ txn' = [txn EXCEPT
            ![t] = [IdleTxn EXCEPT
                      !.st = IF txn[t].decision = "commit" THEN "committed" ELSE "aborted",
                      !.pos = txn[t].pos]]
  BY DEF CommitReturns
<1>2. txn \in [Txns -> TxnState] /\ txn[t].decision \in {"none", "commit", "abort"}
  BY DEF TypeOK, TxnState
<1>3. /\ txn'[t].st = IF txn[t].decision = "commit" THEN "committed" ELSE "aborted"
      /\ txn'[t].pos = txn[t].pos /\ \A u \in Txns \ {t} : txn'[u] = txn[u]
  BY <1>1, <1>2 DEF IdleTxn
<1> DEFINE p == txn[t].pos
<1>4. p \in Transactions(log)
  BY <1>1 DEF SerialInv, SerialTxn
<1>5. /\ txn[t].decision = "commit" => Commits(log, p)
      /\ txn[t].decision = "abort" => Aborts(log, p)
  BY DEF DecidedTxns
<1>6. p \in Nat /\ p <= p
  BY DEF TypeOK, TxnState
<1>7. /\ Commits(log, p) => p \in Committed(log)
      /\ Aborts(log, p) => p \notin Committed(log)
  BY <1>4, <1>6, SettledAgree DEF Commits, Aborts
<1>8. Clients[t] = [st |-> "submitted", at |-> p]
  BY <1>1, ClientsOf
<1>9. DOMAIN History = Committed(log) /\ UNCHANGED <<Len(log), History>>
  BY <1>1 DEF History
<1> HIDE DEF p
<1>10. ClientOf(t)' = [st |-> IF p \in DOMAIN History THEN "committed" ELSE "aborted", at |-> p]
  BY <1>1, <1>2, <1>3, <1>5, <1>7, <1>9, ClientsOfNext DEF p
<1>11. Clients[t].st = "submitted" /\ Clients[t].at = p
  BY <1>8
<1>12. Abstract!Return(t)
  BY <1>3, <1>9, <1>10, <1>11, Becomes DEF Abstract!Return, Clients
<1>13. Clients'[t] # Clients[t]
  BY <1>10, <1>11, ClientsOfNext
<1>14. QED  BY <1>12, <1>13 DEF Abstract!ClientStep, Clients

\* What the abstract specification says of a client that is about to commit.
LEMMA ActiveConflicts ==
    ASSUME NEW t \in Txns, txn[t].st = "active"
    PROVE  /\ Clients[t].st = "active"
           /\ Clients[t].ops = txn[t].ops
           /\ Abstract!SelfConflict(t) <=>
                 /\ txn[t].snapshot \in Committed(log)
                 /\ OpKeys(txn[t].ops) \cap UpdateOpKeys(log[txn[t].snapshot].ops) # {}
           /\ Abstract!Conflict(t) <=>
                 \E q \in Committed(log) :
                    /\ txn[t].snapshot < q
                    /\ OpKeys(txn[t].ops) \cap UpdateOpKeys(log[q].ops) # {}
<1>1. Clients[t] = Abstract!Active(txn[t].snapshot, txn[t].tree.kv, txn[t].ops)
  BY ClientsOf
<1>2. Clients[t].st = "active" /\ Clients[t].at = txn[t].snapshot /\ Clients[t].ops = txn[t].ops
  BY <1>1 DEF Abstract!Active
<1>3. DOMAIN History = Committed(log) /\ \A p \in Committed(log) : History[p] = log[p].ops
  BY DEF History
<1>4. Abstract!Keyed(t) = OpKeys(txn[t].ops)
  BY <1>2, SharedOperators DEF Abstract!Keyed, Clients
<1>5. Abstract!SelfConflict(t) <=>
        /\ Clients[t].at \in DOMAIN History
        /\ OpKeys(txn[t].ops) \cap UpdateOpKeys(History[Clients[t].at]) # {}
  BY <1>4, SharedOperators DEF Abstract!SelfConflict, Clients
<1>6. Abstract!Conflict(t) <=>
        \E q \in DOMAIN History :
           /\ Clients[t].at < q
           /\ OpKeys(txn[t].ops) \cap UpdateOpKeys(History[q]) # {}
  BY <1>4, SharedOperators DEF Abstract!Conflict, Clients
<1>7. QED  BY <1>2, <1>3, <1>5, <1>6

\* The append settles the fate of a transaction.
LEMMA SubmitRefines ==
    ASSUME StepInv, [Next]_vars, NoSelfConflict', NEW t \in Txns, CommitAppend(t)
    PROVE  Abstract!ClientStep(t)
<1> USE DEF StepInv, IInv
<1> DEFINE n == Len(log) + 1
           C == Committed(log)
<1>1. /\ txn[t].st = "active"
      /\ txn' = [txn EXCEPT ![t].st = "append", ![t].ops = <<>>, ![t].pos = n]
  BY DEF CommitAppend
<1>2. txn \in [Txns -> TxnState] /\ log \in Seq(Entry) /\ DOMAIN log = 1..Len(log)
  BY DEF TypeOK
<1>3. /\ txn'[t].st = "append" /\ txn'[t].pos = n
      /\ \A u \in Txns \ {t} : txn'[u] = txn[u]
  BY <1>1, <1>2 DEF TxnState
<1>4. /\ Len(log) \in Nat /\ Len(log') = n
      /\ log'[n].type = "intention" /\ ~log'[n].flush
      /\ log'[n].snapshot = txn[t].snapshot /\ log'[n].ops = txn[t].ops
      /\ n \in DOMAIN log' /\ \A p \in DOMAIN log : log'[p] = log[p]
  BY Submits
<1>5. \A q \in C : q \in DOMAIN log /\ q \in Nat /\ q < n
  BY <1>2 DEF SerialInv, Settled, Transactions
<1>6. C' = IF \A q \in C : ZoneFree(log', n, q) THEN C \cup {n} ELSE C
  BY CommittedStep
<1>7. (\A q \in C : ZoneFree(log', n, q)) <=> ~Abstract!Conflict(t)
  <2>1. \A q \in C : ZoneFree(log', n, q) <=>
                       ~(/\ txn[t].snapshot < q
                         /\ OpKeys(txn[t].ops) \cap UpdateOpKeys(log[q].ops) # {})
    BY <1>4, <1>5 DEF ZoneFree
  <2>2. QED  BY <1>1, <2>1, ActiveConflicts
<1>8. ~Abstract!SelfConflict(t)
  <2>1. ASSUME txn[t].snapshot \in C
        PROVE  OpKeys(txn[t].ops) \cap UpdateOpKeys(log[txn[t].snapshot].ops) = {}
    <3>1. log'[txn[t].snapshot] = log[txn[t].snapshot]
      BY <1>4, <1>5, <2>1
    <3>2. n \in IntentionPositions'
      BY <1>4 DEF IntentionPositions
    <3>3. n # 1
      BY <1>4 DEF LogStarts
    <3>4. OpKeys(log'[n].ops) \cap UpdateOpKeys(log'[log'[n].snapshot].ops) = {}
      BY <1>4, <3>2, <3>3 DEF NoSelfConflict
    <3>5. QED  BY <1>4, <3>1, <3>4
  <2>2. QED  BY <1>1, <2>1, ActiveConflicts
<1>9. History' = IF Abstract!Conflict(t) THEN History
                 ELSE [p \in DOMAIN History \cup {n} |->
                          IF p = n THEN txn[t].ops ELSE History[p]]
  <2>1. DOMAIN History = C /\ \A p \in C : History[p] = log[p].ops
    BY DEF History
  <2>2. History' = [p \in C' |-> log'[p].ops]
    BY DEF History
  <2> HIDE DEF C
  <2>3. \A p \in C : log'[p].ops = log[p].ops /\ p # n
    BY <1>4, <1>5
  <2>4. CASE Abstract!Conflict(t)
    <3>1. C' = C
      BY <1>6, <1>7, <2>4
    <3>2. History' = [p \in C |-> log[p].ops]
      BY <2>2, <2>3, <3>1
    <3>3. QED  BY <2>4, <3>2 DEF C, History
  <2>5. CASE ~Abstract!Conflict(t)
    <3>1. C' = C \cup {n}
      BY <1>6, <1>7, <2>5
    <3>2. History' = [p \in C \cup {n} |-> IF p = n THEN txn[t].ops ELSE History[p]]
      BY <1>4, <2>1, <2>2, <2>3, <3>1
    <3>3. QED  BY <2>1, <2>5, <3>2
  <2>6. QED  BY <2>4, <2>5
<1>10. Clients[t].st = "active" /\ Clients[t].ops = txn[t].ops
  BY <1>1, ActiveConflicts
<1>11. ClientOf(t)' = [st |-> "submitted", at |-> Len(log')]
  BY <1>3, <1>4, ClientsOfNext
<1>12. Abstract!Become(t, [st |-> "submitted", at |-> Len(log')])
  BY <1>3, <1>11, Becomes
<1>13. Abstract!Submit(t)
  BY <1>4, <1>8, <1>9, <1>10, <1>12 DEF Abstract!Submit, Clients
<1>14. Clients'[t] # Clients[t]
  BY <1>10, <1>11, ClientsOfNext
<1>15. QED  BY <1>13, <1>14 DEF Abstract!ClientStep, Clients

\* Every step without a self-conflict is a step of the serial history, or silent.
LEMMA StepRefines ==
    ASSUME StepInv, [Next]_vars, NoSelfConflict'
    PROVE  Abstract!Step \/ UNCHANGED <<Len(log), History, Clients>>
<1> USE DEF StepInv
<1>1. TypeOK
  BY DEF IInv
<1>2. ASSUME NEW t \in Txns, Abstract!ClientStep(t)
      PROVE  Abstract!Step
  BY <1>2 DEF Abstract!Step
<1>3. ASSUME NEW t \in Txns, Client(t)
      PROVE  Abstract!Step \/ UNCHANGED <<Len(log), History, Clients>>
  <2>1. CASE \E k \in Keys : TxnGet(t, k) \/ TxnDelete(t, k)
    <3>1. PICK k \in Keys : Executes(t, GetOp(k)) \/ Executes(t, DeleteOp(k))
      BY <1>1, <2>1, ExecutesFacts
    <3>2. GetOp(k) \in Abstract!Ops /\ DeleteOp(k) \in Abstract!Ops
      BY DEF Abstract!Ops, Abstract!GetOp, GetOp, Abstract!DeleteOp, DeleteOp
    <3>3. QED  BY <1>2, <3>1, <3>2, OperateRefines
  <2>2. CASE \E k \in Keys, v \in Values : TxnPut(t, k, v)
    <3>1. PICK k \in Keys, v \in Values : Executes(t, PutOp(prefix_string(PREFIX_USER, k), v))
      BY <1>1, <2>2, ExecutesFacts
    <3>2. PutOp(prefix_string(PREFIX_USER, k), v) \in Abstract!Ops
      BY DEF Abstract!Ops, Abstract!PutOp, PutOp, Abstract!UserKeys, UserKeys,
             Abstract!prefix_string, prefix_string, Abstract!PREFIX_USER, PREFIX_USER
    <3>3. QED  BY <1>2, <3>1, <3>2, OperateRefines
  <2>3. CASE CommitInsert(t)
    <3>1. /\ txn[t].st = "append"
          /\ txn' = [txn EXCEPT ![t].st = "wait", ![t].tree = NullTree]
      BY <2>3 DEF CommitInsert
    <3>2. txn \in [Txns -> TxnState]
      BY <1>1 DEF TypeOK
    <3>3. /\ txn'[t].st = "wait" /\ txn'[t].pos = txn[t].pos
          /\ \A u \in Txns \ {t} : txn'[u] = txn[u]
      BY <3>1, <3>2 DEF TxnState
    <3>4. ClientOf(t)' = ClientOf(t)
      BY <3>1, <3>3, ClientsOf, ClientsOfNext
    <3>5. \A u \in Txns \ {t} : ClientOf(u)' = ClientOf(u)
      BY <3>3 DEF ClientOf
    <3>6. QED  BY <3>4, <3>5, SilentStep DEF Abstract!Step
  <2>4. QED
    BY <1>2, <1>3, <2>1, <2>2, <2>3, BeginRefines, ReadOnlyRefines, SubmitRefines, ReturnRefines
       DEF Client
<1>4. CASE Lost
  BY <1>4, LostRefines DEF Abstract!Step
<1>5. CASE txn' = txn
  <2>1. \A u \in Txns : ClientOf(u)' = ClientOf(u)
    BY <1>5 DEF ClientOf
  <2>2. QED  BY <2>1, SilentStep DEF Abstract!Step
<1>6. CASE TPPublish \/ TPAbort
  <2>1. \E token, d : txn' = NotifyTransaction(token, d)
    BY <1>6 DEF TPPublish, TPAbort
  <2>2. \A u \in Txns : /\ txn'[u].st = txn[u].st /\ txn'[u].tree = txn[u].tree
                        /\ txn'[u].snapshot = txn[u].snapshot /\ txn'[u].ops = txn[u].ops
                        /\ txn'[u].pos = txn[u].pos
    BY <1>1, <2>1, NotifyFacts
  <2>3. \A u \in Txns : ClientOf(u)' = ClientOf(u)
    BY <2>2 DEF ClientOf
  <2>4. QED  BY <2>3, SilentStep DEF Abstract!Step
<1>7. QED  BY <1>3, <1>4, <1>5, <1>6, Frame

\* The first self-conflict is that of a client that commits.
LEMMA FirstSelfConflict ==
    ASSUME StepInv, [Next]_vars, NoSelfConflict, ~NoSelfConflict'
    PROVE  \E t \in Txns : Clients[t].st = "active" /\ Abstract!SelfConflict(t)
<1> USE DEF StepInv, IInv
<1>1. PICK p \in IntentionPositions' :
         /\ p # 1 /\ ~log'[p].flush
         /\ OpKeys(log'[p].ops) \cap UpdateOpKeys(log'[log'[p].snapshot].ops) # {}
  BY DEF NoSelfConflict
<1>2. p \notin DOMAIN log
  <2>1. SUFFICES ASSUME p \in DOMAIN log PROVE FALSE
    OBVIOUS
  <2>2. log'[p] = log[p]
    BY <2>1, LogGrows
  <2>3. p \in IntentionPositions
    BY <2>1, <2>2 DEF IntentionPositions
  <2>4. log[p].snapshot \in DOMAIN log
    BY <1>1, <2>2, <2>3 DEF ViewInv, Snapshots
  <2>5. log'[log[p].snapshot] = log[log[p].snapshot]
    BY <2>4, LogGrows
  <2>6. QED  BY <1>1, <2>2, <2>3, <2>5 DEF NoSelfConflict
<1>3. PICK t \in Txns : /\ CommitAppend(t) /\ log'[p].snapshot = txn[t].snapshot
                        /\ log'[p].ops = txn[t].ops
  BY <1>1, <1>2, NewIntention
<1> DEFINE s == txn[t].snapshot
<1>4. txn[t].st = "active"
  BY <1>3 DEF CommitAppend
<1>5. s \in root.catalog /\ phase # "closed"
  BY <1>4 DEF ViewInv, ClientViews, ClientView, GoodTxns, GoodTxn
<1>6. s \in DOMAIN log /\ Commits(log, s)
  BY <1>5, RootCommits
<1>7. log'[s] = log[s]
  BY <1>6, LogGrows
<1>8. OpKeys(txn[t].ops) \cap UpdateOpKeys(log[s].ops) # {}
  BY <1>1, <1>3, <1>7
<1>9. s \in IntentionPositions
  BY <1>5 DEF GoodRoot, GoodTree, IntentionPositions
<1>10. ~log[s].flush
  BY <1>8, <1>9, FlushUpdatesNothing DEF SerialInv
<1>11. s \in Transactions(log) /\ s \in Nat /\ s <= s
  BY <1>6, <1>9, <1>10 DEF Transactions, IntentionPositions, TypeOK
<1>12. s \in Committed(log)
  BY <1>6, <1>11, SettledAgree DEF Commits
<1>13. QED  BY <1>4, <1>8, <1>12, ActiveConflicts

\* The database is a serial history, for any number of transactions, keys, crashes
\* and calls of gc() and for every limit of the index: what a client sees is a state
\* of the history at its snapshot, its commit is settled by the place of its
\* intention in the log, and what it is told, by whichever instance, is that.
THEOREM SerialHistoryRefinement == Spec => IsSerialHistory
<1>1. Init => Abstract!Init
  <2>1. SUFFICES ASSUME Init PROVE Abstract!Init
    OBVIOUS
  <2>2. Committed(log) = {1} /\ Len(log) = 2 /\ log[1] = IntentionEntry(0, NoToken, CreationOps)
    BY <2>1, InitSerial DEF SerialInv
  <2>3. History = [p \in {1} |-> CreationOps]
    BY <2>2 DEF History, IntentionEntry
  <2>4. CreationOps = Abstract!Creation
    BY DEF CreationOps, Abstract!Creation, PutOp, Abstract!PutOp, prefix_string,
           Abstract!prefix_string, PREFIX_COMMITTED_INTENTION,
           Abstract!PREFIX_COMMITTED_INTENTION
  <2>5. \A t \in Txns : ClientOf(t) = [st |-> "idle"]
    BY <2>1 DEF Init, IdleTxn, ClientOf
  <2>6. NoSelfConflict
    <3>1. IntentionPositions = {1}
      <4>1. DOMAIN log = 1..2
        BY <2>1 DEF Init, CreatedLog
      <4>2. log[2].type = "afterimage" /\ log[1].type = "intention"
        BY <2>1 DEF Init, CreatedLog, AfterImageEntry, IntentionEntry
      <4>3. QED  BY <4>1, <4>2 DEF IntentionPositions
    <3>2. QED  BY <3>1 DEF NoSelfConflict
  <2>7. QED  BY <2>2, <2>3, <2>4, <2>5, <2>6 DEF Abstract!Init
<1>2. ASSUME IInv, TreeInv, ViewInv, Determined, SerialInv, [Next]_vars
      PROVE  [Abstract!Next]_Abstract!vars
  <2>1. CASE NoSelfConflict /\ NoSelfConflict'
    <3>1. StepInv
      BY <1>2, <2>1 DEF StepInv, Determined
    <3>2. Abstract!Step \/ UNCHANGED <<Len(log), History, Clients>>
      BY <1>2, <2>1, <3>1, StepRefines
    <3>3. UNCHANGED (~NoSelfConflict)
      BY <2>1
    <3>4. QED  BY <3>2, <3>3 DEF Abstract!Next, Abstract!vars, Clients
  <2>2. CASE NoSelfConflict /\ ~NoSelfConflict'
    <3>1. StepInv
      BY <1>2, <2>2 DEF StepInv, Determined
    <3>2. \E t \in Txns : Clients[t].st = "active" /\ Abstract!SelfConflict(t)
      BY <1>2, <2>2, <3>1, FirstSelfConflict
    <3>3. QED  BY <2>2, <3>2 DEF Abstract!Next, Abstract!Exception, Clients
  <2>3. CASE ~NoSelfConflict
    <3>1. ~NoSelfConflict'
      BY <1>2, <2>3, SelfConflictStays
    <3>2. QED  BY <2>3, <3>1 DEF Abstract!Next, Abstract!Exception
  <2>4. QED  BY <2>1, <2>2, <2>3
<1>3. QED  BY <1>1, <1>2, SerialInvariance, PTL DEF Spec, IsSerialHistory, Abstract!Spec
=============================================================================
