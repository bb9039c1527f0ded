---------------------------- MODULE CruzDBProofs ----------------------------
(***************************************************************************)
(* First committer wins, for any number of transactions, keys, crashes and *)
(* any index limit.                                                        *)
(***************************************************************************)
EXTENDS CruzDB, MinMaxFacts, FiniteSetTheorems

(* The log starts with the created database, an intention is later than its  *)
(* snapshot.                                                                 *)
LogStarts ==
    /\ Len(log) >= 2
    /\ log[1].type = "intention"
    /\ log[2].type = "afterimage" /\ log[2].intention = 1
    /\ \A p \in IntentionPositions : log[p].snapshot < p

(* In the log l, a tree published for the intention at pos: pos is its latest committed    *)
(* intention, and no two of its intentions conflict.                         *)
GoodTree(l, pos, tree) ==
    /\ \A c \in tree.catalog : c \in DOMAIN l /\ l[c].type = "intention"
    /\ pos \in tree.catalog
    /\ \A c \in tree.catalog : c <= pos
    /\ \A p, q \in tree.catalog : ZoneFree(l, p, q)

GoodAfterImages ==
    \A a \in DOMAIN log :
        log[a].type = "afterimage" => GoodTree(log, log[a].intention, log[a].tree)

GoodQueue ==
    \A i \in DOMAIN lcs_trees : GoodTree(log, lcs_trees[i].pos, lcs_trees[i].tree)

GoodRoot ==
    phase # "closed" => GoodTree(log, root_snapshot, root) /\ root_snapshot < iter

(* Between the decision and the publication. *)
GoodNextRoot ==
    tp.pc = "publish" =>
        /\ phase # "closed"
        /\ root_snapshot < tp.pos /\ tp.pos < iter
        /\ tp.tree.catalog = root.catalog \cup {tp.pos}
        /\ GoodTree(log, tp.pos, tp.tree)

(* The index holds the committed positions from some position on. *)
Catalog == IF tp.pc = "publish" THEN tp.tree.catalog ELSE root.catalog
Newest  == IF tp.pc = "publish" THEN tp.pos ELSE root_snapshot

GoodIndex ==
    phase # "closed" =>
        /\ index \subseteq Catalog
        /\ index # {} => Newest \in index
        /\ \A i \in index, c \in Catalog : i <= c => c \in index

(* The catalog of a tree built on snapshot s. *)
BuiltOn(tree, s) ==
    /\ s <= root_snapshot
    /\ tree.catalog = {c \in root.catalog : c <= s}

GoodTxn(t) ==
    /\ txn[t].st \in {"active", "append"} =>
          phase # "closed" /\ BuiltOn(txn[t].tree, txn[t].snapshot)
    /\ txn[t].st \in {"idle", "active"} => ~Flush(txn[t].ops)
    /\ txn[t].st = "append" =>
          /\ txn[t].pos \in IntentionPositions
          /\ ~log[txn[t].pos].flush
          /\ log[txn[t].pos].snapshot = txn[t].snapshot

GoodTxns == \A t \in Txns : GoodTxn(t)

GoodFinished ==
    \A p \in DOMAIN finished :
        finished[p] # NullTree =>
            /\ phase # "closed"
            /\ p \in IntentionPositions
            /\ ~log[p].flush
            /\ BuiltOn(finished[p], log[p].snapshot)

Closed ==
    phase = "closed" => tp = IdleTP /\ lcs_trees = <<>>

IInv ==
    /\ TypeOK
    /\ LogStarts
    /\ GoodAfterImages
    /\ GoodQueue
    /\ GoodRoot
    /\ GoodNextRoot
    /\ GoodIndex
    /\ GoodTxns
    /\ GoodFinished
    /\ Closed

-----------------------------------------------------------------------------
(* Facts about the operators. *)

\* Nothing that GoodTree says of a tree depends on what is appended to the log.
LEMMA GoodTreeExtends ==
    ASSUME NEW l, NEW m, NEW pos, NEW tree, GoodTree(l, pos, tree),
           \A p \in DOMAIN l : p \in DOMAIN m /\ m[p] = l[p]
    PROVE  GoodTree(m, pos, tree)
  BY DEF GoodTree, ZoneFree

\* Replaying operations on the contents of a tree gives the contents of a tree.
LEMMA ReplayType ==
    ASSUME NEW kv \in [UserKeys -> Values \cup {NoValue}], NEW ops \in Seq(Op)
    PROVE  ReplayIntention(kv, ops) \in [UserKeys -> Values \cup {NoValue}]
<1>1. ASSUME NEW pk \in UserKeys, UpdatesTo(ops, pk) # {}
      PROVE  ops[Max(UpdatesTo(ops, pk))].val \in Values \cup {NoValue}
  <2> DEFINE i == Max(UpdatesTo(ops, pk))
  <2>1. i \in UpdatesTo(ops, pk)
    <3>1. UpdatesTo(ops, pk) \in SUBSET (0..Len(ops)) /\ Len(ops) \in Nat
      BY DEF UpdatesTo
    <3>2. QED  BY <3>1, <1>1, MaxOfBounded
  <2>2. i \in DOMAIN ops /\ ops[i] \in Op /\ ops[i].op \in {"PUT", "DELETE"}
        /\ UpdatedKey(ops[i]) = pk
    BY <2>1 DEF UpdatesTo
  <2>3. PICK k \in Keys : pk = <<"U", k>>
    BY DEF UserKeys, prefix_string, PREFIX_USER
  <2>4. CASE ops[i].op = "DELETE"
    BY <2>2, <2>4 DEF Op
  <2>5. CASE ops[i].op = "PUT"
    <3>1. ops[i].key = <<"U", k>>
      BY <2>2, <2>3, <2>5 DEF UpdatedKey
    <3>2. ~(ops[i].key \in {PREFIX_COMMITTED_INTENTION} \X Nat)
      BY <3>1 DEF PREFIX_COMMITTED_INTENTION
    <3>3. QED  BY <2>2, <2>5, <3>2 DEF Op
  <2>6. QED  BY <2>2, <2>4, <2>5
<1>2. QED  BY <1>1 DEF ReplayIntention

\* push keeps the new position, drops nothing but the least, and leaves a set
\* that is closed upwards within the committed positions.
LEMMA PushFacts ==
    ASSUME NEW S \in SUBSET Nat, NEW p \in Nat, \A i \in S : i < p
    PROVE  /\ p \in push(S, p)
           /\ push(S, p) \subseteq S \cup {p}
           /\ \A i \in push(S, p), c \in S \cup {p} : i <= c => c \in push(S, p)
<1> DEFINE grown == S \cup {p}
<1>1. Min(grown) \in grown /\ \A y \in grown : Min(grown) <= y
  BY MinOfNats
<1>2. CASE Cardinality(grown) > Limit
  <2>1. push(S, p) = grown \ {Min(grown)}
    BY <1>2 DEF push
  <2>2. p # Min(grown)
    <3>1. SUFFICES ASSUME p = Min(grown) PROVE FALSE
      OBVIOUS
    <3>2. S = {}
      BY <1>1, <3>1
    <3>3. grown = {p}
      BY <3>2
    <3>4. Cardinality(grown) = 1
      BY <3>3, FS_Singleton
    <3>5. QED  BY <3>4, <1>2, LimitAssumption
  <2>3. ASSUME NEW i \in push(S, p), NEW c \in grown, i <= c
        PROVE  c # Min(grown)
    <3>1. i \in Nat /\ c \in Nat /\ i # Min(grown) /\ Min(grown) <= i
      BY <1>1, <2>1
    <3>2. QED  BY <3>1, <2>3
  <2>4. QED  BY <2>1, <2>2, <2>3
<1>3. CASE ~(Cardinality(grown) > Limit)
  BY <1>3 DEF push
<1>4. QED  BY <1>2, <1>3

\* The zone contains every committed position after the snapshot, when the
\* index is closed upwards within the catalog.
LEMMA ZoneCovers ==
    ASSUME NEW I \in SUBSET Nat, NEW C \in SUBSET Nat,
           NEW first \in Nat, NEW last \in Nat,
           I \subseteq C, \A i \in I, c \in C : i <= c => c \in I,
           RangeAsserts(I, C, first, last),
           NEW q \in C, first < q, q <= last
    PROVE  q \in ConflictZone(I, C, first, last)
<1>1. CASE complete(I, first)
  BY <1>1 DEF complete, ConflictZone, range
<1>2. CASE ~complete(I, first)
  <2> DEFINE R == range(I, first, last)
  <2>1. R \in SUBSET Nat /\ last \in R
    <3>1. first < last /\ (I # {} => last \in I)
      BY DEF RangeAsserts
    <3>2. CASE I = {}
      BY <3>2 DEF range
    <3>3. CASE I # {}
      <4>1. R = {i \in I : first <= i /\ i <= last}
        BY <3>3 DEF range
      <4>2. last \in I /\ first <= last /\ last <= last
        BY <3>1, <3>3
      <4>3. last \in R
        BY <4>1, <4>2
      <4>4. R \subseteq Nat
        BY <4>1
      <4>5. QED  BY <4>3, <4>4
    <3>4. QED  BY <3>2, <3>3
  <2>2. Min(R) \in R /\ Min(R) \in Nat
    BY <2>1, MinOfNats
  <2>3. CASE q < Min(R)
    BY <1>2, <2>3 DEF ConflictZone, Unknown
  <2>4. CASE ~(q < Min(R))
    <3>1. q \in R
      <4>1. CASE I = {}
        BY <2>2, <2>4, <4>1 DEF range
      <4>2. CASE I # {}
        BY <2>2, <2>4, <4>2 DEF range
      <4>3. QED  BY <4>1, <4>2
    <3>2. QED  BY <3>1 DEF ConflictZone
  <2>5. QED  BY <2>3, <2>4
<1>3. QED  BY <1>1, <1>2

\* There is always a restore point, and what is restored is the tree of an
\* after-image of that intention.
LEMMA RestoreFacts ==
    ASSUME TypeOK, LogStarts
    PROVE  /\ RestorePoint \in IntentionPositions
           /\ \E a \in DOMAIN log :
                 /\ log[a].type = "afterimage"
                 /\ log[a].intention = RestorePoint
                 /\ RestoreTree = log[a].tree
           /\ RestoreTree \in Tree
           /\ RestorePoint \in Nat
           /\ Max(IntentionPositions) \in Nat
<1> DEFINE S == {p \in IntentionPositions : AfterImagePositions(p) # {}}
<1>1. log \in Seq(Entry) /\ Len(log) \in Nat /\ DOMAIN log = 1..Len(log)
  BY DEF TypeOK
<1>2. 1 \in IntentionPositions /\ 2 \in AfterImagePositions(1)
  BY <1>1 DEF LogStarts, IntentionPositions, AfterImagePositions
<1>3. IntentionPositions \in SUBSET (0..Len(log)) /\ S \in SUBSET (0..Len(log))
  BY <1>1 DEF IntentionPositions
<1>4. S # {} /\ IntentionPositions # {}
  BY <1>2
<1>5. RestorePoint \in S
  BY <1>1, <1>3, <1>4, MaxOfBounded DEF RestorePoint
<1>6. Max(IntentionPositions) \in IntentionPositions
  BY <1>1, <1>3, <1>4, MaxOfBounded
<1> DEFINE a == Min(AfterImagePositions(RestorePoint))
<1>7. a \in AfterImagePositions(RestorePoint)
  <2>1. AfterImagePositions(RestorePoint) \in SUBSET Nat
    BY <1>1 DEF AfterImagePositions
  <2>2. AfterImagePositions(RestorePoint) # {}
    BY <1>5
  <2>3. QED  BY <2>1, <2>2, MinOfNats
<1>8. a \in DOMAIN log /\ log[a].type = "afterimage" /\ log[a].intention = RestorePoint
  BY <1>7 DEF AfterImagePositions
<1>9. RestoreTree = log[a].tree
  BY DEF RestoreTree
<1>10. log[a].tree \in Tree
  <2>1. log[a] \in Entry
    BY <1>1, <1>8
  <2>2. QED  BY <2>1, <1>8 DEF Entry
<1>11. RestorePoint \in Nat /\ Max(IntentionPositions) \in Nat
  <2>1. \A x \in 0..Len(log) : x \in Nat
    BY <1>1
  <2>2. QED  BY <1>3, <1>5, <1>6, <2>1
<1>12. \E b \in DOMAIN log :
          /\ log[b].type = "afterimage"
          /\ log[b].intention = RestorePoint
          /\ RestoreTree = log[b].tree
  BY <1>8, <1>9
<1>13. QED  BY <1>5, <1>9, <1>10, <1>11, <1>12

\* The next intention of the processor is an intention of the log that it has
\* not passed.
LEMMA PendingFacts ==
    ASSUME TypeOK, Pending # {}
    PROVE  /\ Min(Pending) \in IntentionPositions
           /\ Min(Pending) \in DOMAIN log
           /\ Min(Pending) \in Nat
           /\ iter <= Min(Pending)
           /\ log[Min(Pending)] \in Entry
           /\ log[Min(Pending)].type = "intention"
           /\ log[Min(Pending)].ops \in Seq(Op)
           /\ log[Min(Pending)].snapshot \in Nat
<1>1. log \in Seq(Entry) /\ DOMAIN log = 1..Len(log)
  BY DEF TypeOK
<1>2. Pending \in SUBSET Nat
  BY <1>1 DEF Pending, IntentionPositions
<1>3. Min(Pending) \in Pending
  BY <1>2, MinOfNats
<1>4. /\ Min(Pending) \in DOMAIN log /\ iter <= Min(Pending)
      /\ log[Min(Pending)].type = "intention"
  BY <1>3 DEF Pending, IntentionPositions
<1>5. log[Min(Pending)] \in Entry
  BY <1>1, <1>4
<1>6. /\ log[Min(Pending)].ops \in Seq(Op)
      /\ log[Min(Pending)].snapshot \in Nat
  BY <1>4, <1>5 DEF Entry
<1>7. QED  BY <1>1, <1>3, <1>4, <1>5, <1>6 DEF Pending

\* The tree the processor is about to publish is a tree.
LEMMA NextRootType ==
    ASSUME TypeOK, phase # "closed", NEW p \in DOMAIN log,
           log[p].type = "intention", log[p].ops \in Seq(Op)
    PROVE  NextRoot(p) \in Tree
<1>1. p \in Nat
  BY DEF TypeOK
<1>2. root \in Tree
  BY DEF TypeOK
<1>3. Replayed(p) \in Tree
  <2>1. ReplayIntention(root.kv, log[p].ops) \in [UserKeys -> Values \cup {NoValue}]
    BY <1>2, ReplayType DEF Tree
  <2>2. QED  BY <1>2, <2>1 DEF Replayed, Tree
<1>4. Find(p) # NullTree => Find(p) \in Tree
  BY DEF Find, TypeOK
<1>5. \A tree \in Tree : PutCatalog(tree, p) \in Tree
  BY <1>1 DEF PutCatalog, Tree
<1>6. QED  BY <1>3, <1>4, <1>5 DEF NextRoot

-----------------------------------------------------------------------------
(* Type correctness. *)

\* What is appended to the log is an entry.
LEMMA EntryTypes ==
    /\ \A s \in Nat, t \in Txns \cup {NoToken}, ops \in Seq(Op) :
          IntentionEntry(s, t, ops) \in Entry
    /\ \A p \in Nat, tree \in Tree : AfterImageEntry(p, tree) \in Entry
    /\ FilledEntry \in Entry
<1>1. \A ops : Flush(ops) \in BOOLEAN
  BY DEF Flush
<1>2. \A s \in Nat, t \in Txns \cup {NoToken}, ops \in Seq(Op) :
          IntentionEntry(s, t, ops) \in Entry
  BY <1>1 DEF IntentionEntry, Entry
<1>3. QED  BY <1>2 DEF AfterImageEntry, FilledEntry, Entry

\* A transaction that has not begun, or has ended, is a transaction.
LEMMA IdleTxnType ==
    /\ <<>> \in Seq(Op)
    /\ IdleTxn \in TxnState
<1>1. <<>> \in Seq(Op)
  OBVIOUS
<1>2. QED  BY <1>1 DEF IdleTxn, TxnState

\* The created log, and a database that has not been opened, have their types.
LEMMA InitType == Init => TypeOK
<1> SUFFICES ASSUME Init PROVE TypeOK
  OBVIOUS
<1>1. NoKeys \in [UserKeys -> Values \cup {NoValue}]
  BY DEF NoKeys
<1>2. [kv |-> NoKeys, catalog |-> {1}] \in Tree
  BY <1>1 DEF Tree
<1>3. CreationOps \in Seq(Op)
  <2>1. PutOp(prefix_string(PREFIX_COMMITTED_INTENTION, 1), "") \in Op
    BY DEF PutOp, prefix_string, Op
  <2>2. QED  BY <2>1, ShortSeqs DEF CreationOps
<1>4. CreatedLog \in Seq(Entry)
  <2>1. IntentionEntry(0, NoToken, CreationOps) \in Entry
    BY <1>3, EntryTypes
  <2>2. AfterImageEntry(1, [kv |-> NoKeys, catalog |-> {1}]) \in Entry
    BY <1>2, EntryTypes
  <2>3. QED  BY <2>1, <2>2 DEF CreatedLog
<1>5. IdleTxn \in TxnState
  BY IdleTxnType
<1>6. tp \in [pc : {"next"}, pos : {0}, tree : {NullTree}]
  BY DEF Init, IdleTP
<1>7. txn \in [Txns -> TxnState] /\ \A t \in Txns : txn[t].st = "idle"
  BY <1>5 DEF Init, IdleTxn
<1>8. DOMAIN finished = {}
  BY DEF Init, NoFinished
<1>9. QED  BY <1>4, <1>6, <1>7, <1>8 DEF Init, TypeOK

\* The part of TypeOK that speaks of tp when the log is extended or kept.
LEMMA TPType ==
    ASSUME NEW l \in Seq(Entry), NEW m \in Seq(Entry), NEW x,
           DOMAIN l \subseteq DOMAIN m,
           x \in [pc : {"next"}, pos : {0}, tree : {NullTree}]
                 \cup [pc : {"publish"}, pos : DOMAIN l, tree : Tree]
    PROVE  x \in [pc : {"next"}, pos : {0}, tree : {NullTree}]
                 \cup [pc : {"publish"}, pos : DOMAIN m, tree : Tree]
  OBVIOUS

\* Every step keeps the types; GoodRoot is needed for gc(), which names a node
\* of the tree.
LEMMA TypeStep ==
    ASSUME IInv, [Next]_vars
    PROVE  TypeOK'
<1> USE DEF IInv
<1>0. TypeOK /\ log \in Seq(Entry) /\ Len(log) \in Nat /\ DOMAIN log = 1..Len(log)
  BY DEF TypeOK
<1>a. ASSUME NEW e \in Entry, log' = Append(log, e)
      PROVE  log' \in Seq(Entry) /\ DOMAIN log \subseteq DOMAIN log'
  <2>1. DOMAIN log' = 1..(Len(log) + 1)
    BY <1>0, <1>a, AppendFacts
  <2>2. QED  BY <1>0, <1>a, <2>1, AppendFacts
<1>lose. ASSUME LoseInstance, UNCHANGED <<log, opens, gcs>>
         PROVE  TypeOK'
  <2>1. tp' \in [pc : {"next"}, pos : {0}, tree : {NullTree}]
    BY <1>lose DEF LoseInstance, IdleTP
  <2>2. txn' \in [Txns -> TxnState] /\ \A t \in Txns : txn'[t].st \notin {"active", "append"}
    <3>1. \A t \in Txns : txn[t] \in TxnState
      BY <1>0 DEF TypeOK
    <3>2. \A n \in Nat : [IdleTxn EXCEPT !.st = "lost", !.pos = n] \in TxnState
      BY IdleTxnType DEF TxnState
    <3>3. \A t \in Txns :
             /\ [IdleTxn EXCEPT !.st = "lost", !.pos = txn[t].pos] \in TxnState
             /\ [IdleTxn EXCEPT !.st = "lost", !.pos = txn[t].pos].st = "lost"
      BY <3>1, <3>2, IdleTxnType DEF TxnState
    <3>4. QED  BY <1>lose, <3>1, <3>3 DEF LoseInstance
  <2>3. finished' = NoFinished /\ DOMAIN finished' = {}
    BY <1>lose DEF LoseInstance, NoFinished
  <2>4. lcs_trees' \in Seq([pos : Nat, tree : Tree])
    BY <1>lose, ShortSeqs DEF LoseInstance
  <2>5. {latest', root_snapshot', last_processed', iter', opens', gcs'} \subseteq Nat
    <3>1. opens \in Nat /\ gcs \in Nat
      BY <1>0 DEF TypeOK
    <3>2. /\ latest' = 0 /\ root_snapshot' = 0 /\ last_processed' = 0 /\ iter' = 0
          /\ opens' = opens /\ gcs' = gcs
      BY <1>lose DEF LoseInstance
    <3>3. QED  BY <3>1, <3>2
  <2>6. /\ phase' = "closed" /\ root' = NullTree /\ index' = {} /\ log' \in Seq(Entry)
        /\ \A p \in DOMAIN finished' : finished'[p] \in Tree \cup {NullTree}
    BY <1>lose, <1>0, <2>3 DEF LoseInstance
  <2>7. QED  BY <2>1, <2>2, <2>3, <2>4, <2>5, <2>6 DEF TypeOK
<1>1. CASE Open
  <2>1. log' \in Seq(Entry) /\ DOMAIN log \subseteq DOMAIN log'
    BY <1>1, <1>a, EntryTypes DEF Open
  <2>2. RestoreTree \in Tree /\ RestorePoint \in Nat /\ Max(IntentionPositions) \in Nat
    BY RestoreFacts
  <2>3. tp' \in [pc : {"next"}, pos : {0}, tree : {NullTree}]
                \cup [pc : {"publish"}, pos : DOMAIN log', tree : Tree]
    BY <1>0, <1>1, <2>1, TPType DEF Open, TypeOK
  <2>4. QED  BY <1>0, <1>1, <2>1, <2>2, <2>3 DEF Open, ReplayStart, TypeOK
<1>2. CASE OpenReturns
  BY <1>0, <1>2 DEF OpenReturns, TypeOK
<1>3. CASE Crash
  BY <1>3, <1>lose DEF Crash
<1>4. CASE TPAssertFails
  BY <1>4, <1>lose DEF TPAssertFails
<1>5. ASSUME NEW t \in Txns, Client(t)
      PROVE  TypeOK'
  <2>0. txn[t] \in TxnState /\ txn \in [Txns -> TxnState]
    BY <1>0 DEF TypeOK
  <2>a. ASSUME NEW r \in TxnState, txn' = [txn EXCEPT ![t] = r],
               r.st \in {"active", "append"} => r.tree \in Tree
        PROVE  /\ txn' \in [Txns -> TxnState]
               /\ \A u \in Txns : txn'[u].st \in {"active", "append"} => txn'[u].tree \in Tree
    BY <1>0, <2>0, <2>a DEF TypeOK
  <2>b. ASSUME NEW op \in Op, NEW kv \in [UserKeys -> Values \cup {NoValue}],
               NEW ro \in BOOLEAN, Operate(t, op, kv, ro)
        PROVE  TypeOK'
    <3>1. txn[t].tree \in Tree /\ txn[t].ops \in Seq(Op)
      BY <1>0, <2>0, <2>b DEF Operate, TypeOK, TxnState
    <3>2. Append(txn[t].ops, op) \in Seq(Op)
      BY <3>1
    <3>3. [txn[t].tree EXCEPT !.kv = kv] \in Tree
      BY <3>1 DEF Tree
    <3> DEFINE r == [txn[t] EXCEPT !.ops = Append(txn[t].ops, op),
                                   !.tree = [txn[t].tree EXCEPT !.kv = kv],
                                   !.readonly = ro]
    <3>4. r \in TxnState /\ r.tree \in Tree
      BY <2>0, <3>2, <3>3 DEF TxnState
    <3>5. txn' = [txn EXCEPT ![t] = r]
      BY <2>0, <2>b DEF Operate, TxnState
    <3>6. QED  BY <1>0, <2>a, <2>b, <3>4, <3>5 DEF Operate, TypeOK
  <2>1. CASE BeginTransaction(t)
    <3> DEFINE r == [txn[t] EXCEPT !.st = "active", !.snapshot = root_snapshot, !.tree = root]
    <3>1. root \in Tree /\ root_snapshot \in Nat
      BY <1>0, <2>1 DEF BeginTransaction, TypeOK
    <3>2. r \in TxnState /\ r.tree \in Tree
      BY <2>0, <3>1 DEF TxnState
    <3>3. txn' = [txn EXCEPT ![t] = r]
      BY <2>0, <2>1 DEF BeginTransaction
    <3>4. QED  BY <1>0, <2>1, <2>a, <3>2, <3>3 DEF BeginTransaction, TypeOK
  <2>2. ASSUME NEW k \in Keys, TxnGet(t, k)
        PROVE  TypeOK'
    <3>1. txn[t].st = "active"
      BY <2>2 DEF TxnGet, Operate
    <3>2. txn[t].tree.kv \in [UserKeys -> Values \cup {NoValue}] /\ txn[t].readonly \in BOOLEAN
      BY <1>0, <2>0, <3>1 DEF TypeOK, Tree, TxnState
    <3>3. GetOp(k) \in Op
      BY DEF GetOp, Op
    <3>4. QED  BY <2>2, <2>b, <3>2, <3>3 DEF TxnGet
  <2>3. ASSUME NEW k \in Keys, TxnDelete(t, k)
        PROVE  TypeOK'
    <3>1. txn[t].st = "active"
      BY <2>3 DEF TxnDelete, Operate
    <3>2. txn[t].tree.kv \in [UserKeys -> Values \cup {NoValue}] /\ txn[t].readonly \in BOOLEAN
      BY <1>0, <2>0, <3>1 DEF TypeOK, Tree, TxnState
    <3>3. DeleteOp(k) \in Op
      BY DEF DeleteOp, Op
    <3>4. TreeDelete(txn[t].tree.kv, PREFIX_USER, k) \in [UserKeys -> Values \cup {NoValue}]
      BY <3>2 DEF TreeDelete
    <3> DEFINE ro == txn[t].readonly /\
                       txn[t].tree.kv[prefix_string(PREFIX_USER, k)] = NoValue
    <3>5. ro \in BOOLEAN
      BY <3>2
    <3>6. Operate(t, DeleteOp(k), TreeDelete(txn[t].tree.kv, PREFIX_USER, k), ro)
      BY <2>3 DEF TxnDelete
    <3> HIDE DEF ro
    <3>7. QED  BY <2>b, <3>3, <3>4, <3>5, <3>6
  <2>4. ASSUME NEW k \in Keys, NEW v \in Values, TxnPut(t, k, v)
        PROVE  TypeOK'
    <3>1. txn[t].st = "active"
      BY <2>4 DEF TxnPut, Operate
    <3> DEFINE pkey == prefix_string(PREFIX_USER, k)
    <3>2. txn[t].tree.kv \in [UserKeys -> Values \cup {NoValue}]
      BY <1>0, <2>0, <3>1 DEF TypeOK, Tree, TxnState
    <3>3. pkey \in UserKeys
      BY DEF UserKeys
    <3>4. PutOp(pkey, v) \in Op
      BY <3>3 DEF PutOp, Op
    <3>5. TreePut(txn[t].tree.kv, pkey, v) \in [UserKeys -> Values \cup {NoValue}]
      BY <3>2, <3>3 DEF TreePut
    <3>6. Operate(t, PutOp(pkey, v), TreePut(txn[t].tree.kv, pkey, v), FALSE)
      BY <2>4 DEF TxnPut
    <3>7. QED  BY <2>b, <3>4, <3>5, <3>6
  <2>5. CASE CommitReadOnly(t)
    <3> DEFINE r == [IdleTxn EXCEPT !.st = "readonly"]
    <3>1. r \in TxnState /\ r.st = "readonly"
      BY IdleTxnType DEF TxnState
    <3>2. txn' = [txn EXCEPT ![t] = r]
      BY <2>5 DEF CommitReadOnly
    <3>3. QED  BY <1>0, <2>5, <2>a, <3>1, <3>2 DEF CommitReadOnly, TypeOK
  <2>6. CASE CommitAppend(t)
    <3> DEFINE r == [txn[t] EXCEPT !.st = "append", !.ops = <<>>, !.pos = Len(log) + 1]
    <3>1. txn[t].snapshot \in Nat /\ txn[t].ops \in Seq(Op) /\ txn[t].tree \in Tree
      BY <1>0, <2>0, <2>6 DEF CommitAppend, TypeOK, TxnState
    <3>2. r \in TxnState /\ r.tree \in Tree
      <4>1. \A e \in Seq(Op), n \in Nat :
               /\ [txn[t] EXCEPT !.st = "append", !.ops = e, !.pos = n] \in TxnState
               /\ [txn[t] EXCEPT !.st = "append", !.ops = e, !.pos = n].tree = txn[t].tree
        BY <2>0 DEF TxnState
      <4>2. <<>> \in Seq(Op) /\ Len(log) + 1 \in Nat
        BY <1>0, ShortSeqs
      <4>3. QED  BY <3>1, <4>1, <4>2
    <3>3. txn' = [txn EXCEPT ![t] = r]
      BY <2>0, <2>6 DEF CommitAppend
    <3>4. log' \in Seq(Entry) /\ DOMAIN log \subseteq DOMAIN log'
      BY <2>6, <3>1, <1>a, EntryTypes DEF CommitAppend
    <3>5. tp' \in [pc : {"next"}, pos : {0}, tree : {NullTree}]
                  \cup [pc : {"publish"}, pos : DOMAIN log', tree : Tree]
      BY <1>0, <2>6, <3>4, TPType DEF CommitAppend, TypeOK
    <3>6. QED  BY <1>0, <2>6, <2>a, <3>2, <3>3, <3>4, <3>5 DEF CommitAppend, TypeOK
  <2>7. CASE CommitInsert(t)
    <3> DEFINE r == [txn[t] EXCEPT !.st = "wait", !.tree = NullTree]
    <3>1. r \in TxnState /\ r.st = "wait"
      BY <2>0 DEF TxnState
    <3>2. txn' = [txn EXCEPT ![t] = r]
      BY <2>0, <2>7 DEF CommitInsert
    <3>3. txn[t].pos \in Nat /\ txn[t].tree \in Tree
      BY <1>0, <2>0, <2>7 DEF CommitInsert, TypeOK, TxnState
    <3>4. /\ DOMAIN finished' \subseteq Nat
          /\ \A p \in DOMAIN finished' : finished'[p] \in Tree \cup {NullTree}
      BY <1>0, <2>7, <3>3 DEF CommitInsert, TypeOK
    <3>5. QED  BY <1>0, <2>7, <2>a, <3>1, <3>2, <3>4 DEF CommitInsert, TypeOK
  <2>8. CASE CommitReturns(t)
    <3> DEFINE r == [IdleTxn EXCEPT
                       !.st = IF txn[t].decision = "commit" THEN "committed" ELSE "aborted",
                       !.pos = txn[t].pos]
    <3>1. r \in TxnState /\ r.st \notin {"active", "append"}
      BY <2>0, IdleTxnType DEF TxnState
    <3>2. txn' = [txn EXCEPT ![t] = r]
      BY <2>8 DEF CommitReturns
    <3> HIDE DEF r
    <3>3. QED  BY <1>0, <2>8, <2>a, <3>1, <3>2 DEF CommitReturns, TypeOK
  <2>9. QED
    BY <1>5, <2>1, <2>2, <2>3, <2>4, <2>5, <2>6, <2>7, <2>8 DEF Client
<1>6. CASE Gc
  <2>1. root.catalog \in SUBSET Nat /\ root.catalog # {}
    BY <1>0, <1>6 DEF Gc, TypeOK, Tree, GoodRoot, GoodTree
  <2>2. Min(root.catalog) \in Nat
    BY <2>1, MinOfNats
  <2> DEFINE pkey == prefix_string(PREFIX_COMMITTED_INTENTION, Min(root.catalog))
  <2>3. CopyOp(pkey) \in Op
    BY <2>2 DEF CopyOp, Op, prefix_string
  <2>4. <<CopyOp(pkey)>> \in Seq(Op)
    BY <2>3
  <2>5. log' \in Seq(Entry) /\ DOMAIN log \subseteq DOMAIN log'
    BY <1>6, <2>4, <1>a, EntryTypes DEF Gc
  <2>6. tp' \in [pc : {"next"}, pos : {0}, tree : {NullTree}]
                \cup [pc : {"publish"}, pos : DOMAIN log', tree : Tree]
    BY <1>0, <1>6, <2>5, TPType DEF Gc, TypeOK
  <2>7. QED  BY <1>0, <1>6, <2>5, <2>6 DEF Gc, TypeOK
<1>7. CASE TPCommit
  <2> DEFINE p == Min(Pending)
  <2>1. Pending # {} /\ phase # "closed"
    BY <1>7 DEF TPCommit
  <2>2. p \in DOMAIN log /\ p \in Nat /\ log[p].type = "intention" /\ log[p].ops \in Seq(Op)
    BY <2>1, PendingFacts
  <2>3. NextRoot(p) \in Tree
    BY <2>1, <2>2, NextRootType
  <2> HIDE DEF p
  <2>4. /\ index' = push(index, p)
        /\ tp' = [pc |-> "publish", pos |-> p, tree |-> NextRoot(p)]
        /\ finished' = IF Serial(p) /\ p \in DOMAIN finished
                       THEN [finished EXCEPT ![p] = NullTree]
                       ELSE finished
        /\ iter' = p + 1
        /\ UNCHANGED <<log, phase, latest, root, root_snapshot, last_processed,
                       lcs_trees, txn, opens, gcs>>
    BY <1>7 DEF TPCommit, p
  <2>5. index' \subseteq Nat
    BY <1>0, <2>2, <2>4 DEF push, TypeOK
  <2>6. tp' \in [pc : {"publish"}, pos : DOMAIN log', tree : Tree]
    BY <2>2, <2>3, <2>4
  <2>7. /\ DOMAIN finished' \subseteq Nat
        /\ \A q \in DOMAIN finished' : finished'[q] \in Tree \cup {NullTree}
    BY <1>0, <2>4 DEF TypeOK
  <2>8. QED  BY <1>0, <2>2, <2>4, <2>5, <2>6, <2>7 DEF TypeOK
<1>n. ASSUME NEW token, NEW d \in {"commit", "abort"}, txn' = NotifyTransaction(token, d)
      PROVE  /\ txn' \in [Txns -> TxnState]
             /\ \A u \in Txns : txn'[u].st \in {"active", "append"} => txn'[u].tree \in Tree
  <2>1. CASE token \in Txns
    <3>1. txn[token] \in TxnState
      BY <1>0, <2>1 DEF TypeOK
    <3>2. [txn[token] EXCEPT !.decision = d] \in TxnState
      BY <3>1 DEF TxnState
    <3>3. [txn[token] EXCEPT !.decision = d].st = txn[token].st
          /\ [txn[token] EXCEPT !.decision = d].tree = txn[token].tree
      BY <3>1 DEF TxnState
    <3>4. QED  BY <1>0, <1>n, <2>1, <3>2, <3>3 DEF NotifyTransaction, TypeOK
  <2>2. CASE token \notin Txns
    BY <1>0, <1>n, <2>2 DEF NotifyTransaction, TypeOK
  <2>3. QED  BY <2>1, <2>2
<1>8. CASE TPPublish
  <2>1. tp.pos \in DOMAIN log /\ tp.pos \in Nat /\ tp.tree \in Tree
    BY <1>0, <1>8 DEF TPPublish, TypeOK
  <2>2. lcs_trees' \in Seq([pos : Nat, tree : Tree])
    BY <1>0, <1>8, <2>1 DEF TPPublish, TypeOK
  <2>3. tp' \in [pc : {"next"}, pos : {0}, tree : {NullTree}]
    BY <1>8 DEF TPPublish, IdleTP
  <2>4. /\ txn' \in [Txns -> TxnState]
        /\ \A u \in Txns : txn'[u].st \in {"active", "append"} => txn'[u].tree \in Tree
    BY <1>8, <1>n DEF TPPublish
  <2>5. QED  BY <1>0, <1>8, <2>1, <2>2, <2>3, <2>4 DEF TPPublish, TypeOK
<1>9. CASE TPAbort
  <2> DEFINE p == Min(Pending)
  <2>1. p \in Nat
    BY <1>9, PendingFacts DEF TPAbort
  <2> HIDE DEF p
  <2>2. /\ txn' = NotifyTransaction(log[p].token, "abort")
        /\ last_processed' = p
        /\ iter' = p + 1
        /\ UNCHANGED <<log, phase, latest, root, root_snapshot, index, tp,
                       finished, lcs_trees, opens, gcs>>
    BY <1>9 DEF TPAbort, p
  <2>3. /\ txn' \in [Txns -> TxnState]
        /\ \A u \in Txns : txn'[u].st \in {"active", "append"} => txn'[u].tree \in Tree
    BY <2>2, <1>n
  <2>4. QED  BY <1>0, <2>1, <2>2, <2>3 DEF TypeOK
<1>10. CASE WriteAfterImage
  <2>1. Head(lcs_trees) \in [pos : Nat, tree : Tree] /\ Tail(lcs_trees) \in Seq([pos : Nat, tree : Tree])
    BY <1>0, <1>10, TailFacts DEF WriteAfterImage, TypeOK
  <2>2. log' \in Seq(Entry) /\ DOMAIN log \subseteq DOMAIN log'
    BY <1>10, <2>1, <1>a, EntryTypes DEF WriteAfterImage
  <2>3. tp' \in [pc : {"next"}, pos : {0}, tree : {NullTree}]
                \cup [pc : {"publish"}, pos : DOMAIN log', tree : Tree]
    BY <1>0, <1>10, <2>2, TPType DEF WriteAfterImage, TypeOK
  <2>4. QED  BY <1>0, <1>10, <2>1, <2>2, <2>3 DEF WriteAfterImage, TypeOK
<1>11. CASE Janitor
  BY <1>0, <1>11 DEF Janitor, Clean, TypeOK
<1>12. CASE UNCHANGED vars
  BY <1>0, <1>12 DEF vars, TypeOK
<1>13. QED
  BY <1>1, <1>2, <1>3, <1>4, <1>5, <1>6, <1>7, <1>8, <1>9, <1>10, <1>11, <1>12 DEF Next

-----------------------------------------------------------------------------
(* The inductive invariant. *)

(* The steps that end an instance. *)
Lost == LoseInstance /\ log' = log

\* Which actions change what.
LEMMA Frame ==
    ASSUME [Next]_vars
    PROVE  /\ \/ log' = log
              \/ Open \/ Gc \/ WriteAfterImage
              \/ \E t \in Txns : CommitAppend(t)
           /\ lcs_trees' = lcs_trees \/ TPPublish \/ WriteAfterImage \/ Lost
           /\ phase' = phase \/ Open \/ OpenReturns \/ Lost
           /\ UNCHANGED <<root, root_snapshot>> \/ Open \/ TPPublish \/ Lost
           /\ tp' = tp \/ TPCommit \/ TPPublish \/ Lost
           /\ index' = index \/ Open \/ TPCommit \/ Lost
           /\ iter' = iter \/ Open \/ TPCommit \/ TPAbort \/ Lost
           /\ \/ finished' = finished \/ TPCommit \/ Janitor \/ Lost
              \/ \E t \in Txns : CommitInsert(t)
           /\ txn' = txn \/ TPPublish \/ TPAbort \/ Lost \/ \E t \in Txns : Client(t)
<1> USE DEF Lost
<1>1. CASE Open                        BY <1>1 DEF Open
<1>2. CASE OpenReturns                 BY <1>2 DEF OpenReturns
<1>3. CASE Crash                       BY <1>3 DEF Crash
<1>4. CASE TPAssertFails               BY <1>4 DEF TPAssertFails
<1>5. ASSUME NEW t \in Txns, Client(t)
      PROVE  /\ log' = log \/ \E u \in Txns : CommitAppend(u)
             /\ UNCHANGED <<phase, root, root_snapshot, index, iter, tp, lcs_trees>>
             /\ finished' = finished \/ \E u \in Txns : CommitInsert(u)
  <2>1. CASE BeginTransaction(t)       BY <2>1 DEF BeginTransaction
  <2>2. CASE \E k \in Keys : TxnGet(t, k) \/ TxnDelete(t, k)
    BY <2>2 DEF TxnGet, TxnDelete, Operate
  <2>3. CASE \E k \in Keys, v \in Values : TxnPut(t, k, v)
    BY <2>3 DEF TxnPut, Operate
  <2>4. CASE CommitReadOnly(t)         BY <2>4 DEF CommitReadOnly
  <2>5. CASE CommitAppend(t)           BY <2>5 DEF CommitAppend
  <2>6. CASE CommitInsert(t)           BY <2>6 DEF CommitInsert
  <2>7. CASE CommitReturns(t)          BY <2>7 DEF CommitReturns
  <2>8. QED  BY <1>5, <2>1, <2>2, <2>3, <2>4, <2>5, <2>6, <2>7 DEF Client
<1>6. CASE Gc                          BY <1>6 DEF Gc
<1>7. CASE TPCommit                    BY <1>7 DEF TPCommit
<1>8. CASE TPPublish                   BY <1>8 DEF TPPublish
<1>9. CASE TPAbort                     BY <1>9 DEF TPAbort
<1>10. CASE WriteAfterImage            BY <1>10 DEF WriteAfterImage
<1>11. CASE Janitor                    BY <1>11 DEF Janitor
<1>12. CASE UNCHANGED vars             BY <1>12 DEF vars
<1>13. QED
  BY <1>1, <1>2, <1>3, <1>4, <1>5, <1>6, <1>7, <1>8, <1>9, <1>10, <1>11, <1>12 DEF Next

\* The log only grows, by at most one entry, and a new intention is later than
\* its snapshot.
LEMMA LogGrows ==
    ASSUME IInv, [Next]_vars
    PROVE  /\ \A p \in DOMAIN log : p \in DOMAIN log' /\ log'[p] = log[p]
           /\ \/ log' = log
              \/ /\ log' = Append(log, log'[Len(log) + 1])
                 /\ log'[Len(log) + 1] \in Entry
                 /\ DOMAIN log' = DOMAIN log \cup {Len(log) + 1}
                 /\ log'[Len(log) + 1].type = "intention" =>
                        log'[Len(log) + 1].snapshot < Len(log) + 1
                 /\ log'[Len(log) + 1].type = "afterimage" => WriteAfterImage
           /\ LogStarts'
<1> USE DEF IInv
<1>0. log \in Seq(Entry) /\ Len(log) \in Nat /\ DOMAIN log = 1..Len(log)
  BY DEF TypeOK
<1>a. ASSUME NEW e \in Entry, log' = Append(log, e),
             e.type = "intention" => e.snapshot < Len(log) + 1,
             e.type = "afterimage" => WriteAfterImage
      PROVE  /\ \A p \in DOMAIN log : p \in DOMAIN log' /\ log'[p] = log[p]
             /\ log' = Append(log, log'[Len(log) + 1])
             /\ log'[Len(log) + 1] \in Entry
             /\ DOMAIN log' = DOMAIN log \cup {Len(log) + 1}
             /\ log'[Len(log) + 1].type = "intention" =>
                        log'[Len(log) + 1].snapshot < Len(log) + 1
             /\ log'[Len(log) + 1].type = "afterimage" => WriteAfterImage
             /\ Len(log') = Len(log) + 1
  <2>1. /\ DOMAIN log' = 1..(Len(log) + 1) /\ Len(log') = Len(log) + 1
        /\ \A i \in DOMAIN log : log'[i] = log[i]
        /\ log'[Len(log) + 1] = e
    BY <1>0, <1>a, AppendFacts
  <2>2. 1..(Len(log) + 1) = (1..Len(log)) \cup {Len(log) + 1}
    BY <1>0
  <2>3. QED  BY <1>0, <1>a, <2>1, <2>2
<1>b. ASSUME NEW e \in Entry, log' = Append(log, e),
             e.type = "intention" => e.snapshot < Len(log) + 1,
             e.type = "afterimage" => WriteAfterImage
      PROVE  LogStarts'
  <2>1. \A p \in IntentionPositions' : log'[p].snapshot < p
    <3>1. TAKE p \in IntentionPositions'
    <3>2. CASE p \in DOMAIN log
      <4>1. log'[p] = log[p] /\ p \in IntentionPositions
        BY <1>a, <1>b, <3>1, <3>2 DEF IntentionPositions
      <4>2. QED  BY <4>1 DEF LogStarts
    <3>3. CASE p = Len(log) + 1
      BY <1>a, <1>b, <3>1, <3>3 DEF IntentionPositions
    <3>4. QED  BY <1>a, <1>b, <3>1, <3>2, <3>3 DEF IntentionPositions
  <2>2. 1 \in DOMAIN log /\ 2 \in DOMAIN log /\ Len(log') >= 2
    BY <1>0, <1>a, <1>b DEF LogStarts
  <2>3. log'[1] = log[1] /\ log'[2] = log[2]
    BY <1>a, <1>b, <2>2
  <2>4. QED  BY <2>1, <2>2, <2>3 DEF LogStarts
<1>1. CASE log' = log
  <2>1. IntentionPositions' = IntentionPositions
    BY <1>1 DEF IntentionPositions
  <2>2. LogStarts'
    BY <1>1, <2>1 DEF LogStarts
  <2>3. QED  BY <1>1, <2>2
<1>2. CASE Open
  <2>1. FilledEntry \in Entry /\ FilledEntry.type = "filled"
    BY EntryTypes DEF FilledEntry
  <2>2. log' = Append(log, FilledEntry)
    BY <1>2 DEF Open
  <2>3. QED  BY <1>a, <1>b, <2>1, <2>2
<1>3. CASE Gc
  <2>1. PICK ops : log' = Append(log, IntentionEntry(0, NoToken, ops))
    BY <1>3 DEF Gc
  <2>2. TypeOK'
    BY TypeStep
  <2> DEFINE e == IntentionEntry(0, NoToken, ops)
  <2>3. e.type = "intention" /\ e.snapshot = 0
    BY DEF IntentionEntry
  <2>4. e \in Entry
    <3>1. Len(log) + 1 \in DOMAIN log' /\ log'[Len(log) + 1] = e
      BY <1>0, <2>1
    <3>2. QED  BY <2>2, <3>1 DEF TypeOK
  <2>5. log' = Append(log, e) /\ e.snapshot < Len(log) + 1
    BY <1>0, <2>1, <2>3
  <2> HIDE DEF e
  <2>6. QED  BY <1>a, <1>b, <2>3, <2>4, <2>5
<1>4. CASE \E t \in Txns : CommitAppend(t)
  <2>1. PICK t \in Txns : CommitAppend(t)
    BY <1>4
  <2> DEFINE e == IntentionEntry(txn[t].snapshot, t, txn[t].ops)
  <2>2. txn[t] \in TxnState /\ txn[t].snapshot \in Nat /\ txn[t].ops \in Seq(Op)
    BY DEF TypeOK, TxnState
  <2>3. e \in Entry /\ e.type = "intention" /\ e.snapshot = txn[t].snapshot
    BY <2>2, EntryTypes DEF IntentionEntry
  <2>4. txn[t].snapshot <= root_snapshot /\ phase # "closed" /\ root_snapshot \in Nat
    BY <2>1 DEF CommitAppend, GoodTxns, GoodTxn, BuiltOn, TypeOK
  <2>5. root_snapshot \in DOMAIN log
    BY <2>4 DEF GoodRoot, GoodTree
  <2>6. e.snapshot < Len(log) + 1
    BY <1>0, <2>2, <2>3, <2>4, <2>5
  <2>7. log' = Append(log, e)
    BY <2>1 DEF CommitAppend
  <2> HIDE DEF e
  <2>8. QED  BY <1>a, <1>b, <2>3, <2>6, <2>7
<1>5. CASE WriteAfterImage
  <2> DEFINE e == AfterImageEntry(Head(lcs_trees).pos, Head(lcs_trees).tree)
  <2>1. Head(lcs_trees) \in [pos : Nat, tree : Tree]
    BY <1>5, TailFacts DEF WriteAfterImage, TypeOK
  <2>2. e \in Entry /\ e.type = "afterimage"
    BY <2>1, EntryTypes DEF AfterImageEntry
  <2>3. log' = Append(log, e)
    BY <1>5 DEF WriteAfterImage
  <2> HIDE DEF e
  <2>4. QED  BY <1>5, <1>a, <1>b, <2>2, <2>3
<1>6. QED  BY <1>1, <1>2, <1>3, <1>4, <1>5, Frame

\* The after-images in the log, the trees waiting to be written and the current
\* root are good trees after every step.
LEMMA TreesStep ==
    ASSUME IInv, [Next]_vars
    PROVE  GoodAfterImages' /\ GoodQueue' /\ GoodRoot' /\ Closed'
<1> USE DEF IInv
<1>0. /\ log \in Seq(Entry) /\ Len(log) \in Nat /\ DOMAIN log = 1..Len(log)
      /\ lcs_trees \in Seq([pos : Nat, tree : Tree])
      /\ root_snapshot \in Nat /\ iter \in Nat
  BY DEF TypeOK
<1>1. \A p \in DOMAIN log : p \in DOMAIN log' /\ log'[p] = log[p]
  BY LogGrows
<1>2. \A pos, tree : GoodTree(log, pos, tree) => GoodTree(log', pos, tree)
  BY <1>1, GoodTreeExtends
<1>3. GoodAfterImages'
  <2>1. CASE log' = log
    BY <2>1 DEF GoodAfterImages
  <2>2. CASE WriteAfterImage
    <3>1. /\ log' = Append(log, AfterImageEntry(Head(lcs_trees).pos, Head(lcs_trees).tree))
          /\ lcs_trees # <<>>
      BY <2>2 DEF WriteAfterImage
    <3>2. Head(lcs_trees) = lcs_trees[1] /\ 1 \in DOMAIN lcs_trees
          /\ Head(lcs_trees) \in [pos : Nat, tree : Tree]
      BY <1>0, <3>1, TailFacts
    <3> DEFINE e == AfterImageEntry(Head(lcs_trees).pos, Head(lcs_trees).tree)
    <3>3. e.intention = lcs_trees[1].pos /\ e.tree = lcs_trees[1].tree /\ e \in Entry
      BY <3>2, EntryTypes DEF AfterImageEntry
    <3> HIDE DEF e
    <3>4. log'[Len(log) + 1] = e /\ DOMAIN log' = 1..(Len(log) + 1)
      BY <1>0, <3>1, <3>3, AppendFacts DEF e
    <3>5. ASSUME NEW a \in DOMAIN log', log'[a].type = "afterimage"
          PROVE  GoodTree(log', log'[a].intention, log'[a].tree)
      <4>1. CASE a \in DOMAIN log
        BY <1>1, <1>2, <3>5, <4>1 DEF GoodAfterImages
      <4>2. CASE a = Len(log) + 1
        <5>1. GoodTree(log', lcs_trees[1].pos, lcs_trees[1].tree)
          BY <1>2, <3>2 DEF GoodQueue
        <5>2. QED  BY <3>3, <3>4, <4>2, <5>1
      <4>3. QED  BY <1>0, <3>4, <4>1, <4>2
    <3>6. QED  BY <3>5 DEF GoodAfterImages
  <2>3. CASE log' # log /\ ~WriteAfterImage
    <3>1. /\ DOMAIN log' = DOMAIN log \cup {Len(log) + 1}
          /\ log'[Len(log) + 1].type # "afterimage"
      BY <2>3, LogGrows
    <3>2. ASSUME NEW a \in DOMAIN log', log'[a].type = "afterimage"
          PROVE  GoodTree(log', log'[a].intention, log'[a].tree)
      <4>1. a \in DOMAIN log
        BY <3>1, <3>2
      <4>2. QED  BY <1>1, <1>2, <3>2, <4>1 DEF GoodAfterImages
    <3>3. QED  BY <3>2 DEF GoodAfterImages
  <2>4. QED  BY <2>1, <2>2, <2>3
<1>4. GoodQueue'
  <2>1. CASE lcs_trees' = lcs_trees
    BY <1>2, <2>1 DEF GoodQueue
  <2>2. CASE TPPublish
    <3>1. /\ lcs_trees' = Append(lcs_trees, [pos |-> tp.pos, tree |-> tp.tree])
          /\ tp.pc = "publish"
      BY <2>2 DEF TPPublish
    <3>2. [pos |-> tp.pos, tree |-> tp.tree] \in [pos : Nat, tree : Tree]
      BY <1>0, <3>1 DEF TypeOK
    <3>3. /\ DOMAIN lcs_trees = 1..Len(lcs_trees)
          /\ DOMAIN lcs_trees' = 1..(Len(lcs_trees) + 1)
          /\ \A i \in DOMAIN lcs_trees : lcs_trees'[i] = lcs_trees[i]
          /\ lcs_trees'[Len(lcs_trees) + 1] = [pos |-> tp.pos, tree |-> tp.tree]
      BY <1>0, <3>1, <3>2, AppendFacts
    <3>4. GoodTree(log', tp.pos, tp.tree)
      BY <1>2, <3>1 DEF GoodNextRoot
    <3>5. ASSUME NEW i \in DOMAIN lcs_trees'
          PROVE  GoodTree(log', lcs_trees'[i].pos, lcs_trees'[i].tree)
      <4>1. CASE i \in DOMAIN lcs_trees
        BY <1>2, <3>3, <4>1 DEF GoodQueue
      <4>2. CASE i = Len(lcs_trees) + 1
        BY <3>3, <3>4, <4>2
      <4>3. QED  BY <1>0, <3>3, <4>1, <4>2
    <3>6. QED  BY <3>5 DEF GoodQueue
  <2>3. CASE WriteAfterImage
    <3>1. lcs_trees' = Tail(lcs_trees) /\ lcs_trees # <<>>
      BY <2>3 DEF WriteAfterImage
    <3>2. \A i \in DOMAIN lcs_trees' : i + 1 \in DOMAIN lcs_trees /\ lcs_trees'[i] = lcs_trees[i + 1]
      BY <1>0, <3>1, TailFacts
    <3>3. QED  BY <1>2, <3>2 DEF GoodQueue
  <2>4. CASE Lost
    <3>1. lcs_trees' = <<>>
      BY <2>4 DEF Lost, LoseInstance
    <3>2. DOMAIN lcs_trees' = {}
      BY <3>1
    <3>3. QED  BY <3>2 DEF GoodQueue
  <2>5. QED  BY <2>1, <2>2, <2>3, <2>4, Frame
<1>5. GoodRoot'
  <2>1. CASE Open
    <3>1. PICK a \in DOMAIN log :
             /\ log[a].type = "afterimage" /\ log[a].intention = RestorePoint
             /\ RestoreTree = log[a].tree
      BY RestoreFacts
    <3>2. GoodTree(log', RestorePoint, RestoreTree)
      BY <1>2, <3>1 DEF GoodAfterImages
    <3>3. RestorePoint \in Nat
      BY RestoreFacts
    <3>4. root' = RestoreTree /\ root_snapshot' = RestorePoint /\ iter' = RestorePoint + 1
      BY <2>1 DEF Open, ReplayStart
    <3>5. QED  BY <3>2, <3>3, <3>4 DEF GoodRoot
  <2>2. CASE TPPublish
    <3>1. tp.pc = "publish" /\ root' = tp.tree /\ root_snapshot' = tp.pos /\ iter' = iter
      BY <2>2 DEF TPPublish
    <3>2. GoodTree(log', tp.pos, tp.tree) /\ tp.pos < iter
      BY <1>2, <3>1 DEF GoodNextRoot
    <3>3. QED  BY <3>1, <3>2 DEF GoodRoot
  <2>3. CASE Lost
    BY <2>3 DEF Lost, LoseInstance, GoodRoot
  <2>4. CASE UNCHANGED <<root, root_snapshot>> /\ ~Open /\ ~Lost
    <3>1. phase' # "closed" => phase # "closed"
      BY <2>4, Frame DEF OpenReturns
    <3>2. iter' \in Nat /\ iter <= iter'
      <4>1. CASE iter' = iter
        BY <1>0, <4>1
      <4>2. CASE TPCommit \/ TPAbort
        <5>1. iter' = Min(Pending) + 1 /\ Pending # {}
          BY <4>2 DEF TPCommit, TPAbort
        <5>2. Min(Pending) \in Nat /\ iter <= Min(Pending)
          BY <5>1, PendingFacts
        <5>3. QED  BY <1>0, <5>1, <5>2
      <4>3. QED  BY <2>4, <4>1, <4>2, Frame
    <3>3. phase' # "closed" => GoodTree(log', root_snapshot, root) /\ root_snapshot < iter'
      BY <1>0, <1>2, <3>1, <3>2 DEF GoodRoot
    <3>4. QED  BY <2>4, <3>3 DEF GoodRoot
  <2>5. QED  BY <2>1, <2>2, <2>3, <2>4, Frame
<1>6. Closed'
  <2>1. CASE Lost
    BY <2>1 DEF Lost, LoseInstance, Closed
  <2>2. CASE ~Lost /\ phase' = "closed"
    <3>1. phase = "closed" /\ phase' = phase
      BY <2>2, Frame DEF Open, OpenReturns
    <3>2. ~TPCommit /\ ~TPPublish /\ ~WriteAfterImage
      BY <3>1 DEF TPCommit, TPPublish, WriteAfterImage
    <3>3. QED  BY <2>2, <3>1, <3>2, Frame DEF Closed
  <2>3. QED  BY <2>1, <2>2 DEF Closed
<1>7. QED  BY <1>3, <1>4, <1>5, <1>6

\* What the decision to commit leaves for the publication: the processor has
\* compared the intention with everything committed after its snapshot, and the
\* tree it takes from finished_txns_ was built on the current root.
LEMMA CommitFacts ==
    ASSUME IInv, TPCommit
    PROVE  LET p == Min(Pending)
           IN  /\ tp' = [pc |-> "publish", pos |-> p, tree |-> NextRoot(p)]
               /\ index' = push(index, p)
               /\ phase' = phase /\ phase # "closed"
               /\ UNCHANGED <<log, root, root_snapshot>>
               /\ iter' = p + 1
               /\ p \in Nat /\ root_snapshot \in Nat /\ root_snapshot < p
               /\ NextRoot(p).catalog = root.catalog \cup {p}
               /\ GoodTree(log, p, NextRoot(p))
<1> USE DEF IInv
<1> DEFINE p == Min(Pending)
<1>1. /\ p \in IntentionPositions /\ p \in DOMAIN log /\ p \in Nat /\ iter <= p
      /\ log[p].type = "intention" /\ log[p].ops \in Seq(Op) /\ log[p].snapshot \in Nat
  BY PendingFacts DEF TPCommit
<1>2. /\ tp' = [pc |-> "publish", pos |-> p, tree |-> NextRoot(p)]
      /\ index' = push(index, p) /\ iter' = p + 1
      /\ phase # "closed" /\ UNCHANGED <<log, phase, root, root_snapshot>>
      /\ tp.pc = "next"
      /\ \/ Serial(p)
         \/ /\ RangeAsserts(index, root.catalog, log[p].snapshot, root_snapshot)
            /\ ~Conflicts(p)
  BY DEF TPCommit
<1> HIDE DEF p
<1>3. /\ root_snapshot \in Nat /\ iter \in Nat /\ index \in SUBSET Nat
      /\ root \in Tree /\ root.catalog \in SUBSET Nat
  BY <1>2 DEF TypeOK, Tree
<1>4. root_snapshot < p /\ GoodTree(log, root_snapshot, root)
  BY <1>1, <1>2, <1>3 DEF GoodRoot
<1>5. NextRoot(p).catalog = root.catalog \cup {p}
  <2>1. Replayed(p).catalog = root.catalog
    BY <1>3 DEF Replayed, Tree
  <2>2. ASSUME Serial(p), Find(p) # NullTree
        PROVE  Find(p) \in Tree /\ Find(p).catalog = root.catalog
    <3>1. p \in DOMAIN finished /\ Find(p) = finished[p]
      BY <2>2 DEF Find
    <3>2. ~log[p].flush /\ BuiltOn(finished[p], log[p].snapshot)
      BY <2>2, <3>1 DEF GoodFinished
    <3>3. log[p].snapshot = root_snapshot
      BY <2>2, <3>2 DEF Serial
    <3>4. finished[p].catalog = {c \in root.catalog : c <= root_snapshot}
      BY <3>2, <3>3 DEF BuiltOn
    <3>5. \A c \in root.catalog : c <= root_snapshot
      BY <1>4 DEF GoodTree
    <3>6. finished[p] \in Tree
      BY <2>2, <3>1 DEF TypeOK
    <3>7. QED  BY <3>1, <3>4, <3>5, <3>6
  <2>3. \A tree \in Tree : PutCatalog(tree, p).catalog = tree.catalog \cup {p}
    BY DEF PutCatalog, Tree
  <2>4. Replayed(p) \in Tree
    BY <1>3, <1>1, ReplayType DEF Replayed, Tree
  <2>5. QED  BY <2>1, <2>2, <2>3, <2>4 DEF NextRoot
<1>6. \A q \in root.catalog : ZoneFree(log, p, q)
  <2>1. SUFFICES ASSUME NEW q \in root.catalog, ~log[p].flush, log[p].snapshot < q, q < p
                 PROVE  OpKeys(log[p].ops) \cap UpdateOpKeys(log[q].ops) = {}
    BY DEF ZoneFree
  <2>2. q <= root_snapshot /\ q \in Nat
    BY <1>3, <1>4 DEF GoodTree
  <2>3. ~Serial(p)
    BY <1>1, <1>3, <2>1, <2>2 DEF Serial
  <2>4. RangeAsserts(index, root.catalog, log[p].snapshot, root_snapshot) /\ ~Conflicts(p)
    BY <1>2, <2>3
  <2>5. index \subseteq root.catalog /\ \A i \in index, c \in root.catalog : i <= c => c \in index
    BY <1>2 DEF GoodIndex, Catalog
  <2>6. q \in ConflictZone(index, root.catalog, log[p].snapshot, root_snapshot)
    BY <1>1, <1>3, <2>1, <2>2, <2>4, <2>5, ZoneCovers
  <2>7. QED  BY <2>4, <2>6 DEF Conflicts
<1>7. GoodTree(log, p, NextRoot(p))
  <2>1. \A c \in NextRoot(p).catalog : c \in DOMAIN log /\ log[c].type = "intention" /\ c <= p
    BY <1>1, <1>3, <1>4, <1>5 DEF GoodTree
  <2>2. ASSUME NEW a \in NextRoot(p).catalog, NEW b \in NextRoot(p).catalog
        PROVE  ZoneFree(log, a, b)
    <3>1. CASE a \in root.catalog /\ b \in root.catalog
      BY <1>4, <3>1 DEF GoodTree
    <3>2. CASE a = p /\ b \in root.catalog
      BY <1>6, <3>2
    <3>3. CASE b = p
      <4>1. a \in Nat /\ a <= p
        BY <1>1, <1>3, <1>5, <2>1
      <4>2. ~(b < a)
        BY <1>1, <3>3, <4>1
      <4>3. QED  BY <4>2 DEF ZoneFree
    <3>4. QED  BY <1>5, <2>2, <3>1, <3>2, <3>3
  <2>3. QED  BY <1>5, <2>1, <2>2 DEF GoodTree
<1>8. QED  BY <1>1, <1>2, <1>3, <1>4, <1>5, <1>7 DEF p

\* The tree about to be published, and the index, after every step.
LEMMA ProcessorStep ==
    ASSUME IInv, [Next]_vars
    PROVE  GoodNextRoot' /\ GoodIndex'
<1> USE DEF IInv
<1>0. /\ iter \in Nat /\ root_snapshot \in Nat /\ index \subseteq Nat
      /\ tp.pc \in {"next", "publish"}
      /\ tp.pc = "publish" => tp.pos \in Nat
  BY DEF TypeOK
<1>2. \A pos, tree : GoodTree(log, pos, tree) => GoodTree(log', pos, tree)
  BY LogGrows, GoodTreeExtends
<1>3. CASE TPCommit
  <2> DEFINE p == Min(Pending)
  <2>1. /\ tp' = [pc |-> "publish", pos |-> p, tree |-> NextRoot(p)]
        /\ index' = push(index, p)
        /\ phase' = phase /\ phase # "closed"
        /\ UNCHANGED <<log, root, root_snapshot>>
        /\ iter' = p + 1
        /\ p \in Nat /\ root_snapshot < p
        /\ NextRoot(p).catalog = root.catalog \cup {p}
        /\ GoodTree(log, p, NextRoot(p))
    BY <1>3, CommitFacts
  <2> HIDE DEF p
  <2>2. GoodNextRoot'
    BY <1>0, <2>1 DEF GoodNextRoot
  <2>3. /\ index \subseteq root.catalog
        /\ \A i \in index, c \in root.catalog : i <= c => c \in index
    BY <1>3, <2>1 DEF GoodIndex, Catalog, TPCommit
  <2>4. root.catalog \subseteq Nat /\ \A c \in root.catalog : c < p
    BY <1>0, <2>1 DEF GoodRoot, GoodTree, TypeOK, Tree
  <2>5. /\ p \in index'
        /\ index' \subseteq index \cup {p}
        /\ \A i \in index', c \in index \cup {p} : i <= c => c \in index'
    BY <1>0, <2>1, <2>3, <2>4, PushFacts
  <2>6. Catalog' = root.catalog \cup {p} /\ Newest' = p
    BY <2>1 DEF Catalog, Newest
  <2>7. ASSUME NEW i \in index', NEW c \in Catalog', i <= c
        PROVE  c \in index'
    <3>1. c \in index \cup {p}
      BY <2>1, <2>3, <2>4, <2>5, <2>6, <2>7
    <3>2. QED  BY <2>5, <2>7, <3>1
  <2>8. GoodIndex'
    BY <2>3, <2>5, <2>6, <2>7 DEF GoodIndex
  <2>9. QED  BY <2>2, <2>8
<1>4. CASE TPPublish
  <2>1. /\ tp.pc = "publish" /\ tp' = IdleTP /\ index' = index /\ phase' = phase
        /\ root' = tp.tree /\ root_snapshot' = tp.pos
    BY <1>4 DEF TPPublish
  <2>2. tp'.pc = "next"
    BY <2>1 DEF IdleTP
  <2>3. Catalog' = Catalog /\ Newest' = Newest
    BY <2>1, <2>2 DEF Catalog, Newest
  <2>4. GoodIndex'
    BY <2>1, <2>3 DEF GoodIndex
  <2>5. QED  BY <2>2, <2>4 DEF GoodNextRoot
<1>5. CASE Lost
  <2>1. tp'.pc = "next" /\ phase' = "closed"
    BY <1>5 DEF Lost, LoseInstance, IdleTP
  <2>2. QED  BY <2>1 DEF GoodNextRoot, GoodIndex
<1>6. CASE Open
  <2>1. phase = "closed" /\ tp' = tp /\ index' = {}
    BY <1>6 DEF Open
  <2>2. tp'.pc = "next"
    BY <2>1 DEF Closed, IdleTP
  <2>3. QED  BY <2>1, <2>2 DEF GoodNextRoot, GoodIndex
<1>7. CASE UNCHANGED <<root, root_snapshot, tp, index>> /\ ~Open /\ ~Lost /\ ~TPCommit
  <2>1. phase' # "closed" <=> phase # "closed"
    BY <1>7, Frame DEF OpenReturns
  <2>2. tp.pc = "publish" => iter' = iter
    BY <1>7, Frame DEF TPAbort
  <2>3. GoodNextRoot'
    BY <1>2, <1>7, <2>1, <2>2 DEF GoodNextRoot
  <2>4. Catalog' = Catalog /\ Newest' = Newest
    BY <1>7 DEF Catalog, Newest
  <2>5. QED  BY <1>7, <2>1, <2>3, <2>4 DEF GoodIndex
<1>8. QED  BY <1>3, <1>4, <1>5, <1>6, <1>7, Frame

\* A tree built on a snapshot stays so, while the instance lives: a new root
\* adds a later position.
LEMMA BuiltOnStep ==
    ASSUME IInv, [Next]_vars, ~Lost, phase # "closed",
           NEW tree, NEW s \in Nat, BuiltOn(tree, s)
    PROVE  /\ s <= root_snapshot'
           /\ tree.catalog = {c \in root'.catalog : c <= s}
           /\ phase' # "closed"
<1> USE DEF IInv
<1>0. ~Open
  BY DEF Open
<1>1. phase' # "closed"
  BY <1>0, Frame DEF OpenReturns
<1>2. CASE UNCHANGED <<root, root_snapshot>>
  BY <1>1, <1>2 DEF BuiltOn
<1>3. CASE TPPublish
  <2>1. /\ tp.pc = "publish" /\ root' = tp.tree /\ root_snapshot' = tp.pos
        /\ root_snapshot \in Nat /\ tp.pos \in Nat
    BY <1>3 DEF TPPublish, TypeOK
  <2>2. root_snapshot < tp.pos /\ tp.tree.catalog = root.catalog \cup {tp.pos}
    BY <2>1 DEF GoodNextRoot
  <2>3. s < tp.pos
    BY <2>1, <2>2 DEF BuiltOn
  <2>4. {c \in root'.catalog : c <= s} = {c \in root.catalog : c <= s}
    BY <2>1, <2>2, <2>3
  <2>5. QED  BY <1>1, <2>1, <2>3, <2>4 DEF BuiltOn
<1>4. QED  BY <1>0, <1>2, <1>3, Frame

\* Recording an operation other than COPY does not make an intention a flush.
LEMMA NotFlush ==
    /\ ~Flush(<<>>)
    /\ \A ops \in Seq(Op), op \in Op :
          (~Flush(ops) /\ op.op # "COPY") => ~Flush(Append(ops, op))
<1>1. ~Flush(<<>>)
  BY DEF Flush
<1>2. ASSUME NEW ops \in Seq(Op), NEW op \in Op, ~Flush(ops), op.op # "COPY"
      PROVE  ~Flush(Append(ops, op))
  <2>1. /\ DOMAIN ops = 1..Len(ops) /\ Len(ops) \in Nat
        /\ DOMAIN Append(ops, op) = 1..(Len(ops) + 1)
        /\ \A i \in DOMAIN ops : Append(ops, op)[i] = ops[i]
        /\ Append(ops, op)[Len(ops) + 1] = op
    BY AppendFacts
  <2>2. ASSUME NEW i \in DOMAIN Append(ops, op)
        PROVE  Append(ops, op)[i].op # "COPY"
    <3>1. CASE i \in DOMAIN ops
      BY <1>2, <2>1, <3>1 DEF Flush
    <3>2. CASE i = Len(ops) + 1
      BY <1>2, <2>1, <3>2
    <3>3. QED  BY <2>1, <2>2, <3>1, <3>2
  <2>3. QED  BY <2>2 DEF Flush
<1>3. QED  BY <1>1, <1>2

\* Recording an operation changes the transaction's operations and the contents
\* of its tree, not the tree's catalog.
LEMMA OperateFacts ==
    ASSUME IInv, NEW t \in Txns, NEW op \in Op, op.op # "COPY", NEW kv, NEW ro,
           Operate(t, op, kv, ro)
    PROVE  /\ txn[t].st = "active" /\ txn'[t].st = "active"
           /\ txn'[t].snapshot = txn[t].snapshot
           /\ txn'[t].tree.catalog = txn[t].tree.catalog
           /\ ~Flush(txn'[t].ops)
           /\ \A u \in Txns \ {t} : txn'[u] = txn[u]
<1> USE DEF IInv
<1>1. txn \in [Txns -> TxnState] /\ txn[t] \in TxnState /\ txn[t].st = "active"
  BY DEF Operate, TypeOK
<1>2. txn[t].tree \in Tree
  BY <1>1 DEF TypeOK
<1>3. ~Flush(Append(txn[t].ops, op))
  BY <1>1, NotFlush DEF GoodTxns, GoodTxn, TxnState
<1>4. txn'[t].ops = Append(txn[t].ops, op)
  BY <1>1 DEF Operate, TxnState
<1>5. txn'[t].st = "active" /\ txn'[t].snapshot = txn[t].snapshot
  BY <1>1 DEF Operate, TxnState
<1>6. txn'[t].tree.catalog = txn[t].tree.catalog
  BY <1>1, <1>2 DEF Operate, TxnState, Tree
<1>7. \A u \in Txns \ {t} : txn'[u] = txn[u]
  BY <1>1 DEF Operate
<1>8. QED  BY <1>1, <1>3, <1>4, <1>5, <1>6, <1>7

\* A notification changes nothing but a decision.
LEMMA NotifyFacts ==
    ASSUME TypeOK, NEW token, NEW d, txn' = NotifyTransaction(token, d), NEW u \in Txns
    PROVE  /\ txn'[u].st = txn[u].st
           /\ txn'[u].tree = txn[u].tree
           /\ txn'[u].snapshot = txn[u].snapshot
           /\ txn'[u].ops = txn[u].ops
           /\ txn'[u].pos = txn[u].pos
<1>1. txn \in [Txns -> TxnState] /\ txn[u] \in TxnState
  BY DEF TypeOK
<1>2. CASE token = u
  BY <1>1, <1>2 DEF NotifyTransaction, TxnState
<1>3. CASE token # u
  BY <1>1, <1>3 DEF NotifyTransaction
<1>4. QED  BY <1>2, <1>3

\* What is said of a transaction stays true when only its decision changes, or
\* nothing of it.
LEMMA TxnKept ==
    ASSUME IInv, [Next]_vars, ~Lost, NEW u \in Txns,
           /\ txn'[u].st = txn[u].st
           /\ txn'[u].tree.catalog = txn[u].tree.catalog
           /\ txn'[u].snapshot = txn[u].snapshot
           /\ txn'[u].ops = txn[u].ops
           /\ txn'[u].pos = txn[u].pos
    PROVE  GoodTxn(u)'
<1> USE DEF IInv
<1>1. GoodTxn(u) /\ txn[u] \in TxnState /\ txn[u].snapshot \in Nat
  BY DEF GoodTxns, TypeOK, TxnState
<1>2. ASSUME txn[u].st \in {"active", "append"}
      PROVE  phase' # "closed" /\ BuiltOn(txn[u].tree, txn[u].snapshot)'
  <2>1. phase # "closed" /\ BuiltOn(txn[u].tree, txn[u].snapshot)
    BY <1>1, <1>2 DEF GoodTxn
  <2>2. /\ txn[u].snapshot <= root_snapshot'
        /\ txn[u].tree.catalog = {c \in root'.catalog : c <= txn[u].snapshot}
        /\ phase' # "closed"
    BY <1>1, <2>1, BuiltOnStep
  <2>3. QED  BY <2>2 DEF BuiltOn
<1>3. ASSUME txn[u].st = "append"
      PROVE  /\ txn[u].pos \in IntentionPositions'
             /\ log'[txn[u].pos] = log[txn[u].pos]
  <2>1. txn[u].pos \in IntentionPositions
    BY <1>1, <1>3 DEF GoodTxn
  <2>2. \A p \in DOMAIN log : p \in DOMAIN log' /\ log'[p] = log[p]
    BY LogGrows
  <2>3. QED  BY <2>1, <2>2 DEF IntentionPositions
<1>4. QED  BY <1>1, <1>2, <1>3 DEF GoodTxn

\* Every step of a transaction's own client.
LEMMA ClientStep ==
    ASSUME IInv, [Next]_vars, ~Lost, NEW t \in Txns, Client(t)
    PROVE  GoodTxns'
<1> USE DEF IInv
<1>1. txn \in [Txns -> TxnState] /\ txn[t] \in TxnState /\ txn[t].snapshot \in Nat
      /\ log \in Seq(Entry) /\ Len(log) \in Nat /\ GoodTxn(t)
  BY DEF TypeOK, TxnState, GoodTxns
<1>2. ASSUME GoodTxn(t)', \A u \in Txns \ {t} : txn'[u] = txn[u]
      PROVE  GoodTxns'
  <2>1. \A u \in Txns \ {t} : GoodTxn(u)'
    BY <1>2, TxnKept
  <2>2. QED  BY <1>2, <2>1 DEF GoodTxns
<1>3. CASE BeginTransaction(t)
  <2>1. /\ phase' = phase /\ phase = "open" /\ txn[t].st = "idle"
        /\ txn'[t] = [txn[t] EXCEPT !.st = "active", !.snapshot = root_snapshot, !.tree = root]
        /\ UNCHANGED <<root, root_snapshot>>
        /\ \A u \in Txns \ {t} : txn'[u] = txn[u]
    BY <1>1, <1>3 DEF BeginTransaction
  <2>2. /\ txn'[t].st = "active" /\ txn'[t].ops = txn[t].ops
        /\ txn'[t].tree = root /\ txn'[t].snapshot = root_snapshot
    BY <1>1, <2>1 DEF TxnState
  <2>3. root_snapshot \in Nat /\ \A c \in root.catalog : c <= root_snapshot
    BY <2>1 DEF TypeOK, GoodRoot, GoodTree
  <2>4. BuiltOn(txn[t].tree, txn[t].snapshot)'
    BY <2>1, <2>2, <2>3 DEF BuiltOn
  <2>5. GoodTxn(t)'
    BY <1>1, <2>1, <2>2, <2>4 DEF GoodTxn
  <2>6. QED  BY <1>2, <2>1, <2>5
<1>4. ASSUME NEW op \in Op, op.op # "COPY", NEW kv, NEW ro, Operate(t, op, kv, ro)
      PROVE  GoodTxns'
  <2>1. /\ txn[t].st = "active" /\ txn'[t].st = "active"
        /\ txn'[t].snapshot = txn[t].snapshot
        /\ txn'[t].tree.catalog = txn[t].tree.catalog
        /\ ~Flush(txn'[t].ops)
        /\ \A u \in Txns \ {t} : txn'[u] = txn[u]
    BY <1>4, OperateFacts
  <2>2. phase' = phase /\ UNCHANGED <<root, root_snapshot>>
    BY <1>4 DEF Operate
  <2>3. BuiltOn(txn[t].tree, txn[t].snapshot)' /\ phase' # "closed"
    BY <1>1, <2>1, <2>2 DEF GoodTxn, BuiltOn
  <2>4. GoodTxn(t)'
    BY <2>1, <2>3 DEF GoodTxn
  <2>5. QED  BY <1>2, <2>1, <2>4
<1>5. CASE \E k \in Keys : TxnGet(t, k) \/ TxnDelete(t, k)
  <2>1. \A k \in Keys : /\ GetOp(k) \in Op /\ GetOp(k).op # "COPY"
                        /\ DeleteOp(k) \in Op /\ DeleteOp(k).op # "COPY"
    BY DEF GetOp, DeleteOp, Op
  <2>2. QED  BY <1>4, <1>5, <2>1 DEF TxnGet, TxnDelete
<1>6. CASE \E k \in Keys, v \in Values : TxnPut(t, k, v)
  <2>1. PICK k \in Keys, v \in Values : TxnPut(t, k, v)
    BY <1>6
  <2> DEFINE pkey == prefix_string(PREFIX_USER, k)
  <2>2. PutOp(pkey, v) \in Op /\ PutOp(pkey, v).op # "COPY"
    BY DEF PutOp, Op, UserKeys
  <2>3. Operate(t, PutOp(pkey, v), TreePut(txn[t].tree.kv, pkey, v), FALSE)
    BY <2>1 DEF TxnPut
  <2>4. QED  BY <1>4, <2>2, <2>3
<1>7. CASE CommitReadOnly(t)
  <2>1. txn'[t].st = "readonly" /\ \A u \in Txns \ {t} : txn'[u] = txn[u]
    BY <1>1, <1>7 DEF CommitReadOnly, IdleTxn
  <2>2. GoodTxn(t)'
    BY <2>1 DEF GoodTxn
  <2>3. QED  BY <1>2, <2>1, <2>2
<1>8. CASE CommitAppend(t)
  <2> DEFINE e == IntentionEntry(txn[t].snapshot, t, txn[t].ops)
             n == Len(log) + 1
  <2>1. /\ txn[t].st = "active" /\ log' = Append(log, e)
        /\ txn' = [txn EXCEPT ![t].st = "append", ![t].ops = <<>>, ![t].pos = n]
        /\ UNCHANGED <<phase, root, root_snapshot>>
    BY <1>8 DEF CommitAppend
  <2>2. /\ txn'[t].st = "append" /\ txn'[t].pos = n
        /\ txn'[t].tree = txn[t].tree /\ txn'[t].snapshot = txn[t].snapshot
        /\ \A u \in Txns \ {t} : txn'[u] = txn[u]
    BY <1>1, <2>1 DEF TxnState
  <2>3. e.type = "intention" /\ e.snapshot = txn[t].snapshot /\ e.flush = Flush(txn[t].ops)
        /\ e \in Entry
    BY <1>1, EntryTypes DEF IntentionEntry, TxnState
  <2> HIDE DEF e
  <2>4. n \in DOMAIN log' /\ log'[n] = e
    BY <1>1, <2>1, <2>3, AppendFacts
  <2>5. BuiltOn(txn[t].tree, txn[t].snapshot)' /\ phase' # "closed"
    BY <1>1, <2>1, <2>2 DEF GoodTxn, BuiltOn
  <2>6. ~Flush(txn[t].ops)
    BY <1>1, <2>1 DEF GoodTxn
  <2>7. n \in IntentionPositions' /\ ~log'[n].flush /\ log'[n].snapshot = txn[t].snapshot
    BY <2>3, <2>4, <2>6 DEF IntentionPositions
  <2>8. GoodTxn(t)'
    BY <2>2, <2>5, <2>7 DEF GoodTxn
  <2>9. QED  BY <1>2, <2>2, <2>8
<1>9. CASE CommitInsert(t)
  <2>1. txn'[t].st = "wait" /\ \A u \in Txns \ {t} : txn'[u] = txn[u]
    BY <1>1, <1>9 DEF CommitInsert, TxnState
  <2>2. GoodTxn(t)'
    BY <2>1 DEF GoodTxn
  <2>3. QED  BY <1>2, <2>1, <2>2
<1>10. CASE CommitReturns(t)
  <2>1. txn'[t].st \in {"committed", "aborted"} /\ \A u \in Txns \ {t} : txn'[u] = txn[u]
    BY <1>1, <1>10 DEF CommitReturns, IdleTxn
  <2>2. GoodTxn(t)'
    BY <2>1 DEF GoodTxn
  <2>3. QED  BY <1>2, <2>1, <2>2
<1>11. QED
  BY <1>3, <1>5, <1>6, <1>7, <1>8, <1>9, <1>10 DEF Client

\* The transactions after every step.
LEMMA TxnsStep ==
    ASSUME IInv, [Next]_vars
    PROVE  GoodTxns'
<1> USE DEF IInv
<1>1. txn \in [Txns -> TxnState]
  BY DEF TypeOK
<1>2. CASE Lost
  <2>1. ASSUME NEW u \in Txns
        PROVE  GoodTxn(u)'
    <3>1. CASE txn[u].st \in {"active", "append", "wait"}
      <4>1. txn'[u].st = "lost"
        BY <1>2, <3>1 DEF Lost, LoseInstance, IdleTxn
      <4>2. QED  BY <4>1 DEF GoodTxn
    <3>2. CASE txn[u].st \notin {"active", "append", "wait"}
      <4>1. txn'[u] = txn[u]
        BY <1>2, <3>2 DEF Lost, LoseInstance
      <4>2. QED  BY <3>2, <4>1 DEF GoodTxns, GoodTxn
    <3>3. QED  BY <3>1, <3>2
  <2>2. QED  BY <2>1 DEF GoodTxns
<1>3. CASE ~Lost /\ txn' = txn
  <2>1. \A u \in Txns : GoodTxn(u)'
    BY <1>3, TxnKept
  <2>2. QED  BY <2>1 DEF GoodTxns
<1>4. CASE ~Lost /\ (TPPublish \/ TPAbort)
  <2>1. \E token, d : txn' = NotifyTransaction(token, d)
    BY <1>4 DEF TPPublish, TPAbort
  <2>2. ASSUME NEW u \in Txns
        PROVE  GoodTxn(u)'
    <3>1. /\ txn'[u].st = txn[u].st /\ txn'[u].tree = txn[u].tree
          /\ txn'[u].snapshot = txn[u].snapshot /\ txn'[u].ops = txn[u].ops
          /\ txn'[u].pos = txn[u].pos
      BY <2>1, NotifyFacts
    <3>2. QED  BY <1>4, <3>1, TxnKept
  <2>3. QED  BY <2>2 DEF GoodTxns
<1>5. CASE ~Lost /\ \E t \in Txns : Client(t)
  BY <1>5, ClientStep
<1>6. QED  BY <1>2, <1>3, <1>4, <1>5, Frame

\* The trees left for the processor after every step.
LEMMA FinishedStep ==
    ASSUME IInv, [Next]_vars
    PROVE  GoodFinished'
<1> USE DEF IInv
<1>1. /\ \A p \in DOMAIN log : p \in DOMAIN log' /\ log'[p] = log[p]
      /\ \A p \in IntentionPositions : p \in IntentionPositions' /\ log'[p] = log[p]
      /\ \A p \in IntentionPositions : log[p].snapshot \in Nat
  <2>1. \A p \in DOMAIN log : p \in DOMAIN log' /\ log'[p] = log[p]
    BY LogGrows
  <2>2. \A p \in DOMAIN log : log[p] \in Entry
    BY DEF TypeOK
  <2>3. QED  BY <2>1, <2>2 DEF IntentionPositions, Entry
<1>2. CASE Lost
  <2>1. DOMAIN finished' = {}
    BY <1>2 DEF Lost, LoseInstance, NoFinished
  <2>2. QED  BY <2>1 DEF GoodFinished
<1>3. ASSUME ~Lost, NEW p \in IntentionPositions, ~log[p].flush, NEW tree,
             phase # "closed", BuiltOn(tree, log[p].snapshot)
      PROVE  /\ phase' # "closed" /\ p \in IntentionPositions' /\ ~log'[p].flush
             /\ log[p].snapshot = log'[p].snapshot
             /\ log'[p].snapshot <= root_snapshot'
             /\ tree.catalog = {c \in root'.catalog : c <= log'[p].snapshot}
  <2>1. log[p].snapshot \in Nat /\ log'[p] = log[p] /\ p \in IntentionPositions'
    BY <1>1
  <2>2. /\ log[p].snapshot <= root_snapshot'
        /\ tree.catalog = {c \in root'.catalog : c <= log[p].snapshot}
        /\ phase' # "closed"
    BY <1>3, <2>1, BuiltOnStep
  <2>3. QED  BY <1>3, <2>1, <2>2
<1>4. ASSUME ~Lost, NEW p \in DOMAIN finished', finished'[p] # NullTree,
             p \in DOMAIN finished, finished'[p] = finished[p]
      PROVE  /\ phase' # "closed" /\ p \in IntentionPositions' /\ ~log'[p].flush
             /\ BuiltOn(finished[p], log[p].snapshot)'
  <2>1. /\ p \in IntentionPositions /\ ~log[p].flush /\ phase # "closed"
        /\ BuiltOn(finished[p], log[p].snapshot)
    BY <1>4 DEF GoodFinished
  <2>2. /\ phase' # "closed" /\ p \in IntentionPositions' /\ ~log'[p].flush
        /\ log'[p].snapshot <= root_snapshot'
        /\ finished[p].catalog = {c \in root'.catalog : c <= log'[p].snapshot}
    BY <1>3, <1>4, <2>1
  <2>3. QED  BY <1>4, <2>2 DEF BuiltOn
<1>5. CASE ~Lost /\ (finished' = finished \/ TPCommit \/ Janitor)
  <2>1. ASSUME NEW p \in DOMAIN finished', finished'[p] # NullTree
        PROVE  p \in DOMAIN finished /\ finished'[p] = finished[p]
    <3>1. CASE TPCommit
      <4>1. \/ finished' = finished
            \/ \E q \in DOMAIN finished : finished' = [finished EXCEPT ![q] = NullTree]
        BY <3>1 DEF TPCommit
      <4>2. QED  BY <2>1, <4>1
    <3>2. CASE Janitor
      BY <2>1, <3>2 DEF Janitor, Clean
    <3>3. QED  BY <1>5, <2>1, <3>1, <3>2
  <2>2. QED  BY <1>4, <1>5, <2>1 DEF GoodFinished
<1>6. ASSUME ~Lost, NEW t \in Txns, CommitInsert(t)
      PROVE  GoodFinished'
  <2>1. /\ finished' = [p \in DOMAIN finished \cup {txn[t].pos} |->
                           IF p = txn[t].pos THEN txn[t].tree ELSE finished[p]]
        /\ txn[t].st = "append"
    BY <1>6 DEF CommitInsert
  <2>2. GoodTxn(t)
    BY DEF GoodTxns
  <2>3. ASSUME NEW p \in DOMAIN finished', finished'[p] # NullTree
        PROVE  /\ phase' # "closed" /\ p \in IntentionPositions' /\ ~log'[p].flush
               /\ BuiltOn(finished[p], log[p].snapshot)'
    <3>1. CASE p = txn[t].pos
      <4>1. finished'[p] = txn[t].tree
        BY <2>1, <3>1
      <4>2. /\ p \in IntentionPositions /\ ~log[p].flush /\ phase # "closed"
            /\ BuiltOn(txn[t].tree, log[p].snapshot)
        BY <2>1, <2>2, <3>1 DEF GoodTxn
      <4>3. /\ phase' # "closed" /\ p \in IntentionPositions' /\ ~log'[p].flush
            /\ log'[p].snapshot <= root_snapshot'
            /\ txn[t].tree.catalog = {c \in root'.catalog : c <= log'[p].snapshot}
        BY <1>3, <1>6, <4>2
      <4>4. QED  BY <4>1, <4>3 DEF BuiltOn
    <3>2. CASE p # txn[t].pos
      <4>1. p \in DOMAIN finished /\ finished'[p] = finished[p]
        BY <2>1, <2>3, <3>2
      <4>2. QED  BY <1>4, <1>6, <2>3, <4>1
    <3>3. QED  BY <3>1, <3>2
  <2>4. QED  BY <2>3 DEF GoodFinished
<1>7. QED  BY <1>2, <1>5, <1>6, Frame

\* A created database that has not been opened.
LEMMA InitInv == Init => IInv
<1> SUFFICES ASSUME Init PROVE IInv
  OBVIOUS
<1>1. TypeOK
  BY InitType
<1> DEFINE c == IntentionEntry(0, NoToken, CreationOps)
           a == AfterImageEntry(1, [kv |-> NoKeys, catalog |-> {1}])
<1>2. /\ c.type = "intention" /\ c.snapshot = 0
      /\ a.type = "afterimage" /\ a.intention = 1 /\ a.tree.catalog = {1}
  BY DEF IntentionEntry, AfterImageEntry
<1>3. log = <<c, a>>
  BY DEF Init, CreatedLog
<1> HIDE DEF c, a
<1>4. DOMAIN log = 1..2 /\ Len(log) = 2 /\ log[1] = c /\ log[2] = a
  BY <1>3
<1>5. LogStarts
  BY <1>2, <1>4 DEF LogStarts, IntentionPositions
<1>6. GoodAfterImages
  <2>1. GoodTree(log, 1, a.tree)
    BY <1>2, <1>4 DEF GoodTree, ZoneFree
  <2>2. QED  BY <1>2, <1>4, <2>1 DEF GoodAfterImages
<1>7. /\ phase = "closed" /\ tp = IdleTP /\ tp.pc = "next" /\ lcs_trees = <<>>
      /\ DOMAIN lcs_trees = {} /\ DOMAIN finished = {}
  BY DEF Init, IdleTP, NoFinished
<1>8. GoodTxns
  BY NotFlush DEF Init, IdleTxn, GoodTxns, GoodTxn
<1>9. QED
  BY <1>1, <1>5, <1>6, <1>7, <1>8
     DEF IInv, GoodQueue, GoodRoot, GoodNextRoot, GoodIndex, GoodFinished, Closed

\* The invariant holds in every reachable state.
THEOREM Invariance == Spec => []IInv
<1>1. ASSUME IInv, [Next]_vars
      PROVE  IInv'
  BY <1>1, TypeStep, LogGrows, TreesStep, ProcessorStep, TxnsStep, FinishedStep DEF IInv
<1>2. QED  BY <1>1, InitInv, PTL DEF Spec

\* Type correctness: in particular the transaction processor never publishes,
\* and the writer never serialises, a tree that was moved out of
\* finished_txns_, for any interleaving of any number of clients, threads,
\* crashes and calls of gc().
THEOREM TypeCorrect == Spec => []TypeOK
<1>1. IInv => TypeOK
  BY DEF IInv
<1>2. QED  BY <1>1, Invariance, PTL

\* First committer wins, for any number of transactions, keys and crashes and
\* for every limit of the index of committed intentions.
THEOREM FirstCommitter == Spec => []FirstCommitterWins
<1>1. IInv => FirstCommitterWins
  <2>1. SUFFICES ASSUME IInv PROVE FirstCommitterWins
    OBVIOUS
  <2>2. CASE phase = "closed"
    <3>1. root.catalog = {}
      BY <2>1, <2>2 DEF IInv, TypeOK, NullTree
    <3>2. QED  BY <3>1 DEF FirstCommitterWins
  <2>3. CASE phase # "closed"
    BY <2>1, <2>3 DEF IInv, GoodRoot, GoodTree, FirstCommitterWins
  <2>4. QED  BY <2>2, <2>3
<1>2. QED  BY <1>1, Invariance, PTL
=============================================================================
