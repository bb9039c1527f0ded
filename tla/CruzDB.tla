------------------------------- MODULE CruzDB -------------------------------
(***************************************************************************)
(* The transaction pipeline of one CruzDB instance (src/db/db_impl.cc) on  *)
(* the shared log: clients build transactions on immutable snapshots and   *)
(* append their intentions; the transaction processor decides them in log  *)
(* order and publishes new roots; the after-image writer appends the new   *)
(* trees to the log; the janitor drops finished trees; a crash loses all   *)
(* but the log, and Open restores from the latest after-image and replays. *)
(*                                                                         *)
(* The log is a sequence: position p of the log is log[p].  Position 0,    *)
(* which creation fills and nothing reads, is not represented.             *)
(***************************************************************************)
EXTENDS Intention, CommittedIntentionIndex

CONSTANTS Txns,      \* transactions, one client thread each; also their tokens
          NoToken,   \* the token 0 of creation and of flush intentions
          MaxOps,    \* bound: operations of one transaction
          MaxOpens,  \* bound: times the database is opened
          MaxGcs     \* bound: calls of gc()

ASSUME NoTokenAssumption == NoToken \notin Txns

VARIABLES
    log,            \* the shared log, the only durable state
    phase,          \* "closed", "replay" (inside Open) or "open"
    latest,         \* latest_intention of Open
    root,           \* root_, by its contents
    root_snapshot,  \* root_snapshot_
    last_processed, \* last_intention_processed_
    index,          \* committed_intentions_
    iter,           \* next position of intention_iterator_
    tp,             \* local state of the transaction processor
    finished,       \* finished_txns_: position -> tree
    lcs_trees,      \* trees to write as after-images, oldest first
    txn,            \* the transactions, with what their clients were told
    opens, gcs      \* counters for the bounds

vars == <<log, phase, latest, root, root_snapshot, last_processed, index, iter,
          tp, finished, lcs_trees, txn, opens, gcs>>

NullTree == [kv |-> <<>>, catalog |-> {}]   \* a moved-from or unset tree
NoFinished == [p \in {} |-> NullTree]

-----------------------------------------------------------------------------
(* Entries of the log. *)

IntentionEntry(snapshot, token, ops) ==
    [type |-> "intention", snapshot |-> snapshot, token |-> token,
     flush |-> Flush(ops), ops |-> ops]

AfterImageEntry(pos, tree) ==
    [type |-> "afterimage", intention |-> pos, tree |-> tree]

FilledEntry == [type |-> "filled"]

IntentionPositions == {p \in DOMAIN log : log[p].type = "intention"}

AfterImagePositions(p) ==
    {a \in DOMAIN log : log[a].type = "afterimage" /\ log[a].intention = p}

\* What DB::Open appends to an empty log: the intention at position 1 that
\* stores its own catalog key, and its after-image at position 2.
CreationOps == <<PutOp(prefix_string(PREFIX_COMMITTED_INTENTION, 1), "")>>

CreatedLog == <<IntentionEntry(0, NoToken, CreationOps),
                AfterImageEntry(1, [kv |-> NoKeys, catalog |-> {1}])>>

-----------------------------------------------------------------------------
IdleTxn == [st |-> "idle", snapshot |-> 0, tree |-> NullTree, ops |-> <<>>,
            readonly |-> TRUE, pos |-> 0, decision |-> "none"]

IdleTP == [pc |-> "next", pos |-> 0, tree |-> NullTree]

Init ==
    /\ log = CreatedLog
    /\ phase = "closed"
    /\ latest = 0
    /\ root = NullTree
    /\ root_snapshot = 0
    /\ last_processed = 0
    /\ index = {}
    /\ iter = 0
    /\ tp = IdleTP
    /\ finished = NoFinished
    /\ lcs_trees = <<>>
    /\ txn = [t \in Txns |-> IdleTxn]
    /\ opens = 0
    /\ gcs = 0

-----------------------------------------------------------------------------
(* Opening and losing an instance. *)

\* The reverse scan stops at the latest intention for which it has met an
\* after-image, and uses the oldest of its after-images.
RestorePoint == Max({p \in IntentionPositions : AfterImagePositions(p) # {}})

RestoreTree == log[Min(AfterImagePositions(RestorePoint))].tree

\* point.replay_start_pos.
ReplayStart == RestorePoint + 1

\* DB::Open: the scan starts by reading the tail itself, which it fills; the
\* constructor then takes over the restored tree and starts the threads.
Open ==
    /\ phase = "closed"
    /\ opens < MaxOpens
    /\ log' = Append(log, FilledEntry)
    /\ phase' = "replay"
    /\ latest' = Max(IntentionPositions)
    /\ root' = RestoreTree
    /\ root_snapshot' = RestorePoint
    /\ last_processed' = RestorePoint
    /\ index' = {}
    /\ iter' = ReplayStart
    /\ opens' = opens + 1
    /\ UNCHANGED <<tp, finished, lcs_trees, txn, gcs>>

\* WaitOnIntention(latest_intention) returns.
OpenReturns ==
    /\ phase = "replay"
    /\ latest <= last_processed
    /\ phase' = "open"
    /\ UNCHANGED <<log, latest, root, root_snapshot, last_processed, index,
                   iter, tp, finished, lcs_trees, txn, opens, gcs>>

\* The process ends; only the log is left.  Clients inside a call never learn
\* its outcome.
LoseInstance ==
    /\ phase' = "closed"
    /\ latest' = 0
    /\ root' = NullTree
    /\ root_snapshot' = 0
    /\ last_processed' = 0
    /\ index' = {}
    /\ iter' = 0
    /\ tp' = IdleTP
    /\ finished' = NoFinished
    /\ lcs_trees' = <<>>
    /\ txn' = [t \in Txns |->
                  IF txn[t].st \in {"active", "append", "wait"}
                  THEN [IdleTxn EXCEPT !.st = "lost", !.pos = txn[t].pos]
                  ELSE txn[t]]

\* A crash, a failed assertion or ~DBImpl, which writes nothing more to the log.
Crash ==
    /\ phase # "closed"
    /\ opens < MaxOpens
    /\ LoseInstance
    /\ UNCHANGED <<log, opens, gcs>>

-----------------------------------------------------------------------------
(* Client threads. *)

BeginTransaction(t) ==
    /\ phase = "open"
    /\ txn[t].st = "idle"
    /\ txn' = [txn EXCEPT ![t].st = "active",
                          ![t].snapshot = root_snapshot,
                          ![t].tree = root]
    /\ UNCHANGED <<log, phase, latest, root, root_snapshot, last_processed,
                   index, iter, tp, finished, lcs_trees, opens, gcs>>

\* Record an operation in the intention and apply it to the private tree.
Operate(t, op, kv, readonly) ==
    /\ txn[t].st = "active"
    /\ Len(txn[t].ops) < MaxOps
    /\ txn' = [txn EXCEPT ![t].ops = Append(@, op),
                          ![t].tree.kv = kv,
                          ![t].readonly = readonly]
    /\ UNCHANGED <<log, phase, latest, root, root_snapshot, last_processed,
                   index, iter, tp, finished, lcs_trees, opens, gcs>>

TxnGet(t, k) == Operate(t, GetOp(k), txn[t].tree.kv, txn[t].readonly)

TxnPut(t, k, v) ==
    LET pkey == prefix_string(PREFIX_USER, k)
    IN  Operate(t, PutOp(pkey, v), TreePut(txn[t].tree.kv, pkey, v), FALSE)

\* Deleting a key that is not there leaves the tree without a new root.
TxnDelete(t, k) ==
    Operate(t, DeleteOp(k), TreeDelete(txn[t].tree.kv, PREFIX_USER, k),
            txn[t].readonly /\
              txn[t].tree.kv[prefix_string(PREFIX_USER, k)] = NoValue)

CommitReadOnly(t) ==
    /\ txn[t].st = "active"
    /\ txn[t].readonly
    /\ txn' = [txn EXCEPT ![t] = [IdleTxn EXCEPT !.st = "readonly"]]
    /\ UNCHANGED <<log, phase, latest, root, root_snapshot, last_processed,
                   index, iter, tp, finished, lcs_trees, opens, gcs>>

\* CompleteTransaction up to the append: register under the token, then move
\* the intention to the log.  From here on the processor may decide it.
CommitAppend(t) ==
    /\ txn[t].st = "active"
    /\ ~txn[t].readonly
    /\ log' = Append(log, IntentionEntry(txn[t].snapshot, t, txn[t].ops))
    /\ txn' = [txn EXCEPT ![t].st = "append",
                          ![t].ops = <<>>,
                          ![t].pos = Len(log) + 1]
    /\ UNCHANGED <<phase, latest, root, root_snapshot, last_processed, index,
                   iter, tp, finished, lcs_trees, opens, gcs>>

\* finished_txns_.Insert.
CommitInsert(t) ==
    /\ txn[t].st = "append"
    /\ finished' = [p \in DOMAIN finished \cup {txn[t].pos} |->
                       IF p = txn[t].pos THEN txn[t].tree ELSE finished[p]]
    /\ txn' = [txn EXCEPT ![t].st = "wait", ![t].tree = NullTree]
    /\ UNCHANGED <<log, phase, latest, root, root_snapshot, last_processed,
                   index, iter, tp, lcs_trees, opens, gcs>>

\* WaitOnTransaction returns the decision notified for the intention.
CommitReturns(t) ==
    /\ txn[t].st = "wait"
    /\ txn[t].decision # "none"
    /\ txn' = [txn EXCEPT
          ![t] = [IdleTxn EXCEPT
                    !.st = IF txn[t].decision = "commit" THEN "committed"
                                                         ELSE "aborted",
                    !.pos = txn[t].pos]]
    /\ UNCHANGED <<log, phase, latest, root, root_snapshot, last_processed,
                   index, iter, tp, finished, lcs_trees, opens, gcs>>

\* gc(): a flush intention with copies of reachable nodes other than the root.
\* Which nodes are copied is immaterial here: COPY keys are not update keys.  On
\* a tree of one node the intention would be empty, which Serialize asserts it
\* is not: the process ends, as in Crash.
Gc ==
    /\ phase = "open"
    /\ gcs < MaxGcs
    /\ Cardinality(root.catalog) + Cardinality({pk \in UserKeys : root.kv[pk] # NoValue}) > 1
    /\ log' = Append(log, IntentionEntry(0, NoToken,
                 <<CopyOp(prefix_string(PREFIX_COMMITTED_INTENTION, Min(root.catalog)))>>))
    /\ gcs' = gcs + 1
    /\ UNCHANGED <<phase, latest, root, root_snapshot, last_processed, index,
                   iter, tp, finished, lcs_trees, txn, opens>>

-----------------------------------------------------------------------------
(* The transaction processor. *)

\* Intentions from the iterator's position on; Next() returns the first.
Pending == {p \in IntentionPositions : iter <= p}

Serial(p) == log[p].flush \/ root_snapshot = log[p].snapshot

\* Mutant of Conflicts: any update in the zone is a conflict.
Conflicts_AnyUpdate(p) ==
    \E z \in ConflictZone(index, root.catalog, log[p].snapshot, root_snapshot) :
        UpdateOpKeys(log[z].ops) # {}

\* ProcessConcurrentIntention.
Conflicts(p) ==
    \E z \in ConflictZone(index, root.catalog, log[p].snapshot, root_snapshot) :
        OpKeys(log[p].ops) \cap UpdateOpKeys(log[z].ops) # {}

\* finished_txns_.Find: the tree if its client has inserted it already.
Find(p) == IF p \in DOMAIN finished THEN finished[p] ELSE NullTree

\* Put(PREFIX_COMMITTED_INTENTION, pos, "").
PutCatalog(tree, pos) == [tree EXCEPT !.catalog = @ \cup {pos}]

\* The current root with the operations of an intention replayed on it.
Replayed(p) == [root EXCEPT !.kv = ReplayIntention(@, log[p].ops)]

\* Mutants of NextRoot: use the client's tree for a concurrent intention too;
\* expect the tree of a serial intention to have been inserted already;
\* forget the catalog key of a tree that was not replayed; use the result of
\* Find without looking at it.
NextRoot_AnyFound(p) ==
    PutCatalog(IF Find(p) # NullTree THEN Find(p) ELSE Replayed(p), p)

NextRoot_SerialIsFound(p) ==
    PutCatalog(IF Serial(p) THEN IF Find(p) # NullTree THEN Find(p) ELSE root
               ELSE Replayed(p), p)

NextRoot_CatalogOfReplayed(p) ==
    IF Serial(p) /\ Find(p) # NullTree THEN Find(p) ELSE PutCatalog(Replayed(p), p)

NextRoot_Unchecked(p) ==
    PutCatalog(IF Serial(p) THEN Find(p) ELSE Replayed(p), p)

\* A serial intention whose tree was found is not replayed.
NextRoot(p) ==
    PutCatalog(IF Serial(p) /\ Find(p) # NullTree THEN Find(p) ELSE Replayed(p), p)

\* Mutant of NotifyTransaction: only a waiter that is already waiting is told.
NotifyTransaction_OnlyWaiting(token, decision) ==
    IF token \in Txns /\ txn[token].st = "wait"
    THEN [txn EXCEPT ![token].decision = decision]
    ELSE txn

\* Tell the waiter registered under the token, if this instance has one.
NotifyTransaction(token, decision) ==
    IF token \in Txns /\ txn[token].st \in {"append", "wait"}
    THEN [txn EXCEPT ![token].decision = decision]
    ELSE txn

\* Mutant of TPCommit: the waiter is told before the new root is published.
TPCommit_NotifyFirst ==
    /\ phase # "closed"
    /\ tp.pc = "next"
    /\ Pending # {}
    /\ LET p == Min(Pending)
       IN /\ Serial(p) \/ ~Conflicts(p)
          /\ index' = push(index, p)
          /\ tp' = [pc |-> "publish", pos |-> p, tree |-> NextRoot(p)]
          /\ finished' = finished
          /\ txn' = NotifyTransaction(log[p].token, "commit")
          /\ iter' = p + 1
    /\ UNCHANGED <<log, phase, latest, root, root_snapshot, last_processed,
                   lcs_trees, opens, gcs>>

\* From Next() to the decision to commit, with everything done before the lock
\* is taken to publish the new root.
TPCommit ==
    /\ phase # "closed"
    /\ tp.pc = "next"
    /\ Pending # {}
    /\ LET p == Min(Pending)
       IN /\ \/ Serial(p)
             \/ /\ RangeAsserts(index, root.catalog, log[p].snapshot, root_snapshot)
                /\ ~Conflicts(p)
          /\ index' = push(index, p)
          /\ tp' = [pc |-> "publish", pos |-> p, tree |-> NextRoot(p)]
          /\ finished' = IF Serial(p) /\ p \in DOMAIN finished
                         THEN [finished EXCEPT ![p] = NullTree]
                         ELSE finished
          /\ iter' = p + 1
    /\ UNCHANGED <<log, phase, latest, root, root_snapshot, last_processed,
                   lcs_trees, txn, opens, gcs>>

\* The new root, the after-image work and the notification, in one critical
\* section.
TPPublish ==
    /\ phase # "closed"
    /\ tp.pc = "publish"
    /\ root' = tp.tree
    /\ root_snapshot' = tp.pos
    /\ last_processed' = tp.pos
    /\ lcs_trees' = Append(lcs_trees, [pos |-> tp.pos, tree |-> tp.tree])
    /\ txn' = NotifyTransaction(log[tp.pos].token, "commit")
    /\ tp' = IdleTP
    /\ UNCHANGED <<log, phase, latest, index, iter, finished, opens, gcs>>

TPAbort ==
    /\ phase # "closed"
    /\ tp.pc = "next"
    /\ Pending # {}
    /\ LET p == Min(Pending)
       IN /\ ~Serial(p)
          /\ RangeAsserts(index, root.catalog, log[p].snapshot, root_snapshot)
          /\ Conflicts(p)
          /\ txn' = NotifyTransaction(log[p].token, "abort")
          /\ last_processed' = p
          /\ iter' = p + 1
    /\ UNCHANGED <<log, phase, latest, root, root_snapshot, index, tp,
                   finished, lcs_trees, opens, gcs>>

\* An assertion of the conflict check fails and the process aborts.
TPAssertFails ==
    /\ phase # "closed"
    /\ tp.pc = "next"
    /\ Pending # {}
    /\ LET p == Min(Pending)
       IN /\ ~Serial(p)
          /\ ~RangeAsserts(index, root.catalog, log[p].snapshot, root_snapshot)
    /\ LoseInstance
    /\ UNCHANGED <<log, opens, gcs>>

-----------------------------------------------------------------------------
(* The after-image writer and the janitor. *)

\* Mutant of WriteAfterImage: one after-image per wake-up.
WriteAfterImage_OnePerWakeup ==
    /\ phase # "closed"
    /\ lcs_trees # <<>>
    /\ log' = Append(log, AfterImageEntry(Head(lcs_trees).pos, Head(lcs_trees).tree))
    /\ lcs_trees' = <<>>
    /\ UNCHANGED <<phase, latest, root, root_snapshot, last_processed, index,
                   iter, tp, finished, txn, opens, gcs>>

\* The writer takes the queued trees in order and appends each one.
WriteAfterImage ==
    /\ phase # "closed"
    /\ lcs_trees # <<>>
    /\ log' = Append(log, AfterImageEntry(Head(lcs_trees).pos, Head(lcs_trees).tree))
    /\ lcs_trees' = Tail(lcs_trees)
    /\ UNCHANGED <<phase, latest, root, root_snapshot, last_processed, index,
                   iter, tp, finished, txn, opens, gcs>>

\* Mutant of Clean: the position itself is kept.
Clean_KeepLast(last_ipos) ==
    finished' = [p \in {q \in DOMAIN finished : q >= last_ipos} |-> finished[p]]

\* finished_txns_.Clean(last_ipos).
Clean(last_ipos) ==
    finished' = [p \in {q \in DOMAIN finished : q > last_ipos} |-> finished[p]]

Janitor ==
    /\ phase # "closed"
    /\ Clean(last_processed)
    /\ UNCHANGED <<log, phase, latest, root, root_snapshot, last_processed,
                   index, iter, tp, lcs_trees, txn, opens, gcs>>

-----------------------------------------------------------------------------
Client(t) ==
    \/ BeginTransaction(t)
    \/ \E k \in Keys : TxnGet(t, k) \/ TxnDelete(t, k)
    \/ \E k \in Keys, v \in Values : TxnPut(t, k, v)
    \/ CommitReadOnly(t)
    \/ CommitAppend(t)
    \/ CommitInsert(t)
    \/ CommitReturns(t)

Next ==
    \/ Open
    \/ OpenReturns
    \/ Crash
    \/ \E t \in Txns : Client(t)
    \/ Gc
    \/ TPCommit
    \/ TPPublish
    \/ TPAbort
    \/ TPAssertFails
    \/ WriteAfterImage
    \/ Janitor

Spec == Init /\ [][Next]_vars

\* The threads of an open instance run.  A client that has entered Commit
\* finishes it; nothing makes a client begin or commit a transaction.
Fairness ==
    /\ WF_vars(Open)
    /\ WF_vars(OpenReturns)
    /\ WF_vars(TPCommit)
    /\ WF_vars(TPPublish)
    /\ WF_vars(TPAbort)
    /\ WF_vars(WriteAfterImage)
    /\ WF_vars(Janitor)
    /\ \A t \in Txns : WF_vars(CommitInsert(t)) /\ WF_vars(CommitReturns(t))

FairSpec == Spec /\ Fairness

-----------------------------------------------------------------------------
(* Properties. *)

Tree == [kv : [UserKeys -> Values \cup {NoValue}], catalog : SUBSET Nat]

Op == [op : {"GET", "DELETE"}, key : Keys, val : {NoValue}]
      \cup [op : {"PUT"}, key : UserKeys, val : Values]
      \cup [op : {"PUT"}, key : {PREFIX_COMMITTED_INTENTION} \X Nat, val : {""}]
      \cup [op : {"COPY"}, key : {PREFIX_COMMITTED_INTENTION} \X Nat, val : {NoValue}]

Entry == [type : {"intention"}, snapshot : Nat, token : Txns \cup {NoToken},
          flush : BOOLEAN, ops : Seq(Op)]
         \cup [type : {"afterimage"}, intention : Nat, tree : Tree]
         \cup [type : {"filled"}]

TxnState == [st : {"idle", "active", "append", "wait", "readonly",
                   "committed", "aborted", "lost"},
             snapshot : Nat, tree : Tree \cup {NullTree}, ops : Seq(Op),
             readonly : BOOLEAN, pos : Nat, decision : {"none", "commit", "abort"}]

\* Every variable has its type; in particular an open instance has a root, the
\* processor publishes only trees, and only trees are written as after-images:
\* a tree that was moved from is never used again.
TypeOK ==
    /\ log \in Seq(Entry)
    /\ phase \in {"closed", "replay", "open"}
    /\ {latest, root_snapshot, last_processed, iter, opens, gcs} \subseteq Nat
    /\ root \in IF phase = "closed" THEN {NullTree} ELSE Tree
    /\ index \subseteq Nat
    /\ tp \in [pc : {"next"}, pos : {0}, tree : {NullTree}]
              \cup [pc : {"publish"}, pos : DOMAIN log, tree : Tree]
    /\ DOMAIN finished \subseteq Nat
    /\ \A p \in DOMAIN finished : finished[p] \in Tree \cup {NullTree}
    /\ lcs_trees \in Seq([pos : Nat, tree : Tree])
    /\ txn \in [Txns -> TxnState]
    /\ \A t \in Txns : txn[t].st \in {"active", "append"} => txn[t].tree \in Tree

\* In the log l, the recorded operations of p and of a q that committed inside the conflict
\* zone of p, which starts after p's snapshot, have no key in common that q
\* updated.
ZoneFree(l, p, q) ==
    (~l[p].flush /\ l[p].snapshot < q /\ q < p) =>
        OpKeys(l[p].ops) \cap UpdateOpKeys(l[q].ops) = {}

\* First committer wins: of two intentions in the catalog of the current root,
\* the later one never committed over a recorded update in its conflict zone,
\* whether the processor found the zone in the bounded index, in the catalog or
\* in both, and whether or not the database was restored in between.
FirstCommitterWins == \A p, q \in root.catalog : ZoneFree(log, p, q)

\* The contents that the committed intentions C of the log l leave: for each key,
\* what the last of them to update it wrote last.
Writers(l, C, pk) == {p \in C : UpdatesTo(l[p].ops, pk) # {}}

LastWrite(ops, pk) == ops[Max(UpdatesTo(ops, pk))].val

Content(l, C) ==
    [pk \in UserKeys |-> IF Writers(l, C, pk) = {} THEN NoValue
                         ELSE LastWrite(l[Max(Writers(l, C, pk))].ops, pk)]

MatchesLog(tree) == tree.kv = Content(log, tree.catalog)

\* The root and every after-image in the log are the result of applying their
\* committed intentions in log order, although a serial intention is not
\* replayed when its client has left its own tree in finished_txns_, and
\* although the database may have been restored from an after-image.
TreesMatchLog ==
    /\ phase # "closed" => MatchesLog(root)
    /\ \A a \in DOMAIN log : log[a].type = "afterimage" => MatchesLog(log[a].tree)

\* Replaying an intention of a client is applying its operations in the order they
\* were recorded, whatever the tree held before.
ReplayIsSequential ==
    \A p \in IntentionPositions \ {1} : \A kv \in [UserKeys -> Values \cup {NoValue}] :
        ReplayIntention(kv, log[p].ops) = ReplayLoop(kv, log[p].ops)

\* No intention in the log has an operation on a key that its own snapshot
\* updated.
NoSelfConflict ==
    \A p \in IntentionPositions :
        (p # 1 /\ ~log[p].flush) =>
            OpKeys(log[p].ops) \cap UpdateOpKeys(log[log[p].snapshot].ops) = {}

\* What a client was told about its transaction is what the database holds, as
\* far as the intention has been processed in the current instance.
OutcomesHold ==
    phase # "closed" =>
        \A t \in Txns :
            txn[t].pos \in 1..last_processed =>
                /\ txn[t].st = "committed" => txn[t].pos \in root.catalog
                /\ txn[t].st = "aborted" => txn[t].pos \notin root.catalog

\* Outcomes survive crashes and replays as long as no intention meets the keys
\* of its own snapshot: the one input for which the index and the catalog
\* answer differently.
OutcomesHoldWithoutSelfConflict == NoSelfConflict => OutcomesHold

\* The assertions of the conflict check hold for the next intention.
NextIntentionAsserts ==
    (phase # "closed" /\ tp.pc = "next" /\ Pending # {}) =>
        LET p == Min(Pending)
        IN  Serial(p) \/ RangeAsserts(index, root.catalog, log[p].snapshot, root_snapshot)

\* Without crashes, and with them when no intention meets the keys of its own
\* snapshot, the snapshot of an intention is always in the catalog when the
\* intention is processed.
AssertsHoldWithoutSelfConflict == NoSelfConflict => NextIntentionAsserts

\* What is restored after a crash only moves forward: a step never takes the
\* restore point back, and never changes which intentions up to the old restore
\* point are committed in the tree that would be restored.
RestorePointAdvances ==
    [][LET old == RestorePoint
           new == RestorePoint'
       IN  /\ old <= new
           /\ old < new => RestoreTree'.catalog \cap (1..old) = RestoreTree.catalog]_log

\* A transaction reads from a snapshot that includes every commit acknowledged
\* before it began.
SeesAckedCommits ==
    [][\A t, u \in Txns :
          (/\ txn[t].st = "idle" /\ txn'[t].st = "active"
           /\ txn[u].st = "committed" /\ NoSelfConflict)
            => txn[u].pos \in txn'[t].tree.catalog]_vars

\* Every Commit call returns, whichever of the client and the processor is
\* first to reach the rendezvous.
CommitCallReturns ==
    \A t \in Txns : (txn[t].st = "append") ~> (txn[t].st \in {"committed", "aborted"})

\* No log is longer than this under the bounds.
LogBound == 2 + MaxOpens + (Cardinality(Txns) + MaxGcs) * (1 + MaxOpens)

\* Every published root is written to the log as an after-image.
RootsBecomeDurable ==
    \A p \in 1..LogBound :
        (p \in root.catalog) ~> (AfterImagePositions(p) # {})

\* Trees left in finished_txns_, also those inserted after the processor had
\* passed their intention, are dropped eventually.
FinishedTreesDropped ==
    \A p \in 1..LogBound :
        (p \in DOMAIN finished) ~> (p \notin DOMAIN finished)

\* An intention with a user-level conflict: p reads or writes a user key that an
\* intention committed in its conflict zone wrote.
UserKeyOf(op) == IF op.op = "PUT" THEN op.key[2] ELSE op.key

UserKeysOf(p, kinds) ==
    {UserKeyOf(log[p].ops[i]) : i \in {j \in DOMAIN log[p].ops : log[p].ops[j].op \in kinds}}

\* "set of keys read or written by the intention" against "set of keys modified
\* by the intention in the conflict zone": no committed intention read or wrote
\* a user key that was modified in its conflict zone.
NoStaleReadCommits ==
    \A p, q \in root.catalog \ {1} :
        (~log[p].flush /\ ~log[q].flush /\ log[p].snapshot < q /\ q < p) =>
            UserKeysOf(p, {"GET", "PUT", "DELETE"}) \cap UserKeysOf(q, {"PUT", "DELETE"}) = {}

\* An aborted transaction met an update of a key it had recorded, in an intention
\* committed at or after its snapshot.  (The snapshot itself counts only because the
\* range of the index begins with it.)
Justified(p) ==
    \E q \in root.catalog :
        /\ log[p].snapshot <= q /\ q < p
        /\ OpKeys(log[p].ops) \cap UpdateOpKeys(log[q].ops) # {}

AbortsAreJustified ==
    \A t \in Txns : txn[t].decision = "abort" => Justified(txn[t].pos)

-----------------------------------------------------------------------------
(* The promise to the clients. *)

\* The intentions of transactions in the log l: all but the flushes.  The first is
\* the creation.
Transactions(l) == {p \in DOMAIN l : l[p].type = "intention" /\ ~l[p].flush}

\* Those of them that commit, by the log alone: each one that meets no update of
\* another in its conflict zone.  There is one such set.
Committed(l) ==
    CHOOSE C \in SUBSET Transactions(l) :
        \A p \in Transactions(l) : p \in C <=> \A q \in C : ZoneFree(l, p, q)

History == [p \in Committed(log) |-> log[p].ops]

ClientOf(t) ==
    IF txn[t].st = "active"
    THEN [st |-> "active", at |-> txn[t].snapshot, view |-> txn[t].tree.kv, ops |-> txn[t].ops]
    ELSE IF txn[t].st \in {"append", "wait"} THEN [st |-> "submitted", at |-> txn[t].pos]
    ELSE IF txn[t].st \in {"committed", "aborted"} THEN [st |-> txn[t].st, at |-> txn[t].pos]
    ELSE [st |-> txn[t].st]

Abstract == INSTANCE SerialHistory WITH
    now           <- Len(log),
    history       <- History,
    client        <- [t \in Txns |-> ClientOf(t)],
    self_conflict <- ~NoSelfConflict

\* The database is a serial history of transactions: what is decided by the
\* processor after the append, in one instance or several, with an index that forgets
\* and trees that are reused or restored, is settled by the append itself, and every
\* client works on a state of that history and is told its place in it.
IsSerialHistory == Abstract!Spec
=============================================================================
