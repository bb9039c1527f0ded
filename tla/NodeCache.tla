------------------------------ MODULE NodeCache ------------------------------
(***************************************************************************)
(* NodeCache (src/db/node_cache.cc, node_cache.h) with what feeds it and   *)
(* what reads through it.  References between nodes are weak: a node is in *)
(* memory while somebody holds it, and is read from its after-image when   *)
(* it is not.  The nodes of a new tree (a delta) are held by the tree from *)
(* the processor over the writer and the matcher to the finalizer, which   *)
(* hands them to the cache.  Threads that follow a pointer to a node that  *)
(* has gone put all the nodes of its after-image into the cache; a vacuum  *)
(* thread takes nodes out.                                                 *)
(*                                                                         *)
(* A node is <<delta, offset>>, an object in memory <<node, n>>: n = 0 for *)
(* the one that was made for the tree, others for copies read from the     *)
(* log.  An address is <<"i", delta>> or <<"a", position>>, the offset     *)
(* being that of the node.  Which node of a shard is taken out (the LRU    *)
(* list) is left open: "we can drop anything from the cache".              *)
(***************************************************************************)
EXTENDS Integers, Sequences, FiniteSets, FiniteSetsExt, SequencesExt

CONSTANTS Readers,     \* threads that follow pointers
          Sizes,       \* number of nodes of each delta, the last one is the root
          Kids,        \* node -> the nodes that it points to
          Slots,       \* num_slots_, 8
          Limit,       \* cache_size_, in bytes
          NodeBytes,   \* ByteSize() of a node
          ImapSize,    \* imap_cache_size
          MaxReads,    \* bound: walks from a root
          MaxEvents    \* bound: after-images of another instance, after-images that the
                       \* scanner finds cached, and calls of ClearCaches, together

Deltas   == DOMAIN Sizes
Nodes    == UNION {{<<i, o>> : o \in 0..(Sizes[i] - 1)} : i \in Deltas}
RootOf(i) == <<i, Sizes[i] - 1>>

ASSUME NodeCacheAssumption ==
    /\ Sizes \in Seq(Nat \ {0}) /\ Len(Sizes) > 0
    /\ Kids \in [Nodes -> SUBSET Nodes]
    /\ \A n \in Nodes : \A c \in Kids[n] : c[1] < n[1] \/ (c[1] = n[1] /\ c[2] < n[2])
    /\ Slots \in Nat \ {0, 1} /\ Limit \in Nat /\ NodeBytes \in Nat \ {0} /\ ImapSize \in Nat \ {0}
    /\ MaxReads \in Nat /\ MaxEvents \in Nat

VARIABLES
    log,        \* intentions and after-images
    heap,       \* object -> child -> [ref, addr]
    stage,      \* where the tree of each delta is
    image,      \* the after-image that the writer is about to append
    scanned,    \* how far the scanner has come
    pushed,     \* the first after-image of each delta that it gave to the matcher
    matched,    \* matched_
    fin,        \* AfterImageFinalizerEntry: pc, delta, position, offset
    cache,      \* shards_: <<position, offset>> -> object
    imap,       \* imap_, most recently used first
    traces,     \* traces_ is not empty
    reader,     \* the threads that follow pointers
    vacuum,     \* do_vaccum_: pc, slot, bytes to free
    notified,   \* cond_ was notified
    clearing,   \* Clear(): the next slot, or Idle
    stop,       \* stop_
    bound,      \* walks, duplicates, misses and calls of Clear so far
    failed      \* an assertion of the code has failed

vars == <<log, heap, stage, image, scanned, pushed, matched, fin, cache, imap, traces,
          reader, vacuum, notified, clearing, stop, bound, failed>>

treeVars    == <<log, stage, image, scanned, pushed, matched>>
vacuumVars  == <<vacuum, notified, traces>>
controlVars == <<clearing, stop, bound, failed>>

NoRef == <<>>
NoObj == <<>>
Idle  == -1

Intention(i)       == [type |-> "intention", of |-> i, ptr |-> <<>>]
AfterImage(i, ptr) == [type |-> "afterimage", of |-> i, ptr |-> ptr]

Intentions(l, i) == {p \in DOMAIN l : l[p] = Intention(i)}
Images(i)        == {p \in DOMAIN log : log[p].type = "afterimage" /\ log[p].of = i}

\* The children of the nodes of a delta that are in other deltas.
Remote(i) == UNION {{c \in Kids[<<i, o>>] : c[1] # i} : o \in 0..(Sizes[i] - 1)}

\* deserialize_node: references are empty, a pointer to self gets this position.
Copied(n, pos, ptr) ==
    [c \in Kids[n] |-> [ref |-> NoRef, addr |-> IF c[1] = n[1] THEN <<"a", pos>> ELSE ptr[c]]]

deserialize_node(n, pos) == Copied(n, pos, log[pos].ptr)

\* A name for another copy of a node.
NewCopy(h, n) == <<n, Min({k \in 1..(Cardinality(DOMAIN h) + 1) : <<n, k>> \notin DOMAIN h})>>

With(f, x, y) == [z \in DOMAIN f \cup {x} |-> IF z = x THEN y ELSE f[z]]

shard(key) == (key[1] + key[2]) % Slots
Shard(s)   == {k \in DOMAIN cache : shard(k) = s}
UsedBytes  == NodeBytes * Cardinality(DOMAIN cache)

\* The stages in which a tree holds its nodes.
InTree == {"queued", "watched"}

\* Who keeps nodes in memory: the cache c, threads rs and the trees at stage st.
Held(c, rs, st) ==
    {c[k] : k \in DOMAIN c} \cup {rs[r].obj : r \in Readers} \cup {rs[r].got : r \in Readers}
    \cup {<<n, 0>> : n \in {m \in Nodes : st[m[1]] \in InTree}}

\* What is left of the memory h: the objects that are held, and the weak references
\* to them.
Sweep(h, held) ==
    LET live == DOMAIN h \cap held
    IN  [o \in live |-> [c \in DOMAIN h[o] |->
            IF h[o][c].ref \in live THEN h[o][c] ELSE [h[o][c] EXCEPT !.ref = NoRef]]]

Resting == [pc |-> "idle", obj |-> NoObj, to |-> <<>>, addr |-> <<>>, pos |-> 0, idx |-> 0,
            got |-> NoObj]

\* The instance was opened on the first delta, whose nodes CacheAfterImage has put
\* into the cache; the other intentions are in the log already, and the scanner has passed
\* them.
Init ==
    /\ log = <<Intention(1), AfterImage(1, <<>>)>> \o [k \in 1..(Len(Sizes) - 1) |-> Intention(k + 1)]
    /\ cache = [k \in {<<2, o>> : o \in 0..(Sizes[1] - 1)} |-> <<<<1, k[2]>>, 1>>]
    /\ heap = [x \in {cache[k] : k \in DOMAIN cache} |-> Copied(x[1], 2, <<>>)]
    /\ stage = [i \in Deltas |-> IF i = 1 THEN "final" ELSE "none"]
    /\ image = <<>>
    /\ scanned = Len(log)
    /\ pushed = [i \in Deltas |-> 0]
    /\ matched = <<>>
    /\ fin = [pc |-> "idle", of |-> 0, pos |-> 0, idx |-> 0]
    /\ imap = <<>>
    /\ traces = FALSE
    /\ reader = [r \in Readers |-> Resting]
    /\ vacuum = [pc |-> "check", slot |-> 0, target |-> 0]
    /\ notified = FALSE
    /\ clearing = Idle
    /\ stop = FALSE
    /\ bound = [reads |-> 0, dups |-> 0, misses |-> 0, clears |-> 0]
    /\ failed = FALSE

-----------------------------------------------------------------------------
(* imap_, an lru_cache from intentions to the positions of their after-images. *)

Mapped(i)   == \E k \in DOMAIN imap : imap[k].of = i
MappedTo(i) == imap[CHOOSE k \in DOMAIN imap : imap[k].of = i].pos

\* get: what is found moves to the front, in the order of the calls, which is left
\* open; the others keep theirs.
Used(is) ==
    {s \in [DOMAIN imap -> Range(imap)] :
        /\ Range(s) = Range(imap)
        /\ \A k, l \in DOMAIN imap : (k < l /\ s[k].of \notin is) =>
              /\ s[l].of \notin is
              /\ \E a, b \in DOMAIN imap : a < b /\ imap[a] = s[k] /\ imap[b] = s[l]}

\* insert: an entry that is there stays, a full index loses its last entry.
Inserted(i, pos) ==
    IF Mapped(i) THEN imap
    ELSE <<[of |-> i, pos |-> pos]>> \o (IF Len(imap) >= ImapSize THEN Front(imap) ELSE imap)

-----------------------------------------------------------------------------
(* The life of a tree: processor, writer, scanner and matcher. *)

\* Something else may still happen.
Spare == bound.dups + bound.misses + bound.clears < MaxEvents

Root == Max({i \in Deltas : stage[i] # "none"})

Converted(i) == i = 1 \/ stage[i] = "final" \/ (fin.of = i /\ fin.pc # "idle")

\* The address that a pointer to a node of another delta was copied with.
AddressesOf(c) ==
    (IF c[1] = 1 THEN {<<"a", 2>>} ELSE {<<"i", c[1]>>})
    \cup (IF c[1] # 1 /\ Converted(c[1]) THEN {<<"a", pushed[c[1]]>>} ELSE {})

Objects(n) == {o \in DOMAIN heap : o[1] = n}

\* The processor publishes the next root; pointers into the delta have the address
\* of its intention.
Publish ==
    LET i == Root + 1
    IN  /\ i \in Deltas
        /\ \E addr \in [Remote(i) -> UNION {AddressesOf(c) : c \in Remote(i)}],
              ref \in [Remote(i) -> UNION {Objects(c) : c \in Remote(i)} \cup {NoRef}] :
             /\ \A c \in Remote(i) :
                   /\ addr[c] \in AddressesOf(c)
                   /\ IF Objects(c) = {} THEN ref[c] = NoRef ELSE ref[c] \in Objects(c)
             /\ heap' = [o \in DOMAIN heap \cup {<<<<i, k>>, 0>> : k \in 0..(Sizes[i] - 1)} |->
                           IF o \in DOMAIN heap THEN heap[o]
                           ELSE [c \in Kids[o[1]] |->
                                   IF c[1] = i THEN [ref |-> <<c, 0>>, addr |-> <<"i", i>>]
                                   ELSE [ref |-> ref[c], addr |-> addr[c]]]]
        /\ stage' = [stage EXCEPT ![i] = "queued"]
    /\ UNCHANGED <<vacuumVars, controlVars, log, image, scanned, pushed, matched, fin, cache,
                   imap, reader>>

\* The writer takes the tree of delta i, resolves the addresses of intentions that
\* are in the index, and has the matcher watch for it.
SerializeTree(i) ==
    LET Addr(c) == heap[CHOOSE o \in DOMAIN heap : o[1][1] = i /\ o[2] = 0 /\ c \in DOMAIN heap[o]][c].addr
        asked   == {Addr(c)[2] : c \in {d \in Remote(i) : Addr(d)[1] = "i"}}
    IN  /\ stage[i] = "queued"
        /\ image = <<>>
        /\ image' = [of |-> i, ptr |-> [c \in Remote(i) |->
                        IF Addr(c)[1] = "i" /\ Mapped(Addr(c)[2])
                        THEN <<"a", MappedTo(Addr(c)[2])>> ELSE Addr(c)]]
        /\ imap' \in Used(asked)
        /\ stage' = [stage EXCEPT ![i] = "watched"]
        /\ matched' = IF pushed[i] = 0 THEN matched ELSE Append(matched, i)
        /\ UNCHANGED <<vacuumVars, controlVars, log, heap, scanned, pushed, fin, cache,
                       reader>>

\* Mutant of Serialize: any tree of the queue.
Serialize_Any == \E i \in Deltas : SerializeTree(i)

\* The oldest one.
Serialize ==
    \E i \in Deltas : SerializeTree(i) /\ \A j \in Deltas : stage[j] = "queued" => i <= j

AppendImage ==
    /\ image # <<>>
    /\ log' = Append(log, AfterImage(image.of, image.ptr))
    /\ image' = <<>>
    /\ UNCHANGED <<vacuumVars, controlVars, heap, stage, scanned, pushed, matched, fin, cache,
                   imap, reader>>

\* Another instance on the log writes its after-images, in order as well.
OtherImage ==
    LET i == bound.dups + 2
    IN  /\ Spare /\ i \in Deltas
        /\ log' = Append(log, AfterImage(i, [c \in Remote(i) |->
                     IF c[1] = 1 THEN <<"a", 2>> ELSE <<"i", c[1]>>]))
        /\ bound' = [bound EXCEPT !.dups = @ + 1]
        /\ UNCHANGED <<vacuumVars, heap, stage, image, scanned, pushed, matched, fin, cache,
                       imap, reader, clearing, stop, failed>>

\* Mutant of Scan: until it is finalized, a later after-image replaces the first.
Scan_Latest ==
    /\ scanned < Len(log)
    /\ scanned' = scanned + 1
    /\ LET e == log[scanned + 1]
       IN  IF Converted(e.of) THEN UNCHANGED <<pushed, matched>>
           ELSE /\ pushed' = [pushed EXCEPT ![e.of] = scanned + 1]
                /\ matched' = IF stage[e.of] = "watched" /\ pushed[e.of] = 0
                              THEN Append(matched, e.of) ELSE matched
    /\ UNCHANGED <<vacuumVars, controlVars, log, heap, stage, image, fin, cache, imap, reader>>

\* The scanner gives an after-image to the matcher, which keeps the first one of
\* each delta; it does not when another thread has cached the entry before.
Scan ==
    /\ scanned < Len(log)
    /\ scanned' = scanned + 1
    /\ LET e == log[scanned + 1]
       IN  IF pushed[e.of] # 0 THEN UNCHANGED <<pushed, matched>>
           ELSE /\ pushed' = [pushed EXCEPT ![e.of] = scanned + 1]
                /\ matched' = IF stage[e.of] = "watched"
                              THEN Append(matched, e.of) ELSE matched
    /\ UNCHANGED <<vacuumVars, controlVars, log, heap, stage, image, fin, cache, imap, reader>>

ScanMisses ==
    /\ scanned < Len(log)
    /\ Spare
    /\ scanned' = scanned + 1
    /\ bound' = [bound EXCEPT !.misses = @ + 1]
    /\ UNCHANGED <<vacuumVars, log, heap, stage, image, pushed, matched, fin, cache, imap,
                   reader, clearing, stop, failed>>

-----------------------------------------------------------------------------
(* The finalizer. *)

\* SetDeltaPosition: the pointers into the delta get the after-image's address.
FinalizerConverts ==
    /\ fin.pc = "idle"
    /\ matched # <<>>
    /\ LET i   == Head(matched)
           pos == pushed[i]
       IN  /\ fin' = [pc |-> "map", of |-> i, pos |-> pos, idx |-> 0]
           /\ heap' = [o \in DOMAIN heap |->
                         IF o[1][1] # i \/ o[2] # 0 THEN heap[o]
                         ELSE [c \in DOMAIN heap[o] |->
                                 IF c[1] = i THEN [heap[o][c] EXCEPT !.addr = <<"a", pos>>]
                                 ELSE heap[o][c]]]
           /\ failed' = (failed \/ \E k \in Intentions(log, i) : pos <= k)
    /\ matched' = Tail(matched)
    /\ UNCHANGED <<vacuumVars, log, stage, image, scanned, pushed, cache, imap, reader,
                   clearing, stop, bound>>

\* Mutant of FinalizerMaps: the intention is mapped to the end of the log.
FinalizerMaps_Tail ==
    /\ fin.pc = "map"
    /\ imap' = Inserted(fin.of, Len(log))
    /\ fin' = [fin EXCEPT !.pc = "apply"]
    /\ UNCHANGED <<treeVars, vacuumVars, controlVars, heap, cache, reader>>

\* SetIntentionMapping.
FinalizerMaps ==
    /\ fin.pc = "map"
    /\ imap' = Inserted(fin.of, fin.pos)
    /\ fin' = [fin EXCEPT !.pc = "apply"]
    /\ UNCHANGED <<treeVars, vacuumVars, controlVars, heap, cache, reader>>

\* One turn of the loop of ApplyAfterImageDelta, whose assertion says that the node
\* is not there; after the last one the tree is dropped.
FinalizerApplies ==
    /\ fin.pc = "apply"
    /\ LET key  == <<fin.pos, fin.idx>>
           last == fin.idx = Sizes[fin.of] - 1
       IN  /\ failed' = (failed \/ key \in DOMAIN cache)
           /\ cache' = IF key \in DOMAIN cache THEN cache
                       ELSE With(cache, key, <<<<fin.of, fin.idx>>, 0>>)
           /\ fin' = IF last THEN [pc |-> "idle", of |-> 0, pos |-> 0, idx |-> 0]
                     ELSE [fin EXCEPT !.idx = @ + 1]
           /\ stage' = IF last THEN [stage EXCEPT ![fin.of] = "final"] ELSE stage
           /\ UNCHANGED reader
           /\ heap' = Sweep(heap, Held(cache', reader', stage'))
    /\ UNCHANGED <<vacuumVars, log, image, scanned, pushed, matched, imap, clearing, stop,
                   bound>>

-----------------------------------------------------------------------------
(* Threads that follow pointers: NodePtr::ref and fetch. *)

Notify == notified' = (notified \/ vacuum.pc = "sleep")

\* The thread holds object o, through a pointer that has an address.
Hop(r, o) == reader' = [reader EXCEPT ![r] = [Resting EXCEPT !.pc = "at", !.obj = o]]

\* The key that a fetch of node n from the after-image at pos looks for.
Key(r) == <<reader[r].pos, reader[r].to[2]>>

\* A copy of node n of the after-image at pos enters the cache.
Copy(n, pos) ==
    LET o == NewCopy(heap, n)
    IN  /\ cache' = With(cache, <<pos, n[2]>>, o)
        /\ heap' = With(heap, o, deserialize_node(n, pos))

\* A walk starts at the root of a snapshot, whose pointer is a copy of root_ and was
\* never converted; a pointer that was used before may lead to a later copy.
BeginAtRoot(r, i) ==
    LET n == RootOf(i)
    IN  IF <<n, 0>> \in DOMAIN heap THEN Hop(r, <<n, 0>>)
        ELSE \/ \E o \in Objects(n) : Hop(r, o)
             \/ reader' = [reader EXCEPT ![r] = [Resting EXCEPT
                   !.pc = "find", !.to = n,
                   !.addr = IF i = 1 THEN <<"a", 2>> ELSE <<"i", i>>]]

\* Or at a node of a tree that writer or finalizer hold: serialize_node_ptr and
\* SetDeltaPosition look at the children of each node.
Begin(r) ==
    /\ reader[r].pc = "idle"
    /\ bound.reads < MaxReads
    /\ bound' = [bound EXCEPT !.reads = @ + 1]
    /\ \/ \E i \in 1..Root : BeginAtRoot(r, i)
       \/ \E n \in Nodes : stage[n[1]] \in InTree /\ Hop(r, <<n, 0>>)
    /\ UNCHANGED <<treeVars, vacuumVars, heap, fin, cache, imap, clearing, stop, failed>>

\* Mutant of Follow: the weak reference is not tried.
Follow_Refetch(r) ==
    /\ reader[r].pc = "at"
    /\ \E c \in DOMAIN heap[reader[r].obj] :
         reader' = [reader EXCEPT ![r].pc = "find", ![r].to = c,
                                  ![r].addr = heap[reader[r].obj][c].addr]
    /\ UNCHANGED <<treeVars, vacuumVars, controlVars, heap, fin, cache, imap>>

\* ref(): the weak reference if it is alive, else a fetch with the address of now.
Follow(r) ==
    /\ reader[r].pc = "at"
    /\ UNCHANGED <<treeVars, cache>>
    /\ \E c \in DOMAIN heap[reader[r].obj] :
         LET p == heap[reader[r].obj][c]
         IN  \/ /\ p.ref # NoRef
                /\ Hop(r, p.ref)
                /\ heap' = Sweep(heap, Held(cache', reader', stage'))
             \/ /\ p.ref = NoRef
                /\ reader' = [reader EXCEPT ![r].pc = "find", ![r].to = c, ![r].addr = p.addr]
                /\ UNCHANGED heap
    /\ UNCHANGED <<vacuumVars, controlVars, fin, imap>>

\* findAfterImagePosition: the iterator over the after-images that follow the
\* intention waits at the end of the log.
Find(r) ==
    /\ reader[r].pc = "find"
    /\ LET a == reader[r].addr
       IN  \/ /\ a[1] = "a"
              /\ reader' = [reader EXCEPT ![r].pc = "look", ![r].addr = <<>>, ![r].pos = a[2]]
              /\ UNCHANGED imap
           \/ /\ a[1] = "i" /\ Mapped(a[2])
              /\ reader' = [reader EXCEPT ![r].pc = "look", ![r].addr = <<>>, ![r].pos = MappedTo(a[2])]
              /\ imap' \in Used({a[2]})
           \/ /\ a[1] = "i" /\ ~Mapped(a[2])
              /\ Images(a[2]) # {}
              /\ reader' = [reader EXCEPT ![r].pc = "look", ![r].addr = <<>>, ![r].pos = Min(Images(a[2]))]
              /\ UNCHANGED imap
    /\ UNCHANGED <<treeVars, vacuumVars, controlVars, heap, fin, cache>>

\* The first lookup; before the log is read the trace, which has at least the
\* address that is fetched, is published.
Look(r) ==
    /\ reader[r].pc = "look"
    /\ \/ /\ Key(r) \in DOMAIN cache
          /\ reader' = [reader EXCEPT ![r].pc = "got", ![r].got = cache[Key(r)]]
          /\ UNCHANGED <<traces, notified>>
       \/ /\ Key(r) \notin DOMAIN cache
          /\ reader' = [reader EXCEPT ![r].pc = "load", ![r].idx = 0]
          /\ traces' = TRUE
          /\ Notify
    /\ UNCHANGED <<treeVars, controlVars, heap, fin, cache, imap, vacuum>>

\* One turn of the loop of CacheAfterImage.
Load(r) ==
    LET n == <<reader[r].to[1], reader[r].idx>>
    IN  /\ reader[r].pc = "load"
        /\ IF <<reader[r].pos, n[2]>> \in DOMAIN cache THEN UNCHANGED <<cache, heap>>
           ELSE Copy(n, reader[r].pos)
        /\ reader' = [reader EXCEPT ![r].idx = IF n = RootOf(n[1]) THEN 0 ELSE @ + 1,
                                    ![r].pc = IF n = RootOf(n[1]) THEN "again" ELSE @]
        /\ UNCHANGED <<treeVars, vacuumVars, controlVars, fin, imap>>

\* "its probably there now"
Again(r) ==
    /\ reader[r].pc = "again"
    /\ reader' = [reader EXCEPT
         ![r].pc  = IF Key(r) \in DOMAIN cache THEN "got" ELSE "insert",
         ![r].got = IF Key(r) \in DOMAIN cache THEN cache[Key(r)] ELSE NoObj]
    /\ UNCHANGED <<treeVars, vacuumVars, controlVars, heap, fin, cache, imap>>

\* Mutant of Insert: start over instead.
Insert_Retry(r) ==
    /\ reader[r].pc = "insert"
    /\ reader' = [reader EXCEPT ![r].pc = "look"]
    /\ UNCHANGED <<treeVars, vacuumVars, controlVars, heap, fin, cache, imap>>

\* "look one more time before inserting it into the cache"
Insert(r) ==
    /\ reader[r].pc = "insert"
    /\ IF Key(r) \in DOMAIN cache THEN UNCHANGED <<cache, heap>>
       ELSE Copy(reader[r].to, reader[r].pos)
    /\ reader' = [reader EXCEPT ![r].pc = "got", ![r].got = cache'[Key(r)]]
    /\ UNCHANGED <<treeVars, vacuumVars, controlVars, fin, imap>>

\* Back in ref(): a reference that another thread has set meanwhile is used, else
\* the pointer gets the fetched one.
Got(r) ==
    LET o    == reader[r].obj
        c    == reader[r].to
        mine == o = NoObj \/ heap[o][c].ref = NoRef
        next == IF mine THEN reader[r].got ELSE heap[o][c].ref
    IN  /\ reader[r].pc = "got"
        /\ reader' = [reader EXCEPT ![r] = [Resting EXCEPT !.pc = "at", !.obj = next]]
        /\ UNCHANGED <<treeVars, cache>>
        /\ heap' = Sweep(IF o # NoObj /\ mine THEN [heap EXCEPT ![o][c].ref = next] ELSE heap, Held(cache', reader', stage'))
        /\ UNCHANGED <<vacuumVars, controlVars, fin, imap>>

\* The end of a walk: UpdateLRU, unless a fetch has just published the trace or the
\* walk was one of ref_notrace.
Leave(r) ==
    /\ reader[r].pc = "at"
    /\ reader' = [reader EXCEPT ![r] = Resting]
    /\ \/ traces' = TRUE /\ Notify
       \/ UNCHANGED <<traces, notified>>
    /\ UNCHANGED <<treeVars, cache>>
    /\ heap' = Sweep(heap, Held(cache', reader', stage'))
    /\ UNCHANGED <<controlVars, fin, imap, vacuum>>

-----------------------------------------------------------------------------
(* The vacuum thread, Clear and Stop. *)

\* One evaluation of the condition, under lock_.  traces_ is swapped with itself and
\* keeps what it holds.
VacuumChecks ==
    /\ vacuum.pc = "check"
    /\ vacuum' = [vacuum EXCEPT !.pc = IF stop THEN "done"
                                       ELSE IF traces \/ UsedBytes > Limit THEN "test" ELSE "sleep"]
    /\ UNCHANGED <<treeVars, controlVars, heap, fin, cache, imap, traces, reader, notified>>

VacuumWakes ==
    /\ vacuum.pc = "sleep"
    /\ vacuum' = [vacuum EXCEPT !.pc = "check"]
    /\ notified' = FALSE
    /\ UNCHANGED <<treeVars, controlVars, heap, fin, cache, imap, traces, reader>>

VacuumTests ==
    /\ vacuum.pc = "test"
    /\ vacuum' = [vacuum EXCEPT !.pc = IF UsedBytes > Limit THEN "target" ELSE "check"]
    /\ UNCHANGED <<treeVars, controlVars, heap, fin, cache, imap, traces, reader, notified>>

\* Mutant of EvictCount: only nodes that fit into the excess.
EvictCount_Whole(excess) ==
    IF excess < 0 THEN Cardinality(Nodes) * (MaxEvents + 1)
    ELSE (excess \div Slots) \div NodeBytes

\* The nodes that one shard loses for an excess over the limit.  The difference of
\* two size_t wraps when the cache has shrunk since it was tested: everything goes.
EvictCount(excess) ==
    IF excess < 0 THEN Cardinality(Nodes) * (MaxEvents + 1)
    ELSE ((excess \div Slots) + NodeBytes - 1) \div NodeBytes

VacuumTargets ==
    /\ vacuum.pc = "target"
    /\ vacuum' = [pc |-> "evict", slot |-> 0, target |-> EvictCount(UsedBytes - Limit)]
    /\ UNCHANGED <<treeVars, controlVars, heap, fin, cache, imap, traces, reader, notified>>

\* One shard, under its lock.
VacuumEvicts ==
    /\ vacuum.pc = "evict"
    /\ \E gone \in SUBSET Shard(vacuum.slot) :
         /\ Cardinality(gone) = Min({vacuum.target, Cardinality(Shard(vacuum.slot))})
         /\ cache' = [k \in DOMAIN cache \ gone |-> cache[k]]
    /\ UNCHANGED <<treeVars, reader>>
    /\ heap' = Sweep(heap, Held(cache', reader', stage'))
    /\ vacuum' = IF vacuum.slot = Slots - 1 THEN [pc |-> "check", slot |-> 0, target |-> 0]
                 ELSE [vacuum EXCEPT !.slot = @ + 1]
    /\ UNCHANGED <<controlVars, fin, imap, traces, notified>>

\* Clear(): the index and the traces under lock_, then shard by shard.
ClearIndex ==
    /\ clearing = Idle
    /\ Spare
    /\ bound' = [bound EXCEPT !.clears = @ + 1]
    /\ clearing' = 0
    /\ Notify
    /\ imap' = <<>>
    /\ traces' = FALSE
    /\ UNCHANGED <<treeVars, heap, fin, cache, reader, vacuum, stop, failed>>

ClearShard ==
    /\ clearing # Idle
    /\ cache' = [k \in DOMAIN cache \ Shard(clearing) |-> cache[k]]
    /\ UNCHANGED <<treeVars, reader>>
    /\ heap' = Sweep(heap, Held(cache', reader', stage'))
    /\ clearing' = IF clearing = Slots - 1 THEN Idle ELSE clearing + 1
    /\ UNCHANGED <<vacuumVars, fin, imap, stop, bound, failed>>

\* Mutant of Stop: the sleeping thread is not notified.
Stop_Quiet ==
    /\ ~stop
    /\ fin.pc = "idle" /\ clearing = Idle
    /\ \A r \in Readers : reader[r].pc = "idle"
    /\ stop' = TRUE
    /\ UNCHANGED <<treeVars, vacuumVars, heap, fin, cache, imap, reader, clearing, bound,
                   failed>>

\* Stop(), the last thing that the destructor of the database does: the threads
\* that use the cache have ended.
Stop ==
    /\ ~stop
    /\ fin.pc = "idle" /\ clearing = Idle
    /\ \A r \in Readers : reader[r].pc = "idle"
    /\ stop' = TRUE
    /\ Notify
    /\ UNCHANGED <<treeVars, heap, fin, cache, imap, traces, reader, vacuum, clearing, bound,
                   failed>>

-----------------------------------------------------------------------------
Tree == Publish \/ Serialize \/ AppendImage \/ OtherImage \/ Scan \/ ScanMisses
Finalizer == FinalizerConverts \/ FinalizerMaps \/ FinalizerApplies
Fetch(r) == Find(r) \/ Look(r) \/ Load(r) \/ Again(r) \/ Insert(r) \/ Got(r)
Vacuum == VacuumChecks \/ VacuumTests \/ VacuumTargets \/ VacuumEvicts

Next ==
    \/ ~stop /\ (Tree \/ Finalizer \/ ClearIndex \/ ClearShard
                 \/ \E r \in Readers : Begin(r) \/ Follow(r) \/ Fetch(r) \/ Leave(r))
    \/ Stop
    \/ Vacuum \/ VacuumWakes

Spec == Init /\ [][Next]_vars

\* A thread that can run runs.  A sleeping vacuum thread is only sure to wake when
\* it was notified; nobody has to start a walk, to publish or to stop.
FairSpec ==
    /\ Spec
    /\ \A r \in Readers : WF_vars(~stop /\ (Fetch(r) \/ Leave(r)))
    /\ WF_vars(Vacuum)
    /\ WF_vars(notified /\ VacuumWakes)
    /\ WF_vars(~stop /\ ClearShard)

-----------------------------------------------------------------------------
\* The finalizer finds the nodes of its delta in the cache, or converts an address to
\* an earlier position (the assertions of ApplyAfterImageDelta and
\* ConvertToAfterImage), only for a delta whose first after-image the scanner has
\* missed.  Any fetch caches all the nodes of an after-image, but nobody fetches from
\* a delta whose tree still holds its nodes.
CacheAssertsHold == failed => \E i \in Deltas : pushed[i] # 0 /\ pushed[i] # Min(Images(i))

\* A fetch by the address of an intention finds an after-image in the log and does
\* not wait for one ("that resolution will always succeed"), although the pointers
\* of nodes that were read from the log keep such addresses with no node behind them.
FetchesAreAnswered ==
    \A r \in Readers : (reader[r].pc = "find" /\ reader[r].addr[1] = "i") => Images(reader[r].addr[2]) # {}

\* What is found under an address is the node that is meant: a cached object is the
\* one that the log has at its key, and every pointer to an after-image, in memory
\* or on its way to the log, leads to an after-image of the right delta.
AddressesMatchLog ==
    LET Leads(addr, n) == IF addr[1] = "i" THEN addr[2] = n[1]
                          ELSE addr[2] \in Images(n[1])
    IN  /\ \A k \in DOMAIN cache : k[1] \in Images(cache[k][1][1]) /\ k[2] = cache[k][1][2]
        /\ \A o \in DOMAIN heap : \A c \in DOMAIN heap[o] : Leads(heap[o][c].addr, c)
        /\ \A p \in DOMAIN log : \A c \in DOMAIN log[p].ptr : Leads(log[p].ptr[c], c)
        /\ \A k \in DOMAIN imap : imap[k].pos \in Images(imap[k].of)

\* While the scanner has missed nothing, a node is cached under one key only, that
\* of the first after-image of its delta, whichever of finalizer and fetch put it
\* there and whoever wrote the after-image.
CachedUnderPrimary ==
    bound.misses = 0 => \A k \in DOMAIN cache : k[1] = Min(Images(cache[k][1][1]))

\* The vacuum thread is not left asleep by Stop(), which joins it, nor by a thread
\* that hands over its trace, whenever they come between its test and its sleep.
WakeUpNotLost == vacuum.pc = "sleep" /\ (stop \/ traces) => notified

\* Every fetch returns, however often the vacuum and Clear take away what it has
\* just put into the cache.
FetchReturns ==
    \A r \in Readers : reader[r].pc \in {"find", "look", "load", "again", "insert", "got"} ~> reader[r].pc = "at"

\* Excess bytes that the vacuum can share out among the shards go, as long as there
\* are traces to keep it awake.
VacuumEnforcesLimit ==
    LET Excessive == Cardinality(DOMAIN cache) >= (Limit + Slots + NodeBytes - 1) \div NodeBytes
    IN  (traces /\ Excessive) ~> (~Excessive \/ ~traces \/ stop)
=============================================================================
