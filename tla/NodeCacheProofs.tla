--------------------------- MODULE NodeCacheProofs ---------------------------
(***************************************************************************)
(* Proofs about NodeCache, for any deltas, threads, shards and limits.     *)
(*                                                                         *)
(* The inductive invariant has two layers.  Order is about the log, the    *)
(* scanner, the matcher and the finalizer: trees are written, met and      *)
(* finalized in the order of their intentions, except after an after-image *)
(* that the scanner has missed.  Memory is about nodes and addresses: an   *)
(* address leads to its node, and a pointer with no node behind it leads   *)
(* into a delta at or before one that was finalized (Open), so that its    *)
(* after-image is in the log and its tree is no longer waiting for one.    *)
(* Both are stated with Good and Open, which no step makes false.          *)
(***************************************************************************)
EXTENDS NodeCache, MinMaxFacts, FiniteSetTheorems, SequenceTheorems

-----------------------------------------------------------------------------
(* The vocabulary of the invariant. *)

Objs  == Nodes \X Nat
Addrs == {"i", "a"} \X Nat
Ptrs  == UNION {[S -> Addrs] : S \in SUBSET Nodes}

\* The end of the log when the instance was opened.
First == Len(Sizes) + 1

\* The scanner has passed an after-image of delta i before the one that it gave to
\* the matcher, if it gave one at all.
Missed(i) == \E p \in Images(i) : p <= scanned /\ (pushed[i] = 0 \/ p < pushed[i])

\* An after-image of delta i; the first one unless the scanner has missed one.
Good(pos, i) ==
    pos \in Images(i) /\ (bound.misses = 0 => \A p \in Images(i) : pos <= p)

Leads(addr, n) ==
    \/ addr[1] = "i" /\ addr[2] = n[1]
    \/ addr[1] = "a" /\ Good(addr[2], n[1])

\* Nodes of the delta may be read from the log: a tree that points there, or that of
\* the delta itself, has been finalized.
Open(d) == d = 1 \/ \E j \in Deltas : d <= j /\ stage[j] = "final"

\* The finalizer has delta i.
Finalizing(i) == fin.pc # "idle" /\ fin.of = i

Written == {"watched", "final"}

-----------------------------------------------------------------------------
(* Order. *)

OrderTypes ==
    /\ log \in Seq([type : {"intention", "afterimage"}, of : Deltas, ptr : Ptrs])
    /\ stage \in [Deltas -> {"none", "queued", "watched", "final"}]
    /\ image \in {<<>>} \cup [of : Deltas, ptr : Ptrs]
    /\ scanned \in Nat
    /\ pushed \in [Deltas -> Nat]
    /\ matched \in Seq(Deltas)
    /\ fin \in [pc : {"idle", "map", "apply"}, of : Nat, pos : Nat, idx : Nat]
    /\ bound \in [reads : Nat, dups : Nat, misses : Nat, clears : Nat]

\* The log starts as it was when the instance was opened; after-images follow.
LogShape ==
    /\ First <= scanned /\ scanned <= Len(log)
    /\ \A p \in DOMAIN log :
          /\ log[p].type = "afterimage" <=> p = 2 \/ p > First
          /\ log[p].type = "afterimage" => (log[p].of = 1 <=> p = 2)
          /\ log[p].type = "intention" => log[p].ptr = <<>>

\* The matcher was given after-images that the scanner has passed, the first ones
\* unless one was missed.
PushedOK ==
    /\ pushed[1] = 0
    /\ \A i \in Deltas : pushed[i] # 0 => pushed[i] \in Images(i) /\ pushed[i] <= scanned
    /\ bound.misses = 0 => \A i \in Deltas : i # 1 => ~Missed(i)

\* Whoever writes them, first after-images are in the order of their deltas.
ImagesInOrder ==
    /\ \A i, j \in Deltas : i < j => \A p \in Images(j) : \E q \in Images(i) : q < p
    /\ \A i \in Deltas : 1 < i /\ i <= bound.dups + 1 => Images(i) # {}
    /\ image # <<>> => image.of # 1 /\ \A j \in Deltas : j < image.of => Images(j) # {}

StagesInOrder ==
    /\ stage[1] = "final"
    /\ \A i, j \in Deltas : i < j /\ stage[j] # "none" => stage[i] # "none"
    /\ \A i, j \in Deltas : i < j /\ stage[j] \in Written => stage[i] \in Written
    /\ \A i \in Deltas : i # 1 /\ stage[i] = "final" => pushed[i] # 0
    /\ \A i \in Deltas : i # 1 /\ stage[i] \in Written =>
          Images(i) # {} \/ (image # <<>> /\ image.of = i)

\* A tree is queued for the finalizer once, as soon as it is watched and its
\* after-image was pushed, whichever comes first.
QueueOK ==
    /\ \A k \in DOMAIN matched : stage[matched[k]] = "watched" /\ pushed[matched[k]] # 0
    /\ \A k, l \in DOMAIN matched : k # l => matched[k] # matched[l]
    /\ fin.pc # "idle" =>
          /\ fin.of \in Deltas /\ stage[fin.of] = "watched"
          /\ fin.pos = pushed[fin.of] /\ fin.pos # 0
          /\ fin.idx < Sizes[fin.of]
          /\ \A k \in DOMAIN matched : matched[k] # fin.of
    /\ \A i \in Deltas : stage[i] = "watched" /\ pushed[i] # 0 =>
          Finalizing(i) \/ \E k \in DOMAIN matched : matched[k] = i

\* Only a delta with a missed after-image is overtaken by a later one.
FinalizedInOrder ==
    \A i, j \in Deltas : 1 < i /\ i < j /\ ~Missed(i) =>
        /\ stage[j] = "final" \/ Finalizing(j) => stage[i] = "final"
        /\ \A k \in DOMAIN matched : matched[k] = j =>
              \/ stage[i] = "final" \/ Finalizing(i)
              \/ \E l \in DOMAIN matched : l < k /\ matched[l] = i

Order ==
    /\ OrderTypes /\ LogShape /\ PushedOK /\ ImagesInOrder /\ StagesInOrder /\ QueueOK
    /\ FinalizedInOrder

-----------------------------------------------------------------------------
(* Memory. *)

ReaderStates == {"idle", "at", "find", "look", "load", "again", "insert", "got"}

ThreadStates == [pc : ReaderStates, obj : Objs \cup {NoObj}, to : Nodes \cup {<<>>},
                 addr : Addrs \cup {<<>>}, pos : Nat, idx : Nat, got : Objs \cup {NoObj}]

MemoryTypes ==
    /\ DOMAIN heap \subseteq Objs
    /\ IsFiniteSet(DOMAIN heap)
    /\ DOMAIN cache \subseteq Nat \X Nat
    /\ imap \in Seq([of : Deltas, pos : Nat])
    /\ reader \in [Readers -> ThreadStates]
    /\ failed \in BOOLEAN

\* A copy was read from the log, an original was published; the trees of the queue
\* and of the matcher hold all of their nodes.
ObjectsOK ==
    /\ \A o \in DOMAIN heap : IF o[2] = 0 THEN stage[o[1][1]] # "none" ELSE Open(o[1][1])
    /\ \A n \in Nodes : stage[n[1]] \in InTree => <<n, 0>> \in DOMAIN heap

Pointers == [ref : Objs \cup {NoRef}, addr : Addrs]

\* A reference is to the node that is meant, or empty if that may be read from the log.
GoodPointers(h) ==
    \A o \in DOMAIN h :
        /\ h[o] \in [Kids[o[1]] -> Pointers]
        /\ \A c \in Kids[o[1]] :
              /\ Leads(h[o][c].addr, c)
              /\ IF h[o][c].ref = NoRef THEN Open(c[1])
                 ELSE h[o][c].ref \in DOMAIN h /\ h[o][c].ref[1] = c

PointersOK == GoodPointers(heap)

\* What the log and the writer's after-image point to.
ImagesOK ==
    /\ \A p \in DOMAIN log : log[p].type = "afterimage" =>
          /\ DOMAIN log[p].ptr = Remote(log[p].of)
          /\ \A c \in Remote(log[p].of) : Leads(log[p].ptr[c], c)
    /\ image # <<>> =>
          /\ DOMAIN image.ptr = Remote(image.of)
          /\ \A c \in Remote(image.of) : Leads(image.ptr[c], c)

ImapOK == \A k \in DOMAIN imap : Good(imap[k].pos, imap[k].of)

CacheOK ==
    \A k \in DOMAIN cache :
        /\ cache[k] \in DOMAIN heap
        /\ k[2] = cache[k][1][2]
        /\ Good(k[1], cache[k][1][1])
        /\ Open(cache[k][1][1]) \/ (Finalizing(cache[k][1][1]) /\ k[2] < fin.idx)

\* What thread r holds is in memory; it fetches only from deltas that may be read.
ReaderOK(r) ==
    /\ reader[r].obj # NoObj => reader[r].obj \in DOMAIN heap
    /\ reader[r].got # NoObj => reader[r].got \in DOMAIN heap /\ reader[r].got[1] = reader[r].to
    /\ reader[r].pc = "at" => reader[r].obj # NoObj
    /\ reader[r].pc = "got" <=> reader[r].got # NoObj
    /\ reader[r].pc \notin {"idle", "at"} =>
          /\ reader[r].to \in Nodes /\ Open(reader[r].to[1])
          /\ reader[r].obj # NoObj => reader[r].to \in Kids[reader[r].obj[1]]
    /\ reader[r].pc = "find" => reader[r].addr \in Addrs /\ Leads(reader[r].addr, reader[r].to)
    /\ reader[r].pc \in {"look", "load", "again", "insert"} =>
          Good(reader[r].pos, reader[r].to[1])
    /\ reader[r].pc = "load" => reader[r].idx < Sizes[reader[r].to[1]]

ReadersOK == \A r \in Readers : ReaderOK(r)

FailedOK == failed => \E i \in Deltas : i # 1 /\ pushed[i] # 0 /\ Missed(i)

Memory ==
    /\ MemoryTypes /\ ObjectsOK /\ PointersOK /\ ImagesOK /\ ImapOK /\ CacheOK /\ ReadersOK
    /\ FailedOK

IInv == Order /\ Memory

-----------------------------------------------------------------------------
(* Facts about constants and operators. *)

\* Deltas are numbered from 1.
LEMMA DeltaFacts ==
    /\ Len(Sizes) \in Nat \ {0} /\ Deltas = 1..Len(Sizes) /\ 1 \in Deltas
    /\ \A i \in Deltas : i \in Nat /\ Sizes[i] \in Nat \ {0}
    /\ First \in Nat
BY NodeCacheAssumption DEF Deltas, First

\* A node names a delta and an offset in it.
LEMMA NodeFacts ==
    /\ \A n \in Nodes : n[1] \in Deltas /\ n[2] \in 0..(Sizes[n[1]] - 1) /\ n = <<n[1], n[2]>>
    /\ \A i \in Deltas : \A k \in 0..(Sizes[i] - 1) : <<i, k>> \in Nodes
    /\ \A n \in Nodes : Kids[n] \in SUBSET Nodes
    /\ \A n \in Nodes : \A c \in Kids[n] : c \in Nodes /\ c[1] <= n[1]
<1>1. \A n \in Nodes : n[1] \in Deltas /\ n[2] \in 0..(Sizes[n[1]] - 1) /\ n = <<n[1], n[2]>>
  BY DEF Nodes
<1>2. \A i \in Deltas : \A k \in 0..(Sizes[i] - 1) : <<i, k>> \in Nodes
  BY DEF Nodes
<1>3. \A n \in Nodes : Kids[n] \in SUBSET Nodes
  BY NodeCacheAssumption
<1>4. ASSUME NEW n \in Nodes, NEW c \in Kids[n] PROVE c \in Nodes /\ c[1] <= n[1]
  <2>1. c \in Nodes
    BY <1>3
  <2>2. c[1] \in Nat /\ n[1] \in Nat
    BY <2>1, <1>1, DeltaFacts
  <2>3. c[1] < n[1] \/ c[1] = n[1]
    BY NodeCacheAssumption
  <2>4. QED  BY <2>1, <2>2, <2>3
<1>5. QED  BY <1>1, <1>2, <1>3, <1>4

\* The nodes of a delta point to earlier deltas or to their own.
LEMMA RemoteFacts ==
    /\ \A i \in Deltas : Remote(i) \subseteq Nodes
    /\ \A i \in Deltas : \A c \in Remote(i) : c[1] \in Deltas /\ c[1] < i
    /\ \A n \in Nodes : \A c \in Kids[n] : c[1] # n[1] => c \in Remote(n[1])
<1>1. ASSUME NEW i \in Deltas, NEW c \in Remote(i)
      PROVE  c \in Nodes /\ c[1] \in Deltas /\ c[1] < i
  <2>1. PICK o \in 0..(Sizes[i] - 1) : c \in Kids[<<i, o>>] /\ c[1] # i
    BY DEF Remote
  <2>2. <<i, o>> \in Nodes
    BY NodeFacts
  <2>3. c \in Nodes /\ c[1] <= i
    BY <2>1, <2>2, NodeFacts
  <2>4. c[1] \in Deltas /\ c[1] \in Nat /\ i \in Nat
    BY <2>3, NodeFacts, DeltaFacts
  <2>5. QED  BY <2>1, <2>3, <2>4
<1>2. ASSUME NEW n \in Nodes, NEW c \in Kids[n], c[1] # n[1]
      PROVE  c \in Remote(n[1])
  <2>1. n = <<n[1], n[2]>> /\ n[2] \in 0..(Sizes[n[1]] - 1)
    BY NodeFacts
  <2>2. c \in {d \in Kids[<<n[1], n[2]>>] : d[1] # n[1]}
    BY <1>2, <2>1
  <2>3. QED  BY <2>1, <2>2 DEF Remote
<1>3. QED  BY <1>1, <1>2

\* The first delta points to no other.
LEMMA NothingBeforeTheFirst == Remote(1) = {}
<1>1. \A c \in Remote(1) : c[1] \in Nat \ {0} /\ c[1] < 1
  BY RemoteFacts, DeltaFacts
<1>2. QED  BY <1>1

\* The empty tuple is neither an object nor an address nor a node.
LEMMA EmptyIsNothing == <<>> \notin Objs /\ <<>> \notin Addrs /\ <<>> \notin Nodes
<1>1. \A S, T : <<>> \notin S \X T
  OBVIOUS
<1>2. <<>> \notin Nodes
  BY NodeFacts
<1>3. QED  BY <1>1, <1>2 DEF Objs, Addrs

\* Maps from nodes to addresses, the empty one among them.
LEMMA PtrFacts ==
    /\ <<>> \in Ptrs
    /\ \A i \in Deltas : \A f : f \in [Remote(i) -> Addrs] => f \in Ptrs
<1>1. <<>> \in [{} -> Addrs]
  OBVIOUS
<1>2. {} \in SUBSET Nodes
  OBVIOUS
<1>3. \A S \in SUBSET Nodes : \A f \in [S -> Addrs] : f \in Ptrs
  BY DEF Ptrs
<1>4. QED  BY <1>1, <1>2, <1>3, RemoteFacts

\* A function on 1..n is a sequence.
LEMMA FunctionSeq ==
    ASSUME NEW S, NEW n \in Nat, NEW f \in [1..n -> S]
    PROVE  f \in Seq(S) /\ Len(f) = n
<1>1. f \in Seq(S)
  BY SeqDef
<1>2. Len(f) \in Nat /\ DOMAIN f = 1..Len(f)
  BY <1>1, LenProperties
<1>3. QED  BY <1>1, <1>2

\* Positions of after-images are natural numbers of the log.
LEMMA ImagesFacts ==
    ASSUME OrderTypes
    PROVE  /\ DOMAIN log = 1..Len(log) /\ Len(log) \in Nat
           /\ \A i : Images(i) \in SUBSET Nat
           /\ \A i : \A p \in Images(i) : p \in DOMAIN log /\ p \in Nat /\ 1 <= p /\ p <= Len(log)
<1>1. DOMAIN log = 1..Len(log) /\ Len(log) \in Nat
  BY DEF OrderTypes
<1>2. QED  BY <1>1 DEF Images

\* What a position holds that the log grows by.
LEMMA AppendImageFacts ==
    ASSUME OrderTypes, NEW d \in Deltas, NEW ptr \in Ptrs,
           log' = Append(log, AfterImage(d, ptr))
    PROVE  /\ log' \in Seq([type : {"intention", "afterimage"}, of : Deltas, ptr : Ptrs])
           /\ Len(log') = Len(log) + 1
           /\ DOMAIN log' = DOMAIN log \cup {Len(log) + 1}
           /\ \A p \in DOMAIN log : log'[p] = log[p]
           /\ log'[Len(log) + 1] = AfterImage(d, ptr)
           /\ \A i : i # d => Images(i)' = Images(i)
           /\ Images(d)' = Images(d) \cup {Len(log) + 1}
<1> DEFINE E == [type : {"intention", "afterimage"}, of : Deltas, ptr : Ptrs]
<1>1. log \in Seq(E) /\ AfterImage(d, ptr) \in E
  BY DEF OrderTypes, AfterImage
<1> HIDE DEF E
<1>2. /\ log' \in Seq(E) /\ Len(log') = Len(log) + 1
      /\ DOMAIN log = 1..Len(log) /\ DOMAIN log' = 1..(Len(log) + 1)
      /\ \A p \in DOMAIN log : log'[p] = log[p]
      /\ log'[Len(log) + 1] = AfterImage(d, ptr)
  BY <1>1, AppendFacts
<1>3. Len(log) \in Nat
  BY <1>1
<1>4. DOMAIN log' = DOMAIN log \cup {Len(log) + 1} /\ Len(log) + 1 \notin DOMAIN log
  BY <1>2, <1>3
<1>5. AfterImage(d, ptr).type = "afterimage" /\ AfterImage(d, ptr).of = d
  BY DEF AfterImage
<1>6. \A i : Images(i)' = {p \in DOMAIN log' : log'[p].type = "afterimage" /\ log'[p].of = i}
  BY DEF Images
<1>7. ASSUME NEW i, i # d PROVE Images(i)' = Images(i)
  BY <1>7, <1>2, <1>4, <1>5, <1>6 DEF Images
<1>8. Images(d)' = Images(d) \cup {Len(log) + 1}
  BY <1>2, <1>4, <1>5, <1>6 DEF Images
<1>9. QED  BY <1>2, <1>4, <1>7, <1>8 DEF E

-----------------------------------------------------------------------------
(* Every step keeps Order. *)

\* The newest tree that was published: those up to it have been, those after it not.
LEMMA RootFacts ==
    ASSUME OrderTypes, StagesInOrder
    PROVE  /\ Root \in Deltas /\ Root \in Nat
           /\ \A i \in Deltas : i <= Root <=> stage[i] # "none"
<1> DEFINE S == {i \in Deltas : stage[i] # "none"}
<1>1. S \in SUBSET (0..Len(Sizes)) /\ Len(Sizes) \in Nat
  BY DeltaFacts
<1>2. 1 \in S
  BY DeltaFacts DEF StagesInOrder
<1>3. Max(S) \in S /\ \A y \in S : y <= Max(S)
  BY <1>1, <1>2, MaxOfBounded
<1>4. Root = Max(S)
  BY DEF Root
<1>5. Root \in Deltas /\ Root \in Nat /\ stage[Root] # "none"
  BY <1>3, <1>4, DeltaFacts
<1>6. ASSUME NEW i \in Deltas PROVE i <= Root <=> stage[i] # "none"
  <2>1. i \in Nat
    BY DeltaFacts
  <2>2. stage[i] # "none" => i <= Root
    BY <1>3, <1>4
  <2>3. i < Root => stage[i] # "none"
    BY <1>5 DEF StagesInOrder
  <2>4. QED  BY <2>1, <2>2, <2>3, <1>5
<1>7. QED  BY <1>5, <1>6

\* The instance has just been opened: intentions, and the first after-image.
LEMMA InitOrder == Init => Order /\ Len(log) = First /\ log[2] = AfterImage(1, <<>>)
<1> SUFFICES ASSUME Init PROVE Order /\ Len(log) = First /\ log[2] = AfterImage(1, <<>>)
  OBVIOUS
<1> DEFINE E   == [type : {"intention", "afterimage"}, of : Deltas, ptr : Ptrs]
           one == <<Intention(1), AfterImage(1, <<>>)>>
           two == [k \in 1..(Len(Sizes) - 1) |-> Intention(k + 1)]
<1>1. Len(Sizes) \in Nat \ {0} /\ Deltas = 1..Len(Sizes) /\ 1 \in Deltas /\ <<>> \in Ptrs
  BY DeltaFacts, PtrFacts
<1>2. /\ \A i \in Deltas : /\ Intention(i) \in E /\ Intention(i).type = "intention"
                            /\ Intention(i).ptr = <<>>
      /\ AfterImage(1, <<>>) \in E /\ AfterImage(1, <<>>).type = "afterimage"
      /\ AfterImage(1, <<>>).of = 1
  BY <1>1 DEF Intention, AfterImage
<1>3. one \in Seq(E) /\ Len(one) = 2 /\ one[1] = Intention(1) /\ one[2] = AfterImage(1, <<>>)
  BY <1>1, <1>2
<1>4. \A k \in 1..(Len(Sizes) - 1) : k + 1 \in Deltas
  BY <1>1
<1>5. two \in Seq(E) /\ Len(two) = Len(Sizes) - 1
  <2>1. two \in [1..(Len(Sizes) - 1) -> E]
    BY <1>2, <1>4
  <2>2. Len(Sizes) - 1 \in Nat
    BY <1>1
  <2> HIDE DEF two, E
  <2>3. \A m \in Nat : \A f \in [1..m -> E] : f \in Seq(E) /\ Len(f) = m
    BY FunctionSeq
  <2>4. QED  BY <2>1, <2>2, <2>3
<1>6. \A k \in 1..(Len(Sizes) - 1) : two[k] = Intention(k + 1)
  OBVIOUS
<1>7. log = one \o two
  BY DEF Init
<1> HIDE DEF one, two, E
<1>8. /\ log \in Seq(E) /\ Len(log) = First
      /\ \A p \in DOMAIN log : log[p] = IF p <= 2 THEN one[p] ELSE two[p - 2]
  <2>1. /\ log \in Seq(E) /\ Len(log) = Len(one) + Len(two)
        /\ \A p \in 1..(Len(one) + Len(two)) : log[p] = IF p <= Len(one) THEN one[p] ELSE two[p - Len(one)]
    BY <1>3, <1>5, <1>7, ConcatProperties
  <2>2. Len(one) + Len(two) = First
    BY <1>1, <1>3, <1>5 DEF First
  <2>3. QED  BY <2>1, <2>2, <1>3
<1>9. DOMAIN log = 1..First /\ First \in Nat /\ First >= 2
  BY <1>1, <1>8 DEF First
<1>10. \A p \in DOMAIN log : p # 2 => log[p].type = "intention" /\ log[p].ptr = <<>>
  <2> SUFFICES ASSUME NEW p \in DOMAIN log, p # 2
               PROVE  log[p].type = "intention" /\ log[p].ptr = <<>>
    OBVIOUS
  <2>1. CASE p = 1
    BY <2>1, <1>1, <1>2, <1>3, <1>8
  <2>2. CASE p > 2
    <3>1. p - 2 \in 1..(Len(Sizes) - 1)
      BY <2>2, <1>9, <1>1 DEF First
    <3>2. log[p] = Intention(p - 2 + 1)
      BY <3>1, <2>2, <1>6, <1>8, <1>9
    <3>3. QED  BY <3>1, <3>2, <1>2, <1>4
  <2>3. QED  BY <2>1, <2>2, <1>9
<1>11. log[2] = AfterImage(1, <<>>) /\ 2 \in DOMAIN log
  BY <1>3, <1>8, <1>9
<1>12. Images(1) = {2} /\ \A i \in Deltas : i # 1 => Images(i) = {}
  BY <1>2, <1>10, <1>11 DEF Images
<1>13. /\ image = <<>> /\ matched = <<>> /\ fin.pc = "idle" /\ scanned = Len(log)
       /\ stage = [i \in Deltas |-> IF i = 1 THEN "final" ELSE "none"]
       /\ pushed = [i \in Deltas |-> 0]
       /\ fin = [pc |-> "idle", of |-> 0, pos |-> 0, idx |-> 0]
       /\ bound = [reads |-> 0, dups |-> 0, misses |-> 0, clears |-> 0]
  BY DEF Init
<1>14. OrderTypes
  BY <1>13, <1>8, <1>9, <1>1 DEF OrderTypes, E
<1>15. LogShape
  BY <1>2, <1>8, <1>9, <1>10, <1>11, <1>13 DEF LogShape
<1>16. PushedOK
  BY <1>12, <1>13, <1>1 DEF PushedOK, Missed
<1>17. ImagesInOrder
  BY <1>12, <1>13, <1>1 DEF ImagesInOrder
<1>18. StagesInOrder
  BY <1>13, <1>1 DEF StagesInOrder, Written
<1>19. QueueOK
  BY <1>13 DEF QueueOK
<1>20. FinalizedInOrder
  BY <1>13, <1>1 DEF FinalizedInOrder, Finalizing
<1>21. QED  BY <1>8, <1>11, <1>14, <1>15, <1>16, <1>17, <1>18, <1>19, <1>20 DEF Order

\* Steps of the threads that only read, of the vacuum and of Clear.
LEMMA OrderSame ==
    ASSUME Order, UNCHANGED <<log, stage, image, scanned, pushed, matched, fin>>,
           bound' \in [reads : Nat, dups : Nat, misses : Nat, clears : Nat],
           bound'.dups = bound.dups, bound'.misses = bound.misses
    PROVE  Order'
<1>1. \A i : Images(i)' = Images(i)
  BY DEF Images
<1>2. \A i : Missed(i)' <=> Missed(i)
  BY <1>1 DEF Missed
<1>3. \A i : Finalizing(i)' <=> Finalizing(i)
  BY DEF Finalizing
<1>4. OrderTypes' /\ LogShape'
  BY DEF Order, OrderTypes, LogShape
<1>5. PushedOK' /\ ImagesInOrder'
  BY <1>1, <1>2 DEF Order, PushedOK, ImagesInOrder
<1>6. StagesInOrder'
  BY <1>1 DEF Order, StagesInOrder
<1>7. QueueOK' /\ FinalizedInOrder'
  BY <1>2, <1>3 DEF Order, QueueOK, FinalizedInOrder
<1>8. QED  BY <1>4, <1>5, <1>6, <1>7 DEF Order

\* The processor publishes the tree that follows the newest one.
LEMMA PublishOrder ==
    ASSUME Order, Publish
    PROVE  Order'
<1> DEFINE n == Root + 1
<1>1. n \in Deltas /\ stage' = [stage EXCEPT ![n] = "queued"]
  BY DEF Publish
<1>2. UNCHANGED <<log, image, scanned, pushed, matched, fin, bound>>
  BY DEF Publish, controlVars
<1>3. Root \in Deltas /\ Root \in Nat /\ \A i \in Deltas : i <= Root <=> stage[i] # "none"
  BY RootFacts DEF Order
<1>4. stage[n] = "none"
  BY <1>1, <1>3
<1>5. /\ \A i \in Deltas : stage'[i] = IF i = n THEN "queued" ELSE stage[i]
      /\ stage' \in [Deltas -> {"none", "queued", "watched", "final"}]
  BY <1>1 DEF Order, OrderTypes
<1> HIDE DEF n
<1>6. \A i \in Deltas : /\ (stage'[i] = "final") <=> (stage[i] = "final")
                        /\ (stage'[i] = "watched") <=> (stage[i] = "watched")
                        /\ (stage'[i] \in Written) <=> (stage[i] \in Written)
  BY <1>4, <1>5 DEF Written
<1>7. (\A i : Images(i)' = Images(i)) /\ (\A i : Missed(i)' <=> Missed(i))
      /\ (\A i : Finalizing(i)' <=> Finalizing(i))
  BY <1>2 DEF Images, Missed, Finalizing
<1>8. OrderTypes'
  BY <1>2, <1>5 DEF Order, OrderTypes
<1>9. LogShape' /\ PushedOK' /\ ImagesInOrder'
  BY <1>2, <1>7 DEF Order, LogShape, PushedOK, ImagesInOrder
<1>10. StagesInOrder'
  <2>1. \A i, j \in Deltas : i < j /\ stage'[j] # "none" => stage'[i] # "none"
    <3> SUFFICES ASSUME NEW i \in Deltas, NEW j \in Deltas, i < j, stage'[j] # "none"
                 PROVE  stage'[i] # "none"
      OBVIOUS
    <3>1. i \in Nat /\ j \in Nat
      BY DeltaFacts
    <3>2. CASE j = n
      <4>1. i <= Root
        BY <3>1, <3>2, <1>3 DEF n
      <4>2. QED  BY <4>1, <1>3, <1>5
    <3>3. CASE j # n
      BY <3>3, <1>5 DEF Order, StagesInOrder
    <3>4. QED  BY <3>2, <3>3
  <2>2. QED  BY <2>1, <1>2, <1>6, <1>7, DeltaFacts DEF Order, StagesInOrder
<1>11. QueueOK'
  <2>1. \A k \in DOMAIN matched : matched[k] \in Deltas
    BY DEF Order, OrderTypes
  <2>2. QED  BY <2>1, <1>2, <1>6, <1>7 DEF Order, QueueOK
<1>12. FinalizedInOrder'
  BY <1>2, <1>6, <1>7 DEF Order, FinalizedInOrder
<1>13. QED  BY <1>8, <1>9, <1>10, <1>11, <1>12 DEF Order

\* The after-image that the instance was opened with is the only one of its delta.
LEMMA FirstImage ==
    ASSUME OrderTypes, LogShape
    PROVE  Images(1) = {2}
<1>1. Len(log) \in Nat /\ DOMAIN log = 1..Len(log)
  BY ImagesFacts
<1>2. 2 \in DOMAIN log
  BY <1>1, DeltaFacts DEF OrderTypes, LogShape, First
<1>3. log[2].type = "afterimage" /\ log[2].of = 1
  BY <1>2 DEF LogShape
<1>4. QED  BY <1>2, <1>3 DEF Images, LogShape

\* The index has the position of an after-image of the intention that is asked for.
LEMMA MappedFacts ==
    ASSUME MemoryTypes, ImapOK, NEW i, Mapped(i)
    PROVE  MappedTo(i) \in Nat /\ Good(MappedTo(i), i)
<1>1. PICK k \in DOMAIN imap : k = CHOOSE j \in DOMAIN imap : imap[j].of = i
  BY DEF Mapped
<1>2. imap[k].of = i /\ MappedTo(i) = imap[k].pos
  BY <1>1 DEF Mapped, MappedTo
<1>3. imap \in Seq([of : Deltas, pos : Nat])
  BY DEF MemoryTypes
<1>4. imap[k] \in [of : Deltas, pos : Nat]
  BY <1>3, ElementOfSeq, LenProperties, Zenon
<1>5. imap[k].pos \in Nat
  BY <1>4
<1>6. QED  BY <1>2, <1>5 DEF ImapOK

\* The writer's after-image has an address for each node of another delta.
LEMMA SerializedImage ==
    ASSUME Order, Memory, NEW i \in Deltas, SerializeTree(i)
    PROVE  /\ image' \in [of : Deltas, ptr : Ptrs]
           /\ image'.of = i
           /\ DOMAIN image'.ptr = Remote(i)
           /\ \A c \in Remote(i) : Leads(image'.ptr[c], c)
<1> DEFINE Addr(c)  == heap[CHOOSE o \in DOMAIN heap : o[1][1] = i /\ o[2] = 0 /\ c \in DOMAIN heap[o]][c].addr
           Entry(c) == IF Addr(c)[1] = "i" /\ Mapped(Addr(c)[2])
                       THEN <<"a", MappedTo(Addr(c)[2])>> ELSE Addr(c)
<1>1. stage[i] = "queued" /\ image' = [of |-> i, ptr |-> [c \in Remote(i) |-> Entry(c)]]
  BY DEF SerializeTree
<1>2. ASSUME NEW c \in Remote(i)
      PROVE  Addr(c) \in Addrs /\ Leads(Addr(c), c)
  <2>1. PICK k \in 0..(Sizes[i] - 1) : c \in Kids[<<i, k>>]
    BY DEF Remote
  <2>2. <<i, k>> \in Nodes
    BY NodeFacts
  <2>3. <<<<i, k>>, 0>> \in DOMAIN heap
    BY <1>1, <2>2 DEF Memory, ObjectsOK, InTree
  <2>4. heap[<<<<i, k>>, 0>>] \in [Kids[<<i, k>>] -> Pointers]
    BY <2>3 DEF Memory, PointersOK, GoodPointers
  <2>5. \E o \in DOMAIN heap : o[1][1] = i /\ o[2] = 0 /\ c \in DOMAIN heap[o]
    BY <2>1, <2>3, <2>4
  <2>6. PICK o \in DOMAIN heap : c \in DOMAIN heap[o] /\ Addr(c) = heap[o][c].addr
    BY <2>5
  <2>7. heap[o] \in [Kids[o[1]] -> Pointers]
    BY DEF Memory, PointersOK, GoodPointers
  <2>8. heap[o][c] \in Pointers /\ c \in Kids[o[1]]
    BY <2>6, <2>7
  <2>9. Leads(heap[o][c].addr, c)
    BY <2>8 DEF Memory, PointersOK, GoodPointers
  <2>10. QED  BY <2>6, <2>8, <2>9 DEF Pointers
<1>3. ASSUME NEW c \in Remote(i)
      PROVE  Entry(c) \in Addrs /\ Leads(Entry(c), c)
  <2>1. Addr(c) \in Addrs /\ Leads(Addr(c), c)
    BY <1>2
  <2> HIDE DEF Addr
  <2>2. CASE Addr(c)[1] = "i" /\ Mapped(Addr(c)[2])
    <3>1. Addr(c)[2] = c[1]
      BY <2>1, <2>2 DEF Leads
    <3>2. MappedTo(c[1]) \in Nat /\ Good(MappedTo(c[1]), c[1])
      BY <3>1, <2>2, MappedFacts DEF Memory
    <3>3. Entry(c) = <<"a", MappedTo(c[1])>>
      BY <3>1, <2>2
    <3>4. QED  BY <3>2, <3>3 DEF Addrs, Leads
  <2>3. CASE ~(Addr(c)[1] = "i" /\ Mapped(Addr(c)[2]))
    BY <2>1, <2>3
  <2>4. QED  BY <2>2, <2>3
<1> HIDE DEF Entry
<1>4. image'.of = i /\ image'.ptr = [c \in Remote(i) |-> Entry(c)]
  BY <1>1
<1>5. image'.ptr \in [Remote(i) -> Addrs]
  BY <1>3, <1>4
<1>6. image'.ptr \in Ptrs
  BY <1>5, PtrFacts
<1>7. QED  BY <1>1, <1>3, <1>4, <1>5, <1>6

\* The writer takes the oldest tree of the queue.
LEMMA SerializeOrder ==
    ASSUME Order, Memory, Serialize
    PROVE  Order'
<1>1. PICK n \in Deltas : SerializeTree(n) /\ \A j \in Deltas : stage[j] = "queued" => n <= j
  BY DEF Serialize
<1>2. /\ stage[n] = "queued" /\ image = <<>>
      /\ stage' = [stage EXCEPT ![n] = "watched"]
      /\ matched' = IF pushed[n] = 0 THEN matched ELSE Append(matched, n)
      /\ UNCHANGED <<log, scanned, pushed, fin, bound>>
  BY <1>1 DEF SerializeTree, controlVars
<1>3. image' \in [of : Deltas, ptr : Ptrs] /\ image'.of = n
  BY <1>1, SerializedImage
<1>4. /\ stage \in [Deltas -> {"none", "queued", "watched", "final"}]
      /\ \A i \in Deltas : stage'[i] = IF i = n THEN "watched" ELSE stage[i]
      /\ stage' \in [Deltas -> {"none", "queued", "watched", "final"}]
      /\ matched \in Seq(Deltas)
  BY <1>2 DEF Order, OrderTypes
<1>5. /\ matched' \in Seq(Deltas)
      /\ DOMAIN matched \subseteq DOMAIN matched'
      /\ \A k \in DOMAIN matched : k \in Nat /\ matched'[k] = matched[k]
      /\ pushed[n] = 0 => matched' = matched
      /\ pushed[n] # 0 => \E m \in DOMAIN matched' : /\ matched'[m] = n
                                                      /\ DOMAIN matched' = DOMAIN matched \cup {m}
                                                      /\ \A k \in DOMAIN matched : k < m
  <2>1. CASE pushed[n] = 0
    BY <2>1, <1>2, <1>4
  <2>2. CASE pushed[n] # 0
    <3>1. matched' = Append(matched, n)
      BY <2>2, <1>2
    <3>2. /\ matched' \in Seq(Deltas) /\ DOMAIN matched = 1..Len(matched)
          /\ DOMAIN matched' = 1..(Len(matched) + 1)
          /\ \A k \in DOMAIN matched : matched'[k] = matched[k]
          /\ matched'[Len(matched) + 1] = n
      BY <3>1, <1>4, AppendFacts
    <3>3. Len(matched) \in Nat
      BY <1>4
    <3>4. Len(matched) + 1 \in DOMAIN matched' /\ DOMAIN matched' = DOMAIN matched \cup {Len(matched) + 1}
          /\ \A k \in DOMAIN matched : k \in Nat /\ k < Len(matched) + 1
      BY <3>2, <3>3
    <3>5. QED  BY <2>2, <3>2, <3>4
  <2>3. QED  BY <2>1, <2>2
<1>6. (\A i : Images(i)' = Images(i)) /\ (\A i : Missed(i)' <=> Missed(i))
      /\ (\A i : Finalizing(i)' <=> Finalizing(i))
  BY <1>2 DEF Images, Missed, Finalizing
<1>7. \A i \in Deltas : i < n => stage[i] \in Written
  <2> SUFFICES ASSUME NEW i \in Deltas, i < n PROVE stage[i] \in Written
    OBVIOUS
  <2>1. i \in Nat /\ n \in Nat
    BY DeltaFacts
  <2>2. stage[i] # "none"
    BY <1>2 DEF Order, StagesInOrder
  <2>3. stage[i] # "queued"
    BY <1>1, <2>1
  <2>4. QED  BY <2>2, <2>3, <1>4 DEF Written
<1>8. n # 1
  BY <1>2 DEF Order, StagesInOrder
<1>9. OrderTypes'
  BY <1>2, <1>3, <1>4, <1>5 DEF Order, OrderTypes
<1>10. LogShape' /\ PushedOK'
  BY <1>2, <1>6 DEF Order, LogShape, PushedOK
<1>11. ImagesInOrder'
  <2>1. \A j \in Deltas : j < n => Images(j) # {}
    <3> SUFFICES ASSUME NEW j \in Deltas, j < n PROVE Images(j) # {}
      OBVIOUS
    <3>1. CASE j = 1
      BY <3>1, FirstImage DEF Order
    <3>2. CASE j # 1
      BY <3>2, <1>2, <1>7 DEF Order, StagesInOrder
    <3>3. QED  BY <3>1, <3>2
  <2>2. QED  BY <2>1, <1>2, <1>3, <1>6, <1>8 DEF Order, ImagesInOrder
<1>12. StagesInOrder'
  <2>1. stage'[1] = "final"
    BY <1>4, <1>8, DeltaFacts DEF Order, StagesInOrder
  <2>2. \A i \in Deltas : stage'[i] # "none" <=> stage[i] # "none"
    BY <1>2, <1>4
  <2>3. \A i, j \in Deltas : i < j /\ stage'[j] \in Written => stage'[i] \in Written
    BY <1>4, <1>7 DEF Order, StagesInOrder, Written
  <2>4. \A i \in Deltas : i # 1 /\ stage'[i] = "final" => pushed[i] # 0
    BY <1>4 DEF Order, StagesInOrder
  <2>5. \A i \in Deltas : i # 1 /\ stage'[i] \in Written => Images(i) # {} \/ (image' # <<>> /\ image'.of = i)
    <3>1. image' # <<>>
      <4>1. DOMAIN image' = {"of", "ptr"}
        BY <1>3
      <4>2. QED  BY <4>1
    <3>2. QED  BY <3>1, <1>2, <1>3, <1>4 DEF Order, StagesInOrder, Written
  <2>6. QED  BY <2>1, <2>2, <2>3, <2>4, <2>5, <1>2, <1>6 DEF Order, StagesInOrder
<1>13. QueueOK'
  <2>1. \A k \in DOMAIN matched : matched[k] # n /\ matched[k] \in Deltas
    BY <1>2, <1>4 DEF Order, QueueOK
  <2>2. fin.pc # "idle" => fin.of # n
    BY <1>2 DEF Order, QueueOK
  <2>3. \A k \in DOMAIN matched' : stage'[matched'[k]] = "watched" /\ pushed'[matched'[k]] # 0
    BY <2>1, <1>2, <1>4, <1>5 DEF Order, QueueOK
  <2>4. \A k, l \in DOMAIN matched' : k # l => matched'[k] # matched'[l]
    <3> SUFFICES ASSUME NEW k \in DOMAIN matched', NEW l \in DOMAIN matched', k # l
                 PROVE  matched'[k] # matched'[l]
      OBVIOUS
    <3>1. CASE k \in DOMAIN matched /\ l \in DOMAIN matched
      BY <3>1, <1>5 DEF Order, QueueOK
    <3>2. CASE k \notin DOMAIN matched \/ l \notin DOMAIN matched
      <4>1. PICK m \in DOMAIN matched' :
               matched'[m] = n /\ DOMAIN matched' = DOMAIN matched \cup {m}
        BY <3>2, <1>5
      <4>2. (k = m /\ l \in DOMAIN matched) \/ (l = m /\ k \in DOMAIN matched)
        BY <3>2, <4>1
      <4>3. QED  BY <4>1, <4>2, <2>1, <1>5
    <3>3. QED  BY <3>1, <3>2
  <2>5. fin'.pc # "idle" =>
          /\ fin'.of \in Deltas /\ stage'[fin'.of] = "watched"
          /\ fin'.pos = pushed'[fin'.of] /\ fin'.pos # 0
          /\ fin'.idx < Sizes[fin'.of]
          /\ \A k \in DOMAIN matched' : matched'[k] # fin'.of
    BY <2>2, <1>2, <1>4, <1>5 DEF Order, QueueOK
  <2>6. \A i \in Deltas : stage'[i] = "watched" /\ pushed'[i] # 0 =>
          Finalizing(i)' \/ \E k \in DOMAIN matched' : matched'[k] = i
    <3> SUFFICES ASSUME NEW i \in Deltas, stage'[i] = "watched", pushed'[i] # 0
                 PROVE  Finalizing(i)' \/ \E k \in DOMAIN matched' : matched'[k] = i
      OBVIOUS
    <3>1. CASE i = n
      BY <3>1, <1>2, <1>5
    <3>2. CASE i # n
      <4>1. Finalizing(i) \/ \E k \in DOMAIN matched : matched[k] = i
        BY <3>2, <1>2, <1>4 DEF Order, QueueOK
      <4>2. QED  BY <4>1, <1>5, <1>6
    <3>3. QED  BY <3>1, <3>2
  <2>7. QED  BY <2>3, <2>4, <2>5, <2>6 DEF QueueOK
<1>14. FinalizedInOrder'
  <2> SUFFICES ASSUME NEW i \in Deltas, NEW j \in Deltas, 1 < i, i < j, ~Missed(i)
               PROVE  /\ stage'[j] = "final" \/ Finalizing(j) => stage'[i] = "final"
                      /\ \A k \in DOMAIN matched' : matched'[k] = j =>
                            \/ stage'[i] = "final" \/ Finalizing(i)
                            \/ \E l \in DOMAIN matched' : l < k /\ matched'[l] = i
    BY <1>6 DEF FinalizedInOrder
  <2>1. /\ stage[j] = "final" \/ Finalizing(j) => stage[i] = "final"
        /\ \A k \in DOMAIN matched : matched[k] = j =>
              \/ stage[i] = "final" \/ Finalizing(i)
              \/ \E l \in DOMAIN matched : l < k /\ matched[l] = i
    BY DEF Order, FinalizedInOrder
  <2>2. stage'[j] = "final" \/ Finalizing(j) => stage'[i] = "final"
    BY <2>1, <1>2, <1>4
  <2>3. ASSUME NEW k \in DOMAIN matched, matched'[k] = j
        PROVE  \/ stage'[i] = "final" \/ Finalizing(i)
               \/ \E l \in DOMAIN matched' : l < k /\ matched'[l] = i
    <3>1. \/ stage[i] = "final" \/ Finalizing(i)
          \/ \E l \in DOMAIN matched : l < k /\ matched[l] = i
      BY <2>1, <2>3, <1>5
    <3>2. stage[i] = "final" => stage'[i] = "final"
      BY <1>2, <1>4
    <3>3. QED  BY <3>1, <3>2, <1>5
  <2>4. ASSUME NEW k \in DOMAIN matched', k \notin DOMAIN matched, matched'[k] = j
        PROVE  \/ stage'[i] = "final" \/ Finalizing(i)
               \/ \E l \in DOMAIN matched' : l < k /\ matched'[l] = i
    <3>1. pushed[n] # 0 /\ j = n /\ \A l \in DOMAIN matched : l < k
      BY <2>4, <1>5
    <3>2. stage[i] \in Written
      BY <3>1, <1>7
    <3>3. pushed[n] \in Images(n) /\ pushed[n] <= scanned
      BY <3>1 DEF Order, PushedOK
    <3>4. PICK q \in Images(i) : q < pushed[n]
      BY <3>1, <3>3 DEF Order, ImagesInOrder
    <3>5. q \in Nat /\ pushed[n] \in Nat /\ scanned \in Nat
      BY ImagesFacts, <3>3 DEF Order, OrderTypes
    <3>6. pushed[i] # 0
      BY <3>3, <3>4, <3>5 DEF Missed
    <3>7. CASE stage[i] = "final"
      BY <3>7, <1>2, <1>4
    <3>8. CASE stage[i] = "watched"
      <4>1. Finalizing(i) \/ \E l \in DOMAIN matched : matched[l] = i
        BY <3>6, <3>8 DEF Order, QueueOK
      <4>2. QED  BY <4>1, <3>1, <1>5
    <3>9. QED  BY <3>2, <3>7, <3>8 DEF Written
  <2>5. QED  BY <2>2, <2>3, <2>4
<1>15. QED  BY <1>9, <1>10, <1>11, <1>12, <1>13, <1>14 DEF Order

\* An after-image at the end of the log, of a delta whose predecessors have theirs,
\* leaves the order as it is.
LEMMA GrowOrder ==
    ASSUME Order, NEW d \in Deltas, d # 1, NEW ptr \in Ptrs,
           log' = Append(log, AfterImage(d, ptr)),
           \A j \in Deltas : j < d => Images(j) # {},
           UNCHANGED <<stage, scanned, pushed, matched, fin>>,
           bound'.misses = bound.misses
    PROVE  /\ log' \in Seq([type : {"intention", "afterimage"}, of : Deltas, ptr : Ptrs])
           /\ LogShape' /\ PushedOK' /\ QueueOK' /\ FinalizedInOrder'
           /\ \A i, j \in Deltas : i < j => \A p \in Images(j)' : \E q \in Images(i)' : q < p
           /\ \A i \in Deltas : Images(i) # {} => Images(i)' # {}
           /\ Images(d)' # {}
<1> DEFINE new == Len(log) + 1
<1>1. /\ log' \in Seq([type : {"intention", "afterimage"}, of : Deltas, ptr : Ptrs])
      /\ Len(log') = new
      /\ DOMAIN log' = DOMAIN log \cup {new}
      /\ \A p \in DOMAIN log : log'[p] = log[p]
      /\ log'[new] = AfterImage(d, ptr)
      /\ \A i : i # d => Images(i)' = Images(i)
      /\ Images(d)' = Images(d) \cup {new}
  BY AppendImageFacts DEF Order
<1>2. Len(log) \in Nat /\ scanned \in Nat /\ pushed \in [Deltas -> Nat]
      /\ DOMAIN log = 1..Len(log) /\ First <= scanned /\ scanned <= Len(log)
  BY ImagesFacts DEF Order, OrderTypes, LogShape
<1>3. new \in Nat /\ new > Len(log) /\ new > scanned /\ new > First /\ new # 2
  BY <1>2, DeltaFacts DEF First
<1> HIDE DEF new
<1>4. AfterImage(d, ptr).type = "afterimage" /\ AfterImage(d, ptr).of = d
  BY DEF AfterImage
<1>5. \A i : Images(i) \subseteq Images(i)' /\ \A p \in Images(i)' : p \in Images(i) \/ (p = new /\ i = d)
  BY <1>1
<1>6. \A i : \A p \in Images(i) : p \in Nat /\ p <= Len(log)
  BY ImagesFacts DEF Order
<1>7. \A i : Missed(i)' <=> Missed(i)
  BY <1>2, <1>3, <1>5 DEF Missed
<1>8. \A i : Finalizing(i)' <=> Finalizing(i)
  BY DEF Finalizing
<1>9. LogShape'
  <2>1. \A p \in DOMAIN log' :
          /\ log'[p].type = "afterimage" <=> p = 2 \/ p > First
          /\ log'[p].type = "afterimage" => (log'[p].of = 1 <=> p = 2)
          /\ log'[p].type = "intention" => log'[p].ptr = <<>>
    BY <1>1, <1>3, <1>4 DEF Order, LogShape
  <2>2. First <= scanned' /\ scanned' <= Len(log')
    BY <1>1, <1>2, <1>3
  <2>3. QED  BY <2>1, <2>2 DEF LogShape
<1>10. PushedOK'
  <2>1. \A i \in Deltas : pushed'[i] # 0 => pushed'[i] \in Images(i)' /\ pushed'[i] <= scanned'
    BY <1>5 DEF Order, PushedOK
  <2>2. QED  BY <2>1, <1>7 DEF Order, PushedOK
<1>11. QueueOK' /\ FinalizedInOrder'
  BY <1>7, <1>8 DEF Order, QueueOK, FinalizedInOrder
<1>12. ASSUME NEW i \in Deltas, NEW j \in Deltas, i < j, NEW p \in Images(j)'
       PROVE  \E q \in Images(i)' : q < p
  <2>1. CASE p \in Images(j)
    <3>1. \E q \in Images(i) : q < p
      BY <2>1, <1>12 DEF Order, ImagesInOrder
    <3>2. QED  BY <3>1, <1>5
  <2>2. CASE p = new /\ j = d
    <3>1. PICK q \in Images(i) : TRUE
      BY <2>2, <1>12
    <3>2. q < p
      BY <2>2, <3>1, <1>2, <1>3, <1>6
    <3>3. QED  BY <3>1, <3>2, <1>5
  <2>3. QED  BY <2>1, <2>2, <1>5
<1>13. QED  BY <1>1, <1>5, <1>9, <1>10, <1>11, <1>12

\* The writer appends its after-image.
LEMMA AppendImageOrder ==
    ASSUME Order, AppendImage
    PROVE  Order'
<1>1. /\ image # <<>> /\ log' = Append(log, AfterImage(image.of, image.ptr)) /\ image' = <<>>
      /\ UNCHANGED <<stage, scanned, pushed, matched, fin, bound>>
  BY DEF AppendImage, controlVars
<1>2. image \in [of : Deltas, ptr : Ptrs]
  BY <1>1 DEF Order, OrderTypes
<1>3. PICK d \in Deltas, ptr \in Ptrs : d = image.of /\ ptr = image.ptr
  BY <1>2
<1>4. d # 1 /\ \A j \in Deltas : j < d => Images(j) # {}
  BY <1>1, <1>3 DEF Order, ImagesInOrder
<1>5. /\ log' \in Seq([type : {"intention", "afterimage"}, of : Deltas, ptr : Ptrs])
      /\ LogShape' /\ PushedOK' /\ QueueOK' /\ FinalizedInOrder'
      /\ \A i, j \in Deltas : i < j => \A p \in Images(j)' : \E q \in Images(i)' : q < p
      /\ \A i \in Deltas : Images(i) # {} => Images(i)' # {}
      /\ Images(d)' # {}
  <2>1. bound'.misses = bound.misses /\ log' = Append(log, AfterImage(d, ptr))
    BY <1>1, <1>3
  <2>2. QED  BY <2>1, <1>1, <1>4, GrowOrder
<1>6. OrderTypes'
  BY <1>1, <1>5 DEF Order, OrderTypes
<1>7. ImagesInOrder'
  BY <1>1, <1>5 DEF Order, ImagesInOrder
<1>8. StagesInOrder'
  <2>1. \A i \in Deltas : i # 1 /\ stage'[i] \in Written => Images(i)' # {}
    <3>1. \A i \in Deltas : i # 1 /\ stage[i] \in Written => Images(i) # {} \/ i = d
      BY <1>3 DEF Order, StagesInOrder
    <3>2. QED  BY <3>1, <1>1, <1>5
  <2>2. QED  BY <2>1, <1>1 DEF Order, StagesInOrder
<1>9. QED  BY <1>5, <1>6, <1>7, <1>8 DEF Order

\* The pointers of the after-images of the other instance.
LEMMA OtherPtr ==
    ASSUME NEW d \in Deltas
    PROVE  [c \in Remote(d) |-> IF c[1] = 1 THEN <<"a", 2>> ELSE <<"i", c[1]>>] \in Ptrs
<1> DEFINE ptr == [c \in Remote(d) |-> IF c[1] = 1 THEN <<"a", 2>> ELSE <<"i", c[1]>>]
<1>1. \A c \in Remote(d) : c[1] \in Nat
  BY RemoteFacts, DeltaFacts
<1>2. ptr \in [Remote(d) -> Addrs]
  BY <1>1 DEF Addrs
<1> HIDE DEF ptr
<1>3. ptr \in Ptrs
  BY <1>2, PtrFacts
<1>4. QED  BY <1>3 DEF ptr

\* Another instance appends the next one of its own.
LEMMA OtherImageOrder ==
    ASSUME Order, OtherImage
    PROVE  Order'
<1>1. PICK d \in Deltas :
         /\ d = bound.dups + 2
         /\ log' = Append(log, AfterImage(d,
                      [c \in Remote(d) |-> IF c[1] = 1 THEN <<"a", 2>> ELSE <<"i", c[1]>>]))
         /\ bound' = [bound EXCEPT !.dups = @ + 1]
         /\ UNCHANGED <<stage, image, scanned, pushed, matched, fin>>
  BY DEF OtherImage
<1>2. PICK ptr \in Ptrs : log' = Append(log, AfterImage(d, ptr))
  BY <1>1, OtherPtr
<1>3. bound \in [reads : Nat, dups : Nat, misses : Nat, clears : Nat]
  BY DEF Order, OrderTypes
<1>4. /\ bound' \in [reads : Nat, dups : Nat, misses : Nat, clears : Nat]
      /\ bound'.misses = bound.misses /\ bound'.dups = bound.dups + 1
      /\ bound.dups \in Nat
  BY <1>1, <1>3
<1>5. d # 1 /\ d \in Nat
  BY <1>1, <1>4
<1>6. \A j \in Deltas : j < d => Images(j) # {}
  <2> SUFFICES ASSUME NEW j \in Deltas, j < d PROVE Images(j) # {}
    OBVIOUS
  <2>1. CASE j = 1
    BY <2>1, FirstImage DEF Order
  <2>2. CASE j # 1
    <3>1. 1 < j /\ j <= bound.dups + 1
      BY <2>2, <1>1, <1>4, DeltaFacts
    <3>2. QED  BY <3>1 DEF Order, ImagesInOrder
  <2>3. QED  BY <2>1, <2>2
<1>7. /\ log' \in Seq([type : {"intention", "afterimage"}, of : Deltas, ptr : Ptrs])
      /\ LogShape' /\ PushedOK' /\ QueueOK' /\ FinalizedInOrder'
      /\ \A i, j \in Deltas : i < j => \A p \in Images(j)' : \E q \in Images(i)' : q < p
      /\ \A i \in Deltas : Images(i) # {} => Images(i)' # {}
      /\ Images(d)' # {}
  <2>1. UNCHANGED <<stage, scanned, pushed, matched, fin>>
    BY <1>1
  <2>2. QED  BY <2>1, <1>2, <1>4, <1>5, <1>6, GrowOrder
<1>8. OrderTypes'
  BY <1>1, <1>4, <1>7 DEF Order, OrderTypes
<1>9. ImagesInOrder'
  <2>1. \A i \in Deltas : 1 < i /\ i <= bound'.dups + 1 => Images(i)' # {}
    <3> SUFFICES ASSUME NEW i \in Deltas, 1 < i, i <= bound'.dups + 1 PROVE Images(i)' # {}
      OBVIOUS
    <3>1. i = d \/ i <= bound.dups + 1
      BY <1>1, <1>4, DeltaFacts
    <3>2. CASE i = d
      BY <3>2, <1>7
    <3>3. CASE i <= bound.dups + 1
      <4>1. Images(i) # {}
        BY <3>3 DEF Order, ImagesInOrder
      <4>2. QED  BY <4>1, <1>7
    <3>4. QED  BY <3>1, <3>2, <3>3
  <2>2. QED  BY <2>1, <1>1, <1>7 DEF Order, ImagesInOrder
<1>10. StagesInOrder'
  BY <1>1, <1>7 DEF Order, StagesInOrder
<1>11. QED  BY <1>7, <1>8, <1>9, <1>10 DEF Order

\* The entry that the scanner comes to is an after-image of a delta that was
\* published after the instance was opened.
LEMMA NextEntry ==
    ASSUME Order, scanned < Len(log)
    PROVE  /\ scanned + 1 \in DOMAIN log
           /\ log[scanned + 1].of \in Deltas \ {1}
           /\ \A i : scanned + 1 \in Images(i) <=> i = log[scanned + 1].of
<1>1. Len(log) \in Nat /\ DOMAIN log = 1..Len(log) /\ scanned \in Nat /\ First <= scanned
  BY ImagesFacts DEF Order, OrderTypes, LogShape
<1>2. scanned + 1 \in DOMAIN log /\ scanned + 1 > First /\ scanned + 1 # 2
  BY <1>1, DeltaFacts DEF First
<1>3. log[scanned + 1].type = "afterimage" /\ log[scanned + 1].of # 1
  BY <1>2 DEF Order, LogShape
<1>4. log \in Seq([type : {"intention", "afterimage"}, of : Deltas, ptr : Ptrs])
  BY DEF Order, OrderTypes
<1>5. log[scanned + 1] \in [type : {"intention", "afterimage"}, of : Deltas, ptr : Ptrs]
  BY <1>2, <1>4, ElementOfSeq, LenProperties, Zenon
<1>6. QED  BY <1>2, <1>3, <1>5 DEF Images

\* The scanner gives an after-image to the matcher.
LEMMA ScanOrder ==
    ASSUME Order, Scan
    PROVE  Order'
<1>1. /\ scanned < Len(log) /\ scanned' = scanned + 1
      /\ UNCHANGED <<log, stage, image, fin, bound>>
  BY DEF Scan, controlVars
<1>2. scanned + 1 \in DOMAIN log /\ \E d \in Deltas \ {1} : d = log[scanned + 1].of
      /\ \A i : scanned + 1 \in Images(i) <=> i = d
  BY <1>1, NextEntry
<1>3. PICK d \in Deltas \ {1} : d = log[scanned + 1].of /\ \A i : scanned + 1 \in Images(i) <=> i = d
  BY <1>2
<1>4. \/ pushed[d] # 0 /\ UNCHANGED <<pushed, matched>>
      \/ /\ pushed[d] = 0 /\ pushed' = [pushed EXCEPT ![d] = scanned + 1]
         /\ matched' = IF stage[d] = "watched" THEN Append(matched, d) ELSE matched
  BY <1>3 DEF Scan
<1>5. /\ scanned \in Nat /\ Len(log) \in Nat /\ pushed \in [Deltas -> Nat] /\ matched \in Seq(Deltas)
      /\ stage \in [Deltas -> {"none", "queued", "watched", "final"}]
      /\ First <= scanned /\ First \in Nat /\ scanned <= Len(log)
  BY ImagesFacts, DeltaFacts DEF Order, OrderTypes, LogShape
<1>6. /\ pushed' \in [Deltas -> Nat]
      /\ \A i \in Deltas : i # d => pushed'[i] = pushed[i]
      /\ pushed'[d] = IF pushed[d] = 0 THEN scanned + 1 ELSE pushed[d]
  BY <1>4, <1>5
<1>7. /\ matched' \in Seq(Deltas)
      /\ DOMAIN matched \subseteq DOMAIN matched'
      /\ \A k \in DOMAIN matched : k \in Nat /\ matched'[k] = matched[k]
      /\ ~(pushed[d] = 0 /\ stage[d] = "watched") => matched' = matched
      /\ pushed[d] = 0 /\ stage[d] = "watched" =>
            \E m \in DOMAIN matched' : /\ matched'[m] = d
                                       /\ DOMAIN matched' = DOMAIN matched \cup {m}
                                       /\ \A k \in DOMAIN matched : k < m
  <2>1. CASE ~(pushed[d] = 0 /\ stage[d] = "watched")
    <3>1. matched' = matched
      BY <2>1, <1>4
    <3>2. QED  BY <2>1, <3>1, <1>5
  <2>2. CASE pushed[d] = 0 /\ stage[d] = "watched"
    <3>1. matched' = Append(matched, d)
      BY <2>2, <1>4
    <3>2. /\ matched' \in Seq(Deltas) /\ DOMAIN matched = 1..Len(matched)
          /\ DOMAIN matched' = 1..(Len(matched) + 1)
          /\ \A k \in DOMAIN matched : matched'[k] = matched[k]
          /\ matched'[Len(matched) + 1] = d
      BY <3>1, <1>5, AppendFacts
    <3>3. Len(matched) \in Nat
      BY <1>5
    <3>4. Len(matched) + 1 \in DOMAIN matched' /\ DOMAIN matched' = DOMAIN matched \cup {Len(matched) + 1}
          /\ \A k \in DOMAIN matched : k \in Nat /\ k < Len(matched) + 1
      BY <3>2, <3>3
    <3>5. QED  BY <2>2, <3>2, <3>4
  <2>3. QED  BY <2>1, <2>2
<1>8. (\A i : Images(i)' = Images(i)) /\ (\A i : Finalizing(i)' <=> Finalizing(i))
  BY <1>1 DEF Images, Finalizing
<1>9. \A i : \A p \in Images(i) : p \in Nat
  BY ImagesFacts DEF Order
<1>10. \A i \in Deltas : Missed(i) => Missed(i)'
  <2> SUFFICES ASSUME NEW i \in Deltas, Missed(i) PROVE Missed(i)'
    OBVIOUS
  <2>1. PICK p \in Images(i) : p <= scanned /\ (pushed[i] = 0 \/ p < pushed[i])
    BY DEF Missed
  <2>2. p \in Nat /\ p <= scanned'
    BY <2>1, <1>1, <1>5, <1>9
  <2>3. pushed'[i] = 0 \/ p < pushed'[i]
    BY <2>1, <2>2, <1>5, <1>6
  <2>4. QED  BY <2>2, <2>3, <1>8 DEF Missed
<1>11. \A i \in Deltas : Missed(i)' => Missed(i)
  <2> SUFFICES ASSUME NEW i \in Deltas, Missed(i)' PROVE Missed(i)
    OBVIOUS
  <2>1. PICK p \in Images(i) : p <= scanned' /\ (pushed'[i] = 0 \/ p < pushed'[i])
    BY <1>8 DEF Missed
  <2>2. p \in Nat /\ p <= scanned + 1
    BY <2>1, <1>1, <1>9
  <2>3. p # scanned + 1
    <3> SUFFICES ASSUME p = scanned + 1 PROVE FALSE
      OBVIOUS
    <3>1. i = d
      BY <1>3, <2>1
    <3>2. pushed'[d] # 0 /\ pushed'[d] <= scanned + 1
      BY <1>5, <1>6 DEF Order, PushedOK
    <3>3. pushed'[d] \in Nat
      BY <1>6
    <3>4. QED  BY <3>1, <3>2, <3>3, <2>1, <1>5
  <2>4. p <= scanned
    BY <2>2, <2>3, <1>5
  <2>5. pushed[i] = 0 \/ p < pushed[i]
    BY <2>1, <1>6
  <2>6. QED  BY <2>1, <2>4, <2>5 DEF Missed
<1>12. OrderTypes'
  BY <1>1, <1>5, <1>6, <1>7 DEF Order, OrderTypes
<1>13. LogShape'
  BY <1>1, <1>5 DEF Order, LogShape
<1>14. PushedOK'
  <2>1. pushed'[1] = 0
    BY <1>6, DeltaFacts DEF Order, PushedOK
  <2>2. \A i \in Deltas : pushed'[i] # 0 => pushed'[i] \in Images(i) /\ pushed'[i] <= scanned'
    <3> SUFFICES ASSUME NEW i \in Deltas, pushed'[i] # 0
                 PROVE  pushed'[i] \in Images(i) /\ pushed'[i] <= scanned'
      OBVIOUS
    <3>1. CASE pushed'[i] = pushed[i]
      <4>1. pushed[i] \in Images(i) /\ pushed[i] <= scanned /\ pushed[i] \in Nat
        BY <3>1, <1>5 DEF Order, PushedOK
      <4>2. QED  BY <3>1, <4>1, <1>1, <1>5
    <3>2. CASE i = d /\ pushed'[i] = scanned + 1
      BY <3>2, <1>1, <1>3, <1>5
    <3>3. QED  BY <3>1, <3>2, <1>6
  <2>3. QED  BY <2>1, <2>2, <1>1, <1>8, <1>11 DEF Order, PushedOK
<1>15. ImagesInOrder'
  BY <1>1, <1>8 DEF Order, ImagesInOrder
<1>16. StagesInOrder'
  <2>1. \A i \in Deltas : pushed[i] # 0 => pushed'[i] # 0
    BY <1>6
  <2>2. QED  BY <2>1, <1>1, <1>8 DEF Order, StagesInOrder
<1>17. pushed[d] = 0 => (fin.pc # "idle" => fin.of # d) /\ \A k \in DOMAIN matched : matched[k] # d
  BY DEF Order, QueueOK
<1>18. \A k \in DOMAIN matched : matched[k] \in Deltas /\ pushed[matched[k]] # 0 /\ stage[matched[k]] = "watched"
  BY <1>5 DEF Order, QueueOK
<1>19. QueueOK'
  <2>1. \A k \in DOMAIN matched' : stage'[matched'[k]] = "watched" /\ pushed'[matched'[k]] # 0
    <3> SUFFICES ASSUME NEW k \in DOMAIN matched'
                 PROVE  stage[matched'[k]] = "watched" /\ pushed'[matched'[k]] # 0
      BY <1>1
    <3>1. CASE k \in DOMAIN matched
      BY <3>1, <1>6, <1>7, <1>18
    <3>2. CASE k \notin DOMAIN matched
      <4>1. pushed[d] = 0 /\ stage[d] = "watched" /\ matched'[k] = d
        BY <3>2, <1>7
      <4>2. QED  BY <4>1, <1>5, <1>6
    <3>3. QED  BY <3>1, <3>2
  <2>2. \A k, l \in DOMAIN matched' : k # l => matched'[k] # matched'[l]
    <3> SUFFICES ASSUME NEW k \in DOMAIN matched', NEW l \in DOMAIN matched', k # l
                 PROVE  matched'[k] # matched'[l]
      OBVIOUS
    <3>1. CASE k \in DOMAIN matched /\ l \in DOMAIN matched
      BY <3>1, <1>7 DEF Order, QueueOK
    <3>2. CASE k \notin DOMAIN matched \/ l \notin DOMAIN matched
      <4>1. pushed[d] = 0
        BY <3>2, <1>7
      <4>2. PICK m \in DOMAIN matched' :
               matched'[m] = d /\ DOMAIN matched' = DOMAIN matched \cup {m}
        BY <3>2, <1>7
      <4>3. (k = m /\ l \in DOMAIN matched) \/ (l = m /\ k \in DOMAIN matched)
        BY <3>2, <4>2
      <4>4. QED  BY <4>1, <4>2, <4>3, <1>7, <1>17
    <3>3. QED  BY <3>1, <3>2
  <2>3. fin'.pc # "idle" =>
          /\ fin'.of \in Deltas /\ stage'[fin'.of] = "watched"
          /\ fin'.pos = pushed'[fin'.of] /\ fin'.pos # 0
          /\ fin'.idx < Sizes[fin'.of]
          /\ \A k \in DOMAIN matched' : matched'[k] # fin'.of
    <3> SUFFICES ASSUME fin.pc # "idle"
                 PROVE  /\ fin.of \in Deltas /\ stage[fin.of] = "watched"
                        /\ fin.pos = pushed'[fin.of] /\ fin.pos # 0
                        /\ fin.idx < Sizes[fin.of]
                        /\ \A k \in DOMAIN matched' : matched'[k] # fin.of
      BY <1>1
    <3>1. /\ fin.of \in Deltas /\ stage[fin.of] = "watched"
          /\ fin.pos = pushed[fin.of] /\ fin.pos # 0 /\ fin.idx < Sizes[fin.of]
          /\ \A k \in DOMAIN matched : matched[k] # fin.of
      BY DEF Order, QueueOK
    <3>2. fin.pos = pushed'[fin.of]
      BY <3>1, <1>6
    <3>3. \A k \in DOMAIN matched' : matched'[k] # fin.of
      <4> SUFFICES ASSUME NEW k \in DOMAIN matched' PROVE matched'[k] # fin.of
        OBVIOUS
      <4>1. CASE k \in DOMAIN matched
        BY <4>1, <3>1, <1>7
      <4>2. CASE k \notin DOMAIN matched
        <5>1. pushed[d] = 0 /\ matched'[k] = d
          BY <4>2, <1>7
        <5>2. QED  BY <5>1, <3>1
      <4>3. QED  BY <4>1, <4>2
    <3>4. QED  BY <3>1, <3>2, <3>3
  <2>4. \A i \in Deltas : stage'[i] = "watched" /\ pushed'[i] # 0 =>
          Finalizing(i)' \/ \E k \in DOMAIN matched' : matched'[k] = i
    <3> SUFFICES ASSUME NEW i \in Deltas, stage[i] = "watched", pushed'[i] # 0
                 PROVE  Finalizing(i) \/ \E k \in DOMAIN matched' : matched'[k] = i
      BY <1>1, <1>8
    <3>1. CASE pushed[i] # 0
      <4>1. Finalizing(i) \/ \E k \in DOMAIN matched : matched[k] = i
        BY <3>1 DEF Order, QueueOK
      <4>2. QED  BY <4>1, <1>7
    <3>2. CASE pushed[i] = 0
      <4>1. i = d
        BY <3>2, <1>6
      <4>2. QED  BY <4>1, <3>2, <1>7
    <3>3. QED  BY <3>1, <3>2
  <2>5. QED  BY <2>1, <2>2, <2>3, <2>4 DEF QueueOK
<1>20. FinalizedInOrder'
  <2> SUFFICES ASSUME NEW i \in Deltas, NEW j \in Deltas, 1 < i, i < j, ~Missed(i)'
               PROVE  /\ stage[j] = "final" \/ Finalizing(j) => stage[i] = "final"
                      /\ \A k \in DOMAIN matched' : matched'[k] = j =>
                            \/ stage[i] = "final" \/ Finalizing(i)
                            \/ \E l \in DOMAIN matched' : l < k /\ matched'[l] = i
    BY <1>1, <1>8 DEF FinalizedInOrder
  <2>1. ~Missed(i)
    BY <1>10
  <2>2. /\ stage[j] = "final" \/ Finalizing(j) => stage[i] = "final"
        /\ \A k \in DOMAIN matched : matched[k] = j =>
              \/ stage[i] = "final" \/ Finalizing(i)
              \/ \E l \in DOMAIN matched : l < k /\ matched[l] = i
    BY <2>1 DEF Order, FinalizedInOrder
  <2>3. ASSUME NEW k \in DOMAIN matched, matched'[k] = j
        PROVE  \/ stage[i] = "final" \/ Finalizing(i)
               \/ \E l \in DOMAIN matched' : l < k /\ matched'[l] = i
    BY <2>2, <2>3, <1>7
  <2>4. ASSUME NEW k \in DOMAIN matched', k \notin DOMAIN matched, matched'[k] = j
        PROVE  \/ stage[i] = "final" \/ Finalizing(i)
               \/ \E l \in DOMAIN matched' : l < k /\ matched'[l] = i
    <3>1. j = d /\ stage[d] = "watched" /\ \A l \in DOMAIN matched : l < k
      BY <2>4, <1>7
    <3>2. stage[i] \in Written
      BY <3>1 DEF Order, StagesInOrder, Written
    <3>3. PICK q \in Images(i) : q < scanned + 1
      BY <3>1, <1>3 DEF Order, ImagesInOrder
    <3>4. q \in Nat /\ q <= scanned
      BY <3>3, <1>5, <1>9
    <3>5. pushed[i] # 0
      BY <3>4, <2>1 DEF Missed
    <3>6. CASE stage[i] = "watched"
      <4>1. Finalizing(i) \/ \E l \in DOMAIN matched : matched[l] = i
        BY <3>5, <3>6 DEF Order, QueueOK
      <4>2. QED  BY <4>1, <3>1, <1>7
    <3>7. QED  BY <3>2, <3>6 DEF Written
  <2>5. QED  BY <2>2, <2>3, <2>4
<1>21. QED  BY <1>12, <1>13, <1>14, <1>15, <1>16, <1>19, <1>20 DEF Order

\* The scanner passes an after-image without giving it to the matcher.
LEMMA ScanMissesOrder ==
    ASSUME Order, ScanMisses
    PROVE  Order'
<1>1. /\ scanned < Len(log) /\ scanned' = scanned + 1
      /\ bound' = [bound EXCEPT !.misses = @ + 1]
      /\ UNCHANGED <<log, stage, image, pushed, matched, fin>>
  BY DEF ScanMisses
<1>2. /\ scanned \in Nat /\ Len(log) \in Nat /\ First <= scanned /\ First \in Nat
      /\ bound \in [reads : Nat, dups : Nat, misses : Nat, clears : Nat]
      /\ pushed \in [Deltas -> Nat]
  BY ImagesFacts, DeltaFacts DEF Order, OrderTypes, LogShape
<1>3. /\ bound' \in [reads : Nat, dups : Nat, misses : Nat, clears : Nat]
      /\ bound'.misses # 0 /\ bound'.dups = bound.dups
  <2>1. bound.misses \in Nat /\ bound.misses + 1 # 0
    BY <1>2
  <2>2. QED  BY <2>1, <1>1, <1>2
<1>4. (\A i : Images(i)' = Images(i)) /\ (\A i : Finalizing(i)' <=> Finalizing(i))
  BY <1>1 DEF Images, Finalizing
<1>5. \A i : Missed(i) => Missed(i)'
  <2>1. \A i : \A p \in Images(i) : p \in Nat
    BY ImagesFacts DEF Order
  <2>2. QED  BY <2>1, <1>1, <1>2, <1>4 DEF Missed
<1>6. OrderTypes'
  <2>1. scanned' \in Nat
    BY <1>1, <1>2
  <2>2. QED  BY <2>1, <1>1, <1>3 DEF Order, OrderTypes
<1>7. LogShape'
  BY <1>1, <1>2 DEF Order, LogShape
<1>8. PushedOK'
  <2>1. \A i \in Deltas : pushed[i] # 0 => pushed[i] <= scanned + 1
    BY <1>2 DEF Order, PushedOK
  <2>2. QED  BY <2>1, <1>1, <1>3, <1>4 DEF Order, PushedOK
<1>9. ImagesInOrder' /\ StagesInOrder' /\ QueueOK'
  BY <1>1, <1>3, <1>4 DEF Order, ImagesInOrder, StagesInOrder, QueueOK
<1>10. FinalizedInOrder'
  BY <1>1, <1>4, <1>5 DEF Order, FinalizedInOrder
<1>11. QED  BY <1>6, <1>7, <1>8, <1>9, <1>10 DEF Order

\* The finalizer takes the oldest delta of the queue.
LEMMA FinalizerConvertsOrder ==
    ASSUME Order, FinalizerConverts
    PROVE  Order'
<1>1. /\ fin.pc = "idle" /\ matched # <<>>
      /\ fin' = [pc |-> "map", of |-> Head(matched), pos |-> pushed[Head(matched)], idx |-> 0]
      /\ matched' = Tail(matched)
      /\ UNCHANGED <<log, stage, image, scanned, pushed, bound>>
  BY DEF FinalizerConverts
<1>2. matched \in Seq(Deltas) /\ pushed \in [Deltas -> Nat]
  BY DEF Order, OrderTypes
<1>3. /\ matched' \in Seq(Deltas) /\ Head(matched) \in Deltas /\ Head(matched) = matched[1]
      /\ 1 \in DOMAIN matched
      /\ \A k \in DOMAIN matched' : k + 1 \in DOMAIN matched /\ matched'[k] = matched[k + 1]
  BY <1>1, <1>2, TailFacts
<1>4. PICK d \in Deltas : d = Head(matched)
  BY <1>3
<1>5. /\ fin'.pc = "map" /\ fin'.of = d /\ fin'.pos = pushed[d] /\ fin'.idx = 0
      /\ fin' \in [pc : {"idle", "map", "apply"}, of : Nat, pos : Nat, idx : Nat]
  BY <1>1, <1>2, <1>4, DeltaFacts
<1>6. \A k \in DOMAIN matched : k \in Nat /\ (k # 1 => k - 1 \in DOMAIN matched' /\ matched'[k - 1] = matched[k])
  <2>1. DOMAIN matched = 1..Len(matched) /\ Len(matched) \in Nat
    BY <1>2
  <2>2. DOMAIN matched' = 1..(Len(matched) - 1)
    BY <1>1, <1>2
  <2>3. ASSUME NEW k \in DOMAIN matched, k # 1 PROVE k - 1 \in DOMAIN matched' /\ matched'[k - 1] = matched[k]
    <3>1. k - 1 \in DOMAIN matched' /\ k - 1 + 1 = k
      BY <2>1, <2>2, <2>3
    <3>2. matched'[k - 1] = matched[k - 1 + 1]
      BY <3>1, <1>3
    <3>3. QED  BY <3>1, <3>2
  <2>4. QED  BY <2>1, <2>3
<1>7. \A k \in DOMAIN matched' : k \in Nat /\ k + 1 # 1
  BY <1>3
<1>8. (\A i : Images(i)' = Images(i)) /\ (\A i : Missed(i)' <=> Missed(i))
      /\ (\A i : Finalizing(i)' <=> i = d) /\ (\A i : ~Finalizing(i))
  BY <1>1, <1>5 DEF Images, Missed, Finalizing
<1>9. OrderTypes'
  BY <1>1, <1>3, <1>5 DEF Order, OrderTypes
<1>10. LogShape' /\ PushedOK' /\ ImagesInOrder' /\ StagesInOrder'
  BY <1>1, <1>8 DEF Order, LogShape, PushedOK, ImagesInOrder, StagesInOrder
<1>11. \A k \in DOMAIN matched' : matched'[k] # d
  <2> SUFFICES ASSUME NEW k \in DOMAIN matched' PROVE matched'[k] # d
    OBVIOUS
  <2>1. k + 1 \in DOMAIN matched /\ k + 1 # 1 /\ matched'[k] = matched[k + 1]
    BY <1>3, <1>7
  <2>2. QED  BY <2>1, <1>3, <1>4 DEF Order, QueueOK
<1>12. QueueOK'
  <2>1. \A k \in DOMAIN matched' : stage'[matched'[k]] = "watched" /\ pushed'[matched'[k]] # 0
    BY <1>1, <1>3 DEF Order, QueueOK
  <2>2. \A k, l \in DOMAIN matched' : k # l => matched'[k] # matched'[l]
    <3> SUFFICES ASSUME NEW k \in DOMAIN matched', NEW l \in DOMAIN matched', k # l
                 PROVE  matched'[k] # matched'[l]
      OBVIOUS
    <3>1. k + 1 # l + 1
      BY <1>7
    <3>2. QED  BY <3>1, <1>3 DEF Order, QueueOK
  <2>3. stage[d] = "watched" /\ pushed[d] # 0 /\ 0 < Sizes[d]
    BY <1>3, <1>4, DeltaFacts DEF Order, QueueOK
  <2>4. \A i \in Deltas : stage[i] = "watched" /\ pushed[i] # 0 =>
          i = d \/ \E k \in DOMAIN matched' : matched'[k] = i
    <3> SUFFICES ASSUME NEW i \in Deltas, stage[i] = "watched", pushed[i] # 0, i # d
                 PROVE  \E k \in DOMAIN matched' : matched'[k] = i
      OBVIOUS
    <3>1. PICK k \in DOMAIN matched : matched[k] = i
      BY <1>8 DEF Order, QueueOK
    <3>2. k # 1
      BY <3>1, <1>3, <1>4
    <3>3. QED  BY <3>1, <3>2, <1>6
  <2>5. QED  BY <2>1, <2>2, <2>3, <2>4, <1>1, <1>5, <1>8, <1>11 DEF QueueOK
<1>13. FinalizedInOrder'
  <2> SUFFICES ASSUME NEW i \in Deltas, NEW j \in Deltas, 1 < i, i < j, ~Missed(i)
               PROVE  /\ stage[j] = "final" \/ j = d => stage[i] = "final"
                      /\ \A k \in DOMAIN matched' : matched'[k] = j =>
                            \/ stage[i] = "final" \/ i = d
                            \/ \E l \in DOMAIN matched' : l < k /\ matched'[l] = i
    BY <1>1, <1>8 DEF FinalizedInOrder
  <2>1. /\ stage[j] = "final" => stage[i] = "final"
        /\ \A k \in DOMAIN matched : matched[k] = j =>
              \/ stage[i] = "final"
              \/ \E l \in DOMAIN matched : l < k /\ matched[l] = i
    BY <1>8 DEF Order, FinalizedInOrder
  <2>2. j = d => stage[i] = "final"
    <3> SUFFICES ASSUME j = d, stage[i] # "final" PROVE FALSE
      OBVIOUS
    <3>1. PICK l \in DOMAIN matched : l < 1
      BY <2>1, <1>3, <1>4
    <3>2. DOMAIN matched = 1..Len(matched) /\ Len(matched) \in Nat
      BY <1>2
    <3>3. QED  BY <3>1, <3>2
  <2>3. ASSUME NEW k \in DOMAIN matched', matched'[k] = j, stage[i] # "final", i # d
        PROVE  \E l \in DOMAIN matched' : l < k /\ matched'[l] = i
    <3>1. PICK l \in DOMAIN matched : l < k + 1 /\ matched[l] = i
      BY <2>1, <2>3, <1>3
    <3>2. l # 1 /\ l \in Nat /\ k \in Nat
      BY <3>1, <2>3, <1>3, <1>4, <1>6, <1>7
    <3>3. l - 1 \in DOMAIN matched' /\ matched'[l - 1] = i /\ l - 1 < k
      BY <3>1, <3>2, <1>6
    <3>4. QED  BY <3>3
  <2>4. QED  BY <2>1, <2>2, <2>3
<1>14. QED  BY <1>9, <1>10, <1>12, <1>13 DEF Order

\* The finalizer records the mapping.
LEMMA FinalizerMapsOrder ==
    ASSUME Order, FinalizerMaps
    PROVE  Order'
<1>1. /\ fin.pc = "map" /\ fin' = [fin EXCEPT !.pc = "apply"]
      /\ UNCHANGED <<log, stage, image, scanned, pushed, matched, bound>>
  BY DEF FinalizerMaps, treeVars, controlVars
<1>2. fin \in [pc : {"idle", "map", "apply"}, of : Nat, pos : Nat, idx : Nat]
  BY DEF Order, OrderTypes
<1>3. /\ fin' \in [pc : {"idle", "map", "apply"}, of : Nat, pos : Nat, idx : Nat]
      /\ fin'.pc = "apply" /\ fin'.of = fin.of /\ fin'.pos = fin.pos /\ fin'.idx = fin.idx
  BY <1>1, <1>2
<1>4. (\A i : Images(i)' = Images(i)) /\ (\A i : Missed(i)' <=> Missed(i))
      /\ (\A i : Finalizing(i)' <=> Finalizing(i))
  BY <1>1, <1>3 DEF Images, Missed, Finalizing
<1>5. OrderTypes'
  BY <1>1, <1>3 DEF Order, OrderTypes
<1>6. LogShape' /\ PushedOK' /\ ImagesInOrder' /\ StagesInOrder'
  BY <1>1, <1>4 DEF Order, LogShape, PushedOK, ImagesInOrder, StagesInOrder
<1>7. QueueOK'
  BY <1>1, <1>3, <1>4 DEF Order, QueueOK
<1>8. FinalizedInOrder'
  BY <1>1, <1>4 DEF Order, FinalizedInOrder
<1>9. QED  BY <1>5, <1>6, <1>7, <1>8 DEF Order

\* The finalizer hands one node to the cache, and drops the tree after the last one.
LEMMA FinalizerAppliesOrder ==
    ASSUME Order, FinalizerApplies
    PROVE  Order'
<1>1. fin.pc = "apply" /\ UNCHANGED <<log, image, scanned, pushed, matched, bound>>
  BY DEF FinalizerApplies
<1>2. /\ fin \in [pc : {"idle", "map", "apply"}, of : Nat, pos : Nat, idx : Nat]
      /\ stage \in [Deltas -> {"none", "queued", "watched", "final"}]
  BY DEF Order, OrderTypes
<1>3. /\ fin.of \in Deltas /\ stage[fin.of] = "watched"
      /\ fin.pos = pushed[fin.of] /\ fin.pos # 0 /\ fin.idx < Sizes[fin.of]
      /\ \A k \in DOMAIN matched : matched[k] # fin.of
  BY <1>1 DEF Order, QueueOK
<1>4. PICK d \in Deltas : d = fin.of
  BY <1>3
<1>5. (\A i : Images(i)' = Images(i)) /\ (\A i : Missed(i)' <=> Missed(i))
      /\ (\A i : Finalizing(i) <=> i = d)
  BY <1>1, <1>4 DEF Images, Missed, Finalizing
<1>6. CASE fin.idx # Sizes[fin.of] - 1
  <2>1. stage' = stage /\ fin' = [fin EXCEPT !.idx = @ + 1]
    BY <1>6 DEF FinalizerApplies
  <2>2. fin.idx \in Nat /\ fin.idx + 1 \in Nat /\ Sizes[fin.of] \in Nat
    BY <1>2, <1>3, DeltaFacts
  <2>3. /\ fin' \in [pc : {"idle", "map", "apply"}, of : Nat, pos : Nat, idx : Nat]
        /\ fin'.pc = "apply" /\ fin'.of = fin.of /\ fin'.pos = fin.pos /\ fin'.idx = fin.idx + 1
    BY <2>1, <2>2, <1>1, <1>2
  <2>4. fin'.idx < Sizes[fin.of]
    BY <2>2, <2>3, <1>3, <1>6
  <2>5. \A i : Finalizing(i)' <=> Finalizing(i)
    BY <2>3, <1>1 DEF Finalizing
  <2>6. OrderTypes'
    BY <2>1, <2>3, <1>1 DEF Order, OrderTypes
  <2>7. LogShape' /\ PushedOK' /\ ImagesInOrder' /\ StagesInOrder'
    BY <2>1, <1>1, <1>5 DEF Order, LogShape, PushedOK, ImagesInOrder, StagesInOrder
  <2>8. QueueOK'
    BY <2>1, <2>3, <2>4, <2>5, <1>1, <1>3 DEF Order, QueueOK
  <2>9. FinalizedInOrder'
    BY <2>1, <2>5, <1>1, <1>5 DEF Order, FinalizedInOrder
  <2>10. QED  BY <2>6, <2>7, <2>8, <2>9 DEF Order
<1>7. CASE fin.idx = Sizes[fin.of] - 1
  <2>1. /\ stage' = [stage EXCEPT ![d] = "final"]
        /\ fin' = [pc |-> "idle", of |-> 0, pos |-> 0, idx |-> 0]
    BY <1>4, <1>7 DEF FinalizerApplies
  <2>2. /\ stage' \in [Deltas -> {"none", "queued", "watched", "final"}]
        /\ \A i \in Deltas : stage'[i] = IF i = d THEN "final" ELSE stage[i]
        /\ stage[d] = "watched" /\ pushed[d] # 0
    BY <2>1, <1>2, <1>3, <1>4
  <2>3. \A i : ~Finalizing(i)'
    BY <2>1 DEF Finalizing
  <2>4. \A i \in Deltas : /\ stage'[i] # "none" <=> stage[i] # "none"
                          /\ stage'[i] \in Written <=> stage[i] \in Written
                          /\ stage'[i] = "final" <=> (stage[i] = "final" \/ i = d)
    BY <2>2 DEF Written
  <2>5. OrderTypes'
    BY <2>1, <2>2, <1>1 DEF Order, OrderTypes
  <2>6. LogShape' /\ PushedOK' /\ ImagesInOrder'
    BY <1>1, <1>5 DEF Order, LogShape, PushedOK, ImagesInOrder
  <2>7. StagesInOrder'
    BY <2>2, <2>4, <1>1, <1>5, DeltaFacts DEF Order, StagesInOrder
  <2>8. \A k \in DOMAIN matched : matched[k] # d /\ matched[k] \in Deltas
    BY <1>3, <1>4 DEF Order, OrderTypes
  <2>9. QueueOK'
    <3>1. \A k \in DOMAIN matched' : stage'[matched'[k]] = "watched" /\ pushed'[matched'[k]] # 0
      BY <2>2, <2>8, <1>1 DEF Order, QueueOK
    <3>2. \A i \in Deltas : stage'[i] = "watched" /\ pushed[i] # 0 =>
             \E k \in DOMAIN matched : matched[k] = i
      BY <2>2, <1>5 DEF Order, QueueOK
    <3>3. fin'.pc = "idle"
      BY <2>1
    <3>4. QED  BY <3>1, <3>2, <3>3, <1>1 DEF Order, QueueOK
  <2>10. FinalizedInOrder'
    <3> SUFFICES ASSUME NEW i \in Deltas, NEW j \in Deltas, 1 < i, i < j, ~Missed(i)
                 PROVE  /\ stage'[j] = "final" => stage'[i] = "final"
                        /\ \A k \in DOMAIN matched : matched[k] = j =>
                              \/ stage'[i] = "final"
                              \/ \E l \in DOMAIN matched : l < k /\ matched[l] = i
      BY <2>3, <1>1, <1>5 DEF FinalizedInOrder
    <3>1. /\ stage[j] = "final" \/ j = d => stage[i] = "final"
          /\ \A k \in DOMAIN matched : matched[k] = j =>
                \/ stage[i] = "final" \/ i = d
                \/ \E l \in DOMAIN matched : l < k /\ matched[l] = i
      BY <1>5 DEF Order, FinalizedInOrder
    <3>2. QED  BY <3>1, <2>4
  <2>11. QED  BY <2>5, <2>6, <2>7, <2>9, <2>10 DEF Order
<1>8. QED  BY <1>6, <1>7

\* The steps that have nothing to do with trees, scanner and finalizer.
Quiet ==
    \/ ClearIndex \/ ClearShard \/ Stop \/ Vacuum \/ VacuumWakes
    \/ \E r \in Readers : Begin(r) \/ Follow(r) \/ Fetch(r) \/ Leave(r)
    \/ UNCHANGED vars

\* What they leave alone.
LEMMA QuietFrame ==
    ASSUME Order, Quiet
    PROVE  /\ UNCHANGED <<log, stage, image, scanned, pushed, matched, fin>>
           /\ bound' \in [reads : Nat, dups : Nat, misses : Nat, clears : Nat]
           /\ bound'.dups = bound.dups /\ bound'.misses = bound.misses
<1>1. bound \in [reads : Nat, dups : Nat, misses : Nat, clears : Nat]
  BY DEF Order, OrderTypes
<1>2. ASSUME UNCHANGED <<treeVars, fin, bound>>
      PROVE  /\ UNCHANGED <<log, stage, image, scanned, pushed, matched, fin>>
             /\ bound' \in [reads : Nat, dups : Nat, misses : Nat, clears : Nat]
             /\ bound'.dups = bound.dups /\ bound'.misses = bound.misses
  BY <1>1, <1>2 DEF treeVars
<1>3. CASE ClearIndex
  <2>1. UNCHANGED <<treeVars, fin>> /\ bound' = [bound EXCEPT !.clears = @ + 1]
    BY <1>3 DEF ClearIndex
  <2>2. QED  BY <2>1, <1>1 DEF treeVars
<1>4. ASSUME NEW r \in Readers, Begin(r)
      PROVE  /\ UNCHANGED <<log, stage, image, scanned, pushed, matched, fin>>
             /\ bound' \in [reads : Nat, dups : Nat, misses : Nat, clears : Nat]
             /\ bound'.dups = bound.dups /\ bound'.misses = bound.misses
  <2>1. UNCHANGED <<treeVars, fin>> /\ bound' = [bound EXCEPT !.reads = @ + 1]
    BY <1>4 DEF Begin
  <2>2. QED  BY <2>1, <1>1 DEF treeVars
<1>5. CASE ClearShard \/ Stop \/ UNCHANGED vars
  BY <1>5, <1>2 DEF ClearShard, Stop, vars, treeVars
<1>6. CASE Vacuum \/ VacuumWakes
  BY <1>6, <1>2 DEF Vacuum, VacuumChecks, VacuumTests, VacuumTargets, VacuumEvicts, VacuumWakes, controlVars
<1>7. ASSUME NEW r \in Readers, Follow(r) \/ Leave(r)
      PROVE  UNCHANGED <<treeVars, fin, bound>>
  BY <1>7 DEF Follow, Leave, controlVars
<1>8. ASSUME NEW r \in Readers, Fetch(r)
      PROVE  UNCHANGED <<treeVars, fin, bound>>
  BY <1>8 DEF Fetch, Find, Look, Load, Again, Insert, Got, controlVars
<1>9. QED  BY <1>2, <1>3, <1>4, <1>5, <1>6, <1>7, <1>8 DEF Quiet

\* A step is one of trees, scanner or finalizer, or leaves them alone.
LEMMA NextSplit ==
    ASSUME [Next]_vars
    PROVE  \/ Publish \/ Serialize \/ AppendImage \/ OtherImage \/ Scan \/ ScanMisses
           \/ FinalizerConverts \/ FinalizerMaps \/ FinalizerApplies
           \/ Quiet
BY DEF Next, Tree, Finalizer, Quiet

\* Every step keeps Order.
LEMMA NextOrder ==
    ASSUME Order, Memory, [Next]_vars
    PROVE  Order'
<1>1. CASE Quiet
  BY <1>1, QuietFrame, OrderSame
<1>2. QED
  BY <1>1, NextSplit, PublishOrder, SerializeOrder, AppendImageOrder, OtherImageOrder, ScanOrder,
     ScanMissesOrder, FinalizerConvertsOrder, FinalizerMapsOrder, FinalizerAppliesOrder

-----------------------------------------------------------------------------
(* No step makes Good, Leads and Open false. *)

\* After-images stay where they are, further ones come to the end of the log, what
\* was missed or finalized stays so, and what was pushed is not replaced.
LEMMA StepGrows ==
    ASSUME Order, Memory, [Next]_vars
    PROVE  /\ \A i : Images(i) \subseteq Images(i)'
           /\ \A i : \A p \in Images(i)' : p \in Images(i) \/ p = Len(log) + 1
           /\ bound'.misses = 0 => bound.misses = 0
           /\ \A j \in Deltas : stage[j] = "final" => stage'[j] = "final"
           /\ \A j \in Deltas : stage[j] # "none" => stage'[j] # "none"
           /\ scanned <= scanned'
           /\ \A i \in Deltas : pushed[i] # 0 => pushed'[i] = pushed[i]
<1> DEFINE P == /\ \A i : Images(i) \subseteq Images(i)'
                /\ \A i : \A p \in Images(i)' : p \in Images(i) \/ p = Len(log) + 1
           Q == bound'.misses = 0 => bound.misses = 0
           R == /\ \A j \in Deltas : stage[j] = "final" => stage'[j] = "final"
                /\ \A j \in Deltas : stage[j] # "none" => stage'[j] # "none"
           S == scanned <= scanned' /\ \A i \in Deltas : pushed[i] # 0 => pushed'[i] = pushed[i]
<1>1. scanned \in Nat /\ pushed \in [Deltas -> Nat] /\ stage \in [Deltas -> {"none", "queued", "watched", "final"}]
      /\ bound \in [reads : Nat, dups : Nat, misses : Nat, clears : Nat]
  BY DEF Order, OrderTypes
<1>2. log' = log => P
  BY DEF Images
<1>3. bound'.misses = bound.misses => Q
  OBVIOUS
<1>4. stage' = stage => R
  OBVIOUS
<1>5. scanned' = scanned /\ pushed' = pushed => S
  BY <1>1
<1>6. CASE Quiet
  BY <1>6, <1>2, <1>3, <1>4, <1>5, QuietFrame
<1>7. CASE Publish
  <2>1. stage' = [stage EXCEPT ![Root + 1] = "queued"] /\ Root + 1 \in Deltas
        /\ UNCHANGED <<log, scanned, pushed, bound>>
    BY <1>7 DEF Publish, controlVars
  <2>2. stage[Root + 1] = "none"
    <3>1. Root \in Nat /\ \A i \in Deltas : i <= Root <=> stage[i] # "none"
      BY RootFacts DEF Order
    <3>2. ~(Root + 1 <= Root)
      BY <3>1
    <3>3. QED  BY <2>1, <3>1, <3>2
  <2>3. R
    BY <2>1, <2>2, <1>1
  <2>4. QED  BY <2>1, <2>3, <1>2, <1>3, <1>5
<1>8. CASE Serialize
  <2>1. PICK n \in Deltas : stage[n] = "queued" /\ stage' = [stage EXCEPT ![n] = "watched"]
    BY <1>8 DEF Serialize, SerializeTree
  <2>2. R
    BY <2>1, <1>1
  <2>3. UNCHANGED <<log, scanned, pushed, bound>>
    BY <1>8 DEF Serialize, SerializeTree, controlVars
  <2>4. QED  BY <2>2, <2>3, <1>2, <1>3, <1>5
<1>9. CASE AppendImage
  <2>1. UNCHANGED <<stage, scanned, pushed, bound>>
    BY <1>9 DEF AppendImage, controlVars
  <2>2. image \in [of : Deltas, ptr : Ptrs] /\ log' = Append(log, AfterImage(image.of, image.ptr))
    BY <1>9 DEF AppendImage, Order, OrderTypes
  <2>3. PICK d \in Deltas, ptr \in Ptrs : log' = Append(log, AfterImage(d, ptr))
    BY <2>2
  <2>4. P
    BY <2>3, AppendImageFacts DEF Order
  <2>5. QED  BY <2>1, <2>4, <1>3, <1>4, <1>5
<1>10. CASE OtherImage
  <2>1. UNCHANGED <<stage, scanned, pushed>> /\ bound' = [bound EXCEPT !.dups = @ + 1]
    BY <1>10 DEF OtherImage
  <2>2. PICK d \in Deltas :
           log' = Append(log, AfterImage(d,
                      [c \in Remote(d) |-> IF c[1] = 1 THEN <<"a", 2>> ELSE <<"i", c[1]>>]))
    BY <1>10 DEF OtherImage
  <2>3. PICK ptr \in Ptrs : log' = Append(log, AfterImage(d, ptr))
    BY <2>2, OtherPtr
  <2>4. P
    BY <2>3, AppendImageFacts DEF Order
  <2>5. Q
    BY <2>1, <1>1
  <2>6. QED  BY <2>1, <2>4, <2>5, <1>4, <1>5
<1>11. CASE Scan
  <2>1. UNCHANGED <<log, stage, bound>> /\ scanned' = scanned + 1 /\ scanned < Len(log)
    BY <1>11 DEF Scan, controlVars
  <2>2. log[scanned + 1].of \in Deltas
    BY <2>1, NextEntry
  <2>3. \/ pushed' = pushed
        \/ pushed[log[scanned + 1].of] = 0 /\ pushed' = [pushed EXCEPT ![log[scanned + 1].of] = scanned + 1]
    BY <1>11 DEF Scan
  <2>4. S
    BY <2>1, <2>2, <2>3, <1>1
  <2>5. QED  BY <2>1, <2>4, <1>2, <1>3, <1>4
<1>12. CASE ScanMisses
  <2>1. UNCHANGED <<log, stage, pushed>> /\ scanned' = scanned + 1
        /\ bound' = [bound EXCEPT !.misses = @ + 1]
    BY <1>12 DEF ScanMisses
  <2>2. S
    BY <2>1, <1>1
  <2>3. Q
    <3>1. bound.misses \in Nat /\ bound'.misses = bound.misses + 1
      BY <2>1, <1>1
    <3>2. QED  BY <3>1
  <2>4. QED  BY <2>1, <2>2, <2>3, <1>2, <1>4
<1>13. CASE FinalizerConverts \/ FinalizerMaps
  <2>1. UNCHANGED <<log, stage, scanned, pushed, bound>>
    BY <1>13 DEF FinalizerConverts, FinalizerMaps, treeVars, controlVars
  <2>2. QED  BY <2>1, <1>2, <1>3, <1>4, <1>5
<1>14. CASE FinalizerApplies
  <2>1. UNCHANGED <<log, scanned, pushed, bound>>
        /\ (stage' = stage \/ stage' = [stage EXCEPT ![fin.of] = "final"])
    BY <1>14 DEF FinalizerApplies
  <2>2. R
    BY <2>1, <1>1
  <2>3. QED  BY <2>1, <2>2, <1>2, <1>3, <1>5
<1>15. QED
  BY <1>6, <1>7, <1>8, <1>9, <1>10, <1>11, <1>12, <1>13, <1>14, NextSplit

\* Whatever happens, an address leads where it led.
LEMMA StaysGood ==
    ASSUME Order, Memory, [Next]_vars
    PROVE  /\ \A pos, i : Good(pos, i) => Good(pos, i)'
           /\ \A addr, n : Leads(addr, n) => Leads(addr, n)'
           /\ \A d : Open(d) => Open(d)'
           /\ \A j \in Deltas : stage[j] # "none" => stage'[j] # "none"
           /\ \A i \in Deltas : pushed[i] # 0 /\ Missed(i) => pushed'[i] # 0 /\ Missed(i)'
<1>1. /\ \A i : Images(i) \subseteq Images(i)'
      /\ \A i : \A p \in Images(i)' : p \in Images(i) \/ p = Len(log) + 1
      /\ bound'.misses = 0 => bound.misses = 0
      /\ \A j \in Deltas : stage[j] = "final" => stage'[j] = "final"
      /\ \A j \in Deltas : stage[j] # "none" => stage'[j] # "none"
      /\ scanned <= scanned'
      /\ \A i \in Deltas : pushed[i] # 0 => pushed'[i] = pushed[i]
  BY StepGrows
<1>2. Len(log) \in Nat /\ \A i : \A p \in Images(i) : p \in Nat /\ p <= Len(log)
  BY ImagesFacts DEF Order
<1>3. ASSUME NEW pos, NEW i, Good(pos, i) PROVE Good(pos, i)'
  <2>1. pos \in Images(i)'
    BY <1>3, <1>1 DEF Good
  <2>2. ASSUME bound'.misses = 0, NEW p \in Images(i)' PROVE pos <= p
    <3>1. CASE p \in Images(i)
      BY <3>1, <2>2, <1>1, <1>3 DEF Good
    <3>2. CASE p = Len(log) + 1
      BY <3>2, <1>2, <1>3 DEF Good
    <3>3. QED  BY <3>1, <3>2, <1>1
  <2>3. QED  BY <2>1, <2>2 DEF Good
<1>4. \A addr, n : Leads(addr, n) => Leads(addr, n)'
  BY <1>3 DEF Leads
<1>5. \A d : Open(d) => Open(d)'
  BY <1>1 DEF Open
<1>6. ASSUME NEW i \in Deltas, pushed[i] # 0, Missed(i) PROVE pushed'[i] # 0 /\ Missed(i)'
  <2>1. PICK p \in Images(i) : p <= scanned /\ (pushed[i] = 0 \/ p < pushed[i])
    BY <1>6 DEF Missed
  <2>2. p \in Nat /\ scanned \in Nat
    BY <1>2 DEF Order, OrderTypes
  <2>3. p <= scanned' /\ p < pushed'[i] /\ p \in Images(i)'
    <3>1. Order'
      BY NextOrder
    <3>2. scanned' \in Nat
      BY <3>1 DEF Order, OrderTypes
    <3>3. QED  BY <2>1, <2>2, <3>2, <1>1, <1>6
  <2>4. QED  BY <2>3, <1>1, <1>6 DEF Missed
<1>7. QED  BY <1>1, <1>3, <1>4, <1>5, <1>6

-----------------------------------------------------------------------------
(* What keeps the parts of Memory. *)

\* Nothing is written.
LEMMA KeepImages ==
    ASSUME Order, Memory, [Next]_vars, UNCHANGED <<log, image>>
    PROVE  ImagesOK'
BY StaysGood DEF Memory, ImagesOK

\* The index is as it was.
LEMMA KeepImap ==
    ASSUME Order, Memory, [Next]_vars, UNCHANGED imap
    PROVE  ImapOK'
BY StaysGood DEF Memory, ImapOK

\* No assertion fails.
LEMMA KeepFailed ==
    ASSUME Order, Memory, [Next]_vars, UNCHANGED failed
    PROVE  FailedOK'
BY StaysGood DEF Memory, FailedOK

\* An object is that of a node.
LEMMA ObjFacts ==
    \A o \in Objs : o[1] \in Nodes /\ o[2] \in Nat /\ o = <<o[1], o[2]>> /\ o[1][1] \in Deltas
BY NodeFacts DEF Objs

\* Nodes may leave the cache, as long as those that stay are in memory.
LEMMA KeepCache ==
    ASSUME Order, Memory, [Next]_vars,
           DOMAIN cache' \subseteq DOMAIN cache,
           \A k \in DOMAIN cache' : cache'[k] = cache[k] /\ cache'[k] \in DOMAIN heap',
           \A i \in Deltas : Finalizing(i) => Open(i)' \/ (Finalizing(i)' /\ fin.idx <= fin'.idx)
    PROVE  CacheOK'
<1>1. Order'
  BY NextOrder
<1>2. fin.idx \in Nat /\ fin'.idx \in Nat
  BY <1>1 DEF Order, OrderTypes
<1>3. ASSUME NEW k \in DOMAIN cache'
      PROVE  (/\ cache[k] \in DOMAIN heap
              /\ k[2] = cache[k][1][2]
              /\ Good(k[1], cache[k][1][1])
              /\ Open(cache[k][1][1]) \/ (Finalizing(cache[k][1][1]) /\ k[2] < fin.idx))'
  <2>1. PICK x : x = cache[k]
    OBVIOUS
  <2>2. /\ x \in DOMAIN heap /\ k[2] = x[1][2] /\ Good(k[1], x[1][1])
        /\ Open(x[1][1]) \/ (Finalizing(x[1][1]) /\ k[2] < fin.idx)
    BY <2>1 DEF Memory, CacheOK
  <2>3. x \in Objs /\ x[1] \in Nodes /\ x[1][1] \in Deltas /\ x[1][2] \in Nat
    BY <2>2, NodeFacts, ObjFacts, DeltaFacts DEF Memory, MemoryTypes
  <2>4. cache'[k] = x /\ x \in DOMAIN heap'
    BY <2>1
  <2>5. Good(k[1], x[1][1])'
    BY <2>2, StaysGood
  <2>6. Open(x[1][1])' \/ (Finalizing(x[1][1])' /\ k[2] < fin'.idx)
    BY <2>2, <2>3, <1>2, StaysGood
  <2>7. QED  BY <2>2, <2>4, <2>5, <2>6
<1>4. QED  BY <1>3 DEF CacheOK

\* A thread that does nothing, as long as what it holds is in memory.
LEMMA KeepReader ==
    ASSUME Order, Memory, [Next]_vars, NEW r \in Readers,
           reader'[r] = reader[r],
           reader[r].obj # NoObj => reader[r].obj \in DOMAIN heap',
           reader[r].got # NoObj => reader[r].got \in DOMAIN heap'
    PROVE  ReaderOK(r)'
<1>1. ReaderOK(r)
  BY DEF Memory, ReadersOK
<1>2. PICK x : x = reader[r]
  OBVIOUS
<1>3. reader'[r] = x
  BY <1>2
<1>4. x.pc \notin {"idle", "at"} => Open(x.to[1])'
  BY <1>1, <1>2, StaysGood DEF ReaderOK
<1>5. x.pc = "find" => Leads(x.addr, x.to)'
  BY <1>1, <1>2, StaysGood DEF ReaderOK
<1>6. x.pc \in {"look", "load", "again", "insert"} => Good(x.pos, x.to[1])'
  BY <1>1, <1>2, StaysGood DEF ReaderOK
<1>7. QED  BY <1>1, <1>2, <1>3, <1>4, <1>5, <1>6 DEF ReaderOK

\* Objects that nobody holds go, references to them become empty.
LEMMA SweepFacts ==
    ASSUME Order, Memory, [Next]_vars,
           NEW h, DOMAIN h = DOMAIN heap, GoodPointers(h),
           heap' = Sweep(h, Held(cache', reader', stage')),
           \A k \in DOMAIN cache' : cache'[k] \in DOMAIN heap,
           \A r \in Readers : reader'[r].obj # NoObj => reader'[r].obj \in DOMAIN heap,
           \A r \in Readers : reader'[r].got # NoObj => reader'[r].got \in DOMAIN heap,
           \A i \in Deltas : stage'[i] \in InTree => stage[i] \in InTree,
           \A i \in Deltas : stage[i] # "none" /\ stage'[i] \notin InTree => Open(i)'
    PROVE  /\ DOMAIN heap' \subseteq Objs /\ IsFiniteSet(DOMAIN heap')
           /\ ObjectsOK' /\ PointersOK'
           /\ \A k \in DOMAIN cache' : cache'[k] \in DOMAIN heap'
           /\ \A r \in Readers : reader'[r].obj # NoObj => reader'[r].obj \in DOMAIN heap'
           /\ \A r \in Readers : reader'[r].got # NoObj => reader'[r].got \in DOMAIN heap'
<1> DEFINE held == Held(cache', reader', stage')
           live == DOMAIN h \cap held
           Kept(o, c) == IF h[o][c].ref \in live THEN h[o][c] ELSE [h[o][c] EXCEPT !.ref = NoRef]
<1>1. DOMAIN heap' = live /\ \A o \in live : heap'[o] = [c \in DOMAIN h[o] |-> Kept(o, c)]
  BY DEF Sweep
<1>2. /\ \A k \in DOMAIN cache' : cache'[k] \in held
      /\ \A r \in Readers : reader'[r].obj \in held /\ reader'[r].got \in held
      /\ \A n \in Nodes : stage'[n[1]] \in InTree => <<n, 0>> \in held
  BY DEF Held
<1> HIDE DEF held
<1>3. /\ live \subseteq DOMAIN heap
      /\ DOMAIN heap \subseteq Objs /\ IsFiniteSet(DOMAIN heap)
      /\ \A o \in DOMAIN heap : IF o[2] = 0 THEN stage[o[1][1]] # "none" ELSE Open(o[1][1])
      /\ \A n \in Nodes : stage[n[1]] \in InTree => <<n, 0>> \in DOMAIN heap
  BY DEF Memory, MemoryTypes, ObjectsOK
<1>4. DOMAIN heap' \subseteq Objs /\ IsFiniteSet(DOMAIN heap')
  BY <1>1, <1>3, FS_Subset
<1>5. \A k \in DOMAIN cache' : cache'[k] \in live
  BY <1>2
<1>6. \A r \in Readers : /\ reader'[r].obj # NoObj => reader'[r].obj \in live
                         /\ reader'[r].got # NoObj => reader'[r].got \in live
  BY <1>2
<1>7. \A n \in Nodes : stage'[n[1]] \in InTree => <<n, 0>> \in live
  <2> SUFFICES ASSUME NEW n \in Nodes, stage'[n[1]] \in InTree PROVE <<n, 0>> \in live
    OBVIOUS
  <2>1. n[1] \in Deltas
    BY NodeFacts
  <2>2. stage[n[1]] \in InTree
    BY <2>1
  <2>3. QED  BY <2>2, <1>2, <1>3
<1>8. \A o \in live : IF o[2] = 0 THEN stage'[o[1][1]] # "none" ELSE Open(o[1][1])'
  <2> SUFFICES ASSUME NEW o \in live
               PROVE  IF o[2] = 0 THEN stage'[o[1][1]] # "none" ELSE Open(o[1][1])'
    OBVIOUS
  <2>1. o[1][1] \in Deltas
    BY <1>3, ObjFacts
  <2>2. QED  BY <2>1, <1>3, StaysGood
<1>9. ObjectsOK'
  BY <1>1, <1>7, <1>8 DEF ObjectsOK
\* What is not held any more may be read from the log.
<1>10. \A o \in DOMAIN heap : o \notin live => Open(o[1][1])'
  <2> SUFFICES ASSUME NEW o \in DOMAIN heap, o \notin live PROVE Open(o[1][1])'
    OBVIOUS
  <2>1. o[1] \in Nodes /\ o = <<o[1], o[2]>> /\ o[1][1] \in Deltas
    BY <1>3, ObjFacts
  <2>2. CASE o[2] # 0
    BY <2>2, <1>3, StaysGood
  <2>3. CASE o[2] = 0
    <3>1. o = <<o[1], 0>>
      BY <2>1, <2>3
    <3>2. stage'[o[1][1]] \notin InTree
      BY <3>1, <2>1, <1>7
    <3>3. stage[o[1][1]] # "none"
      BY <2>3, <1>3
    <3>4. QED  BY <3>2, <3>3, <2>1
  <2>4. QED  BY <2>2, <2>3
<1>11. PointersOK'
  <2> SUFFICES ASSUME NEW o \in live
               PROVE  /\ heap'[o] \in [Kids[o[1]] -> Pointers]
                      /\ \A c \in Kids[o[1]] :
                            /\ Leads(heap[o][c].addr, c)'
                            /\ IF heap'[o][c].ref = NoRef THEN Open(c[1])'
                               ELSE heap'[o][c].ref \in live /\ heap'[o][c].ref[1] = c
    BY <1>1, Zenon DEF PointersOK, GoodPointers
  <2>1. h[o] \in [Kids[o[1]] -> Pointers] /\ DOMAIN h[o] = Kids[o[1]]
    BY DEF GoodPointers
  <2>2. heap'[o] = [c \in Kids[o[1]] |-> Kept(o, c)]
    BY <2>1, <1>1
  <2>3. ASSUME NEW c \in Kids[o[1]]
        PROVE  /\ Kept(o, c) \in Pointers
               /\ Leads(heap[o][c].addr, c)'
               /\ IF Kept(o, c).ref = NoRef THEN Open(c[1])'
                  ELSE Kept(o, c).ref \in live /\ Kept(o, c).ref[1] = c
    <3>1. PICK p \in Pointers : p = h[o][c]
      BY <2>1
    <3>2. /\ Leads(p.addr, c)
          /\ IF p.ref = NoRef THEN Open(c[1]) ELSE p.ref \in DOMAIN heap /\ p.ref[1] = c
      BY <3>1 DEF GoodPointers
    <3>3. Leads(p.addr, c)'
      BY <3>2, StaysGood
    <3>4. heap'[o][c] = Kept(o, c)
      BY <2>2
    <3>5. CASE p.ref \in live
      <4>1. Kept(o, c) = p
        BY <3>1, <3>5
      <4>2. p.ref # NoRef
        BY <3>5, <1>3, EmptyIsNothing DEF NoRef
      <4>3. (heap[o][c].addr)' = p.addr
        BY <3>4, <4>1
      <4> HIDE DEF Kept
      <4>4. QED  BY <3>2, <3>3, <3>5, <4>1, <4>2, <4>3
    <3>6. CASE p.ref \notin live
      <4>1. Kept(o, c) = [p EXCEPT !.ref = NoRef]
        BY <3>1, <3>6
      <4>2. Kept(o, c) \in Pointers /\ Kept(o, c).ref = NoRef /\ Kept(o, c).addr = p.addr
        <5> HIDE DEF Kept
        <5>1. QED  BY <4>1 DEF Pointers
      <4>3. Open(c[1])'
        <5>1. CASE p.ref = NoRef
          BY <5>1, <3>2, StaysGood
        <5>2. CASE p.ref # NoRef
          BY <5>2, <3>2, <3>6, <1>10
        <5>3. QED  BY <5>1, <5>2
      <4>4. (heap[o][c].addr)' = p.addr
        BY <3>4, <4>2
      <4> HIDE DEF Kept
      <4>5. QED  BY <3>3, <4>2, <4>3, <4>4
    <3>7. QED  BY <3>5, <3>6
  <2> HIDE DEF Kept
  <2>4. QED  BY <2>2, <2>3
<1>12. QED  BY <1>1, <1>4, <1>5, <1>6, <1>9, <1>11

\* Nothing happens to the objects, and no tree is published.
LEMMA KeepHeap ==
    ASSUME Order, Memory, [Next]_vars, UNCHANGED heap,
           \A i \in Deltas : stage'[i] \in InTree => stage[i] \in InTree
    PROVE  ObjectsOK' /\ PointersOK'
<1>1. ASSUME NEW o \in DOMAIN heap
      PROVE  IF o[2] = 0 THEN stage'[o[1][1]] # "none" ELSE Open(o[1][1])'
  <2>1. o[1][1] \in Deltas
    BY ObjFacts DEF Memory, MemoryTypes
  <2>2. QED  BY <2>1, StaysGood DEF Memory, ObjectsOK
<1>2. \A n \in Nodes : stage'[n[1]] \in InTree => <<n, 0>> \in DOMAIN heap
  BY NodeFacts DEF Memory, ObjectsOK
<1>3. ObjectsOK'
  BY <1>1, <1>2 DEF ObjectsOK
<1>4. ASSUME NEW o \in DOMAIN heap, NEW c \in Kids[o[1]]
      PROVE  /\ Leads(heap[o][c].addr, c)'
             /\ heap[o][c].ref = NoRef => Open(c[1])'
  <2>1. PICK a : a = heap[o][c].addr
    OBVIOUS
  <2>2. Leads(a, c) /\ (heap[o][c].ref = NoRef => Open(c[1]))
    BY <2>1 DEF Memory, PointersOK, GoodPointers
  <2>3. QED  BY <2>1, <2>2, StaysGood
<1>5. PointersOK'
  BY <1>4 DEF Memory, PointersOK, GoodPointers
<1>6. QED  BY <1>3, <1>5

\* Steps of the processor, the writer and the scanner: cache and threads have
\* nothing to do with them.
LEMMA KeepRest ==
    ASSUME Order, Memory, [Next]_vars, UNCHANGED <<cache, reader, failed>>,
           DOMAIN heap \subseteq DOMAIN heap',
           \A i \in Deltas : Finalizing(i) => Open(i)' \/ (Finalizing(i)' /\ fin.idx <= fin'.idx)
    PROVE  CacheOK' /\ ReadersOK' /\ FailedOK'
<1>1. \A k \in DOMAIN cache' : cache'[k] = cache[k] /\ cache'[k] \in DOMAIN heap'
  BY DEF Memory, CacheOK
<1>2. CacheOK'
  BY <1>1, KeepCache
<1>3. ASSUME NEW r \in Readers PROVE ReaderOK(r)'
  <2>1. ReaderOK(r)
    BY DEF Memory, ReadersOK
  <2>2. /\ reader[r].obj # NoObj => reader[r].obj \in DOMAIN heap'
        /\ reader[r].got # NoObj => reader[r].got \in DOMAIN heap'
    BY <2>1 DEF ReaderOK
  <2>3. QED  BY <2>2, KeepReader
<1>4. QED  BY <1>2, <1>3, KeepFailed DEF ReadersOK

\* A finalizer that does nothing.
LEMMA SameFin ==
    ASSUME Order, fin' = fin
    PROVE  \A i \in Deltas : Finalizing(i) => Open(i)' \/ (Finalizing(i)' /\ fin.idx <= fin'.idx)
<1>1. fin.idx \in Nat
  BY DEF Order, OrderTypes
<1>2. QED  BY <1>1 DEF Finalizing

\* Steps that do not touch memory at all.
LEMMA MemorySame ==
    ASSUME Order, Memory, [Next]_vars, UNCHANGED <<heap, cache, imap, reader, failed, fin>>,
           \A i \in Deltas : stage'[i] \in InTree => stage[i] \in InTree, ImagesOK'
    PROVE  Memory'
<1>1. ObjectsOK' /\ PointersOK'
  BY KeepHeap
<1>2. CacheOK' /\ ReadersOK' /\ FailedOK'
  BY SameFin, KeepRest
<1>3. ImapOK'
  BY KeepImap
<1>4. MemoryTypes'
  BY DEF Memory, MemoryTypes
<1>5. QED  BY <1>1, <1>2, <1>3, <1>4 DEF Memory

\* The scanner.
LEMMA ScanMemory ==
    ASSUME Order, Memory, [Next]_vars, Scan \/ ScanMisses
    PROVE  Memory'
<1>1. UNCHANGED <<log, image, stage, heap, cache, imap, reader, failed, fin>>
  BY DEF Scan, ScanMisses, controlVars
<1>2. ImagesOK'
  BY <1>1, KeepImages
<1>3. QED  BY <1>1, <1>2, MemorySame

\* The position of the first after-image of each delta that the matcher was given is
\* one to lead to.
LEMMA PushedIsGood ==
    ASSUME Order, NEW i \in Deltas, pushed[i] # 0
    PROVE  Good(pushed[i], i)
<1>1. pushed[i] \in Images(i) /\ pushed[i] <= scanned /\ i # 1
  BY DEF Order, PushedOK
<1>2. ASSUME bound.misses = 0, NEW p \in Images(i) PROVE pushed[i] <= p
  <2>1. ~Missed(i)
    BY <1>1, <1>2 DEF Order, PushedOK
  <2>2. p \in Nat /\ pushed[i] \in Nat /\ scanned \in Nat
    BY ImagesFacts DEF Order, OrderTypes
  <2>3. ~(p <= scanned) \/ ~(p < pushed[i])
    BY <2>1 DEF Missed
  <2>4. QED  BY <2>2, <2>3, <1>1
<1>3. QED  BY <1>1, <1>2 DEF Good

\* The first delta has one after-image only.
LEMMA FirstIsGood ==
    ASSUME Order
    PROVE  Good(2, 1)
<1>1. Images(1) = {2}
  BY FirstImage DEF Order
<1>2. QED  BY <1>1 DEF Good

\* A delta whose objects are all gone may be read from the log.
LEMMA GoneIsOpen ==
    ASSUME Order, Memory, NEW n \in Nodes, <<n, 0>> \notin DOMAIN heap, stage[n[1]] # "none"
    PROVE  Open(n[1])
<1>1. n[1] \in Deltas /\ n[1] \in Nat
  BY NodeFacts, DeltaFacts
<1>2. stage[n[1]] \notin InTree
  BY DEF Memory, ObjectsOK
<1>3. stage[n[1]] = "final"
  BY <1>1, <1>2 DEF Order, OrderTypes, InTree
<1>4. QED  BY <1>1, <1>3 DEF Open

\* The processor publishes a tree.
LEMMA PublishMemory ==
    ASSUME Order, Memory, [Next]_vars, Publish
    PROVE  Memory'
<1>1. PICK i \in Deltas :
         /\ i = Root + 1
         /\ \E addr \in [Remote(i) -> UNION {AddressesOf(c) : c \in Remote(i)}],
               ref \in [Remote(i) -> UNION {Objects(c) : c \in Remote(i)} \cup {NoRef}] :
              /\ \A c \in Remote(i) :
                    /\ addr[c] \in AddressesOf(c)
                    /\ IF Objects(c) = {} THEN ref[c] = NoRef ELSE ref[c] \in Objects(c)
              /\ heap' = [o \in DOMAIN heap \cup {<<<<i, k>>, 0>> : k \in 0..(Sizes[i] - 1)} |->
                            IF o \in DOMAIN heap THEN heap[o]
                            ELSE [c \in Kids[o[1]] |->
                                    IF c[1] = i THEN [ref |-> <<c, 0>>, addr |-> <<"i", i>>]
                                    ELSE [ref |-> ref[c], addr |-> addr[c]]]]
         /\ stage' = [stage EXCEPT ![i] = "queued"]
  BY DEF Publish
<1>2. UNCHANGED <<log, image, cache, imap, reader, failed, fin>>
  BY DEF Publish, controlVars
<1> DEFINE new == {<<<<i, k>>, 0>> : k \in 0..(Sizes[i] - 1)}
<1>3. PICK addr \in [Remote(i) -> UNION {AddressesOf(c) : c \in Remote(i)}],
           ref \in [Remote(i) -> UNION {Objects(c) : c \in Remote(i)} \cup {NoRef}] :
         /\ \A c \in Remote(i) :
               /\ addr[c] \in AddressesOf(c)
               /\ IF Objects(c) = {} THEN ref[c] = NoRef ELSE ref[c] \in Objects(c)
         /\ heap' = [o \in DOMAIN heap \cup new |->
                       IF o \in DOMAIN heap THEN heap[o]
                       ELSE [c \in Kids[o[1]] |->
                               IF c[1] = i THEN [ref |-> <<c, 0>>, addr |-> <<"i", i>>]
                               ELSE [ref |-> ref[c], addr |-> addr[c]]]]
  BY <1>1, Zenon
<1>4. /\ \A o \in new : o[1] \in Nodes /\ o[1][1] = i /\ o[2] = 0 /\ o \in Objs
      /\ \A n \in Nodes : n[1] = i => <<n, 0>> \in new
      /\ IsFiniteSet(new)
  <2>1. \A k \in 0..(Sizes[i] - 1) : <<i, k>> \in Nodes
    BY NodeFacts
  <2>2. \A o \in new : o[1] \in Nodes /\ o[1][1] = i /\ o[2] = 0 /\ o \in Objs
    BY <2>1 DEF Objs
  <2>3. \A n \in Nodes : n[1] = i => <<n, 0>> \in new
    BY NodeFacts
  <2>4. IsFiniteSet(0..(Sizes[i] - 1))
    <3>1. Sizes[i] - 1 \in Int /\ 0 \in Int
      BY DeltaFacts
    <3>2. QED  BY <3>1, FS_Interval
  <2>5. \A k \in 0..(Sizes[i] - 1) : <<<<i, k>>, 0>> \in new
    OBVIOUS
  <2>6. \A o \in new : \E k \in 0..(Sizes[i] - 1) : o = <<<<i, k>>, 0>>
    OBVIOUS
  <2> DEFINE f == [k \in 0..(Sizes[i] - 1) |-> <<<<i, k>>, 0>>]
  <2>7. f \in Surjection(0..(Sizes[i] - 1), new)
    BY <2>5, <2>6 DEF Surjection
  <2> HIDE DEF f, new
  <2>8. IsFiniteSet(new)
    BY <2>4, <2>7, FS_Surjection
  <2>9. QED  BY <2>2, <2>3, <2>8
<1> HIDE DEF new
<1>5. DOMAIN heap' = DOMAIN heap \cup new
  BY <1>3
<1>6. DOMAIN heap' \subseteq Objs /\ IsFiniteSet(DOMAIN heap')
  <2>1. DOMAIN heap \subseteq Objs /\ IsFiniteSet(DOMAIN heap)
    BY DEF Memory, MemoryTypes
  <2>2. IsFiniteSet(DOMAIN heap \cup new)
    BY <2>1, <1>4, FS_Union, Zenon
  <2>3. QED  BY <2>1, <2>2, <1>4, <1>5
<1>7. MemoryTypes'
  BY <1>2, <1>6 DEF Memory, MemoryTypes
<1>8. /\ stage \in [Deltas -> {"none", "queued", "watched", "final"}]
      /\ \A j \in Deltas : stage'[j] = IF j = i THEN "queued" ELSE stage[j]
      /\ \A j \in Deltas : j < i => stage[j] # "none"
  <2>1. stage \in [Deltas -> {"none", "queued", "watched", "final"}]
    BY DEF Order, OrderTypes
  <2>2. Root \in Nat /\ \A j \in Deltas : j <= Root <=> stage[j] # "none"
    BY RootFacts DEF Order
  <2>3. \A j \in Deltas : j < i => j <= Root
    BY <1>1, <2>2, DeltaFacts
  <2>4. QED  BY <1>1, <2>1, <2>2, <2>3
<1>9. ObjectsOK'
  <2>1. ASSUME NEW o \in DOMAIN heap'
        PROVE  IF o[2] = 0 THEN stage'[o[1][1]] # "none" ELSE Open(o[1][1])'
    <3>1. CASE o \in DOMAIN heap
      <4>1. o[1][1] \in Deltas
        BY <3>1, ObjFacts DEF Memory, MemoryTypes
      <4>2. QED  BY <3>1, <4>1, StaysGood DEF Memory, ObjectsOK
    <3>2. CASE o \in new
      BY <3>2, <1>4, <1>8
    <3>3. QED  BY <3>1, <3>2, <1>5
  <2>2. ASSUME NEW n \in Nodes, stage'[n[1]] \in InTree PROVE <<n, 0>> \in DOMAIN heap'
    <3>1. CASE n[1] = i
      BY <3>1, <1>4, <1>5
    <3>2. CASE n[1] # i
      <4>1. stage[n[1]] \in InTree
        BY <3>2, <2>2, <1>8, NodeFacts
      <4>2. QED  BY <4>1, <1>5 DEF Memory, ObjectsOK
    <3>3. QED  BY <3>1, <3>2
  <2>3. QED  BY <2>1, <2>2 DEF ObjectsOK
<1>10. \A c \in Remote(i) :
          /\ addr[c] \in Addrs /\ Leads(addr[c], c)
          /\ IF ref[c] = NoRef THEN Open(c[1]) ELSE ref[c] \in DOMAIN heap /\ ref[c][1] = c
  <2> SUFFICES ASSUME NEW c \in Remote(i)
               PROVE  /\ addr[c] \in Addrs /\ Leads(addr[c], c)
                      /\ IF ref[c] = NoRef THEN Open(c[1]) ELSE ref[c] \in DOMAIN heap /\ ref[c][1] = c
    OBVIOUS
  <2>1. c \in Nodes /\ c[1] \in Deltas /\ c[1] \in Nat /\ c[1] < i
    BY RemoteFacts, DeltaFacts
  <2>2. \/ c[1] = 1 /\ addr[c] = <<"a", 2>>
        \/ addr[c] = <<"i", c[1]>>
        \/ c[1] # 1 /\ Converted(c[1]) /\ addr[c] = <<"a", pushed[c[1]]>>
    <3>1. addr[c] \in AddressesOf(c)
      BY <1>3
    <3>2. QED  BY <3>1 DEF AddressesOf
  <2>3. addr[c] \in Addrs /\ Leads(addr[c], c)
    <3>1. CASE c[1] = 1 /\ addr[c] = <<"a", 2>>
      BY <3>1, FirstIsGood DEF Addrs, Leads
    <3>2. CASE addr[c] = <<"i", c[1]>>
      BY <3>2, <2>1 DEF Addrs, Leads
    <3>3. CASE c[1] # 1 /\ Converted(c[1]) /\ addr[c] = <<"a", pushed[c[1]]>>
      <4>1. pushed[c[1]] # 0
        BY <2>1, <3>3 DEF Converted, Order, StagesInOrder, QueueOK
      <4>2. Good(pushed[c[1]], c[1])
        BY <4>1, <2>1, PushedIsGood
      <4>3. pushed[c[1]] \in Nat
        BY <2>1 DEF Order, OrderTypes
      <4>4. QED  BY <3>3, <4>2, <4>3 DEF Addrs, Leads
    <3>4. QED  BY <2>2, <3>1, <3>2, <3>3
  <2>4. CASE Objects(c) = {}
    <3>1. <<c, 0>> \notin DOMAIN heap
      BY <2>4 DEF Objects
    <3>2. Open(c[1])
      BY <3>1, <2>1, <1>8, GoneIsOpen
    <3>3. QED  BY <3>2, <2>3, <2>4, <1>3
  <2>5. CASE Objects(c) # {}
    <3>1. ref[c] \in DOMAIN heap /\ ref[c][1] = c
      BY <2>5, <1>3 DEF Objects
    <3>2. ref[c] # NoRef
      BY <3>1, EmptyIsNothing DEF Memory, MemoryTypes, NoRef
    <3>3. QED  BY <3>1, <3>2, <2>3
  <2>6. QED  BY <2>4, <2>5
<1>11. PointersOK'
  <2>1. ASSUME NEW o \in DOMAIN heap'
        PROVE  /\ heap'[o] \in [Kids[o[1]] -> Pointers]
               /\ \A c \in Kids[o[1]] :
                     /\ Leads(heap[o][c].addr, c)'
                     /\ IF heap'[o][c].ref = NoRef THEN Open(c[1])'
                        ELSE heap'[o][c].ref \in DOMAIN heap' /\ heap'[o][c].ref[1] = c
    <3>1. CASE o \in DOMAIN heap
      <4>1. heap'[o] = heap[o]
        BY <3>1, <1>3
      <4>2. heap'[o] \in [Kids[o[1]] -> Pointers]
        BY <3>1, <4>1 DEF Memory, PointersOK, GoodPointers
      <4>3. ASSUME NEW c \in Kids[o[1]]
            PROVE  /\ Leads(heap[o][c].addr, c)'
                   /\ IF heap'[o][c].ref = NoRef THEN Open(c[1])'
                      ELSE heap'[o][c].ref \in DOMAIN heap' /\ heap'[o][c].ref[1] = c
        <5>1. PICK p : p = heap[o][c]
          OBVIOUS
        <5>2. /\ Leads(p.addr, c)
              /\ IF p.ref = NoRef THEN Open(c[1]) ELSE p.ref \in DOMAIN heap /\ p.ref[1] = c
          BY <3>1, <5>1 DEF Memory, PointersOK, GoodPointers
        <5>3. heap'[o][c] = p
          BY <4>1, <5>1
        <5>4. Leads(p.addr, c)' /\ (p.ref = NoRef => Open(c[1])')
          BY <5>2, StaysGood
        <5>5. QED  BY <5>2, <5>3, <5>4, <1>5
      <4>4. QED  BY <4>2, <4>3
    <3>2. CASE o \in new /\ o \notin DOMAIN heap
      <4>1. o[1] \in Nodes /\ o[1][1] = i
        BY <3>2, <1>4
      <4>2. heap'[o] = [c \in Kids[o[1]] |->
                          IF c[1] = i THEN [ref |-> <<c, 0>>, addr |-> <<"i", i>>]
                          ELSE [ref |-> ref[c], addr |-> addr[c]]]
        BY <3>2, <1>3
      <4>3. ASSUME NEW c \in Kids[o[1]]
            PROVE  /\ heap'[o][c] \in Pointers
                   /\ Leads(heap[o][c].addr, c)'
                   /\ IF heap'[o][c].ref = NoRef THEN Open(c[1])'
                      ELSE heap'[o][c].ref \in DOMAIN heap' /\ heap'[o][c].ref[1] = c
        <5>1. c \in Nodes
          BY <4>1, NodeFacts
        <5>2. CASE c[1] = i
          <6>1. heap'[o][c] = [ref |-> <<c, 0>>, addr |-> <<"i", i>>]
            BY <4>2, <5>2
          <6>2. heap'[o][c].ref = <<c, 0>> /\ heap'[o][c].addr = <<"i", i>>
            BY <6>1
          <6>3. <<c, 0>> \in new /\ <<c, 0>> \in Objs /\ <<"i", i>> \in Addrs
            BY <5>1, <5>2, <1>4, DeltaFacts DEF Addrs
          <6>4. <<c, 0>> # NoRef
            BY <6>3, EmptyIsNothing DEF NoRef
          <6>5. heap'[o][c] \in Pointers
            BY <6>1, <6>3 DEF Pointers
          <6>6. Leads(heap[o][c].addr, c)'
            BY <6>2, <5>2 DEF Leads
          <6>7. QED  BY <6>2, <6>3, <6>4, <6>5, <6>6, <1>5
        <5>3. CASE c[1] # i
          <6>1. heap'[o][c] = [ref |-> ref[c], addr |-> addr[c]]
            BY <4>2, <5>3
          <6>2. heap'[o][c].ref = ref[c] /\ heap'[o][c].addr = addr[c]
            BY <6>1
          <6>3. c \in Remote(i)
            BY <4>1, <5>3, RemoteFacts
          <6>4. /\ addr[c] \in Addrs /\ Leads(addr[c], c)
                /\ IF ref[c] = NoRef THEN Open(c[1]) ELSE ref[c] \in DOMAIN heap /\ ref[c][1] = c
            BY <6>3, <1>10
          <6>5. ref[c] \in Objs \cup {NoRef}
            BY <6>4 DEF Memory, MemoryTypes
          <6>6. heap'[o][c] \in Pointers
            BY <6>1, <6>4, <6>5 DEF Pointers
          <6>7. Leads(addr[c], c)' /\ (ref[c] = NoRef => Open(c[1])')
            BY <6>4, StaysGood
          <6>8. QED  BY <6>2, <6>4, <6>6, <6>7, <1>5
        <5>4. QED  BY <5>2, <5>3
      <4>4. heap'[o] \in [Kids[o[1]] -> Pointers]
        <5>1. \A c \in Kids[o[1]] : heap'[o][c] \in Pointers
          BY <4>3
        <5>2. QED  BY <4>2, <5>1
      <4>5. QED  BY <4>3, <4>4
    <3>3. QED  BY <3>1, <3>2, <1>5
  <2>2. QED  BY <2>1 DEF PointersOK, GoodPointers
<1>12. ImagesOK' /\ ImapOK'
  BY <1>2, KeepImages, KeepImap
<1>13. CacheOK' /\ ReadersOK' /\ FailedOK'
  BY <1>2, <1>5, SameFin, KeepRest
<1>14. QED  BY <1>7, <1>9, <1>11, <1>12, <1>13 DEF Memory

\* Looking up leaves what is in the index.
LEMMA UsedFacts ==
    ASSUME MemoryTypes, NEW S, NEW s \in Used(S)
    PROVE  /\ s \in Seq([of : Deltas, pos : Nat])
           /\ \A k \in DOMAIN s : \E l \in DOMAIN imap : s[k] = imap[l]
<1> DEFINE E == [of : Deltas, pos : Nat]
<1>1. imap \in Seq(E)
  BY DEF MemoryTypes
<1>2. s \in [DOMAIN imap -> Range(imap)]
  BY DEF Used
<1>3. Range(imap) = {imap[l] : l \in DOMAIN imap}
  BY DEF Range
<1>4. \A k \in DOMAIN s : \E l \in DOMAIN imap : s[k] = imap[l]
  BY <1>2, <1>3
<1> HIDE DEF E
<1>5. DOMAIN imap = 1..Len(imap) /\ Len(imap) \in Nat /\ \A l \in DOMAIN imap : imap[l] \in E
  BY <1>1, LenProperties, ElementOfSeq
<1>6. s \in [1..Len(imap) -> E]
  BY <1>2, <1>3, <1>5
<1>7. \A m \in Nat : \A f \in [1..m -> E] : f \in Seq(E)
  BY FunctionSeq
<1>8. QED  BY <1>4, <1>5, <1>6, <1>7 DEF E

\* A lookup keeps what is said of the entries of the index.
LEMMA UsedImap ==
    ASSUME Order, Memory, [Next]_vars, NEW S, imap' \in Used(S)
    PROVE  imap' \in Seq([of : Deltas, pos : Nat]) /\ ImapOK'
<1>1. PICK s \in Used(S) : s = imap'
  OBVIOUS
<1>2. /\ s \in Seq([of : Deltas, pos : Nat])
      /\ \A k \in DOMAIN s : \E l \in DOMAIN imap : s[k] = imap[l]
  BY UsedFacts DEF Memory
<1>3. \A k \in DOMAIN s : Good(s[k].pos, s[k].of)
  BY <1>2 DEF Memory, ImapOK
<1>4. \A k \in DOMAIN s : Good(s[k].pos, s[k].of)'
  BY <1>3, StaysGood
<1>5. QED  BY <1>1, <1>2, <1>4 DEF ImapOK

\* The writer serializes a tree.
LEMMA SerializeMemory ==
    ASSUME Order, Memory, [Next]_vars, Serialize
    PROVE  Memory'
<1>1. PICK i \in Deltas : SerializeTree(i)
  BY DEF Serialize
<1>2. /\ stage[i] = "queued" /\ stage' = [stage EXCEPT ![i] = "watched"]
      /\ UNCHANGED <<log, heap, cache, reader, failed, fin>>
  BY <1>1 DEF SerializeTree, controlVars
<1>3. PICK S : imap' \in Used(S)
  BY <1>1 DEF SerializeTree
<1>4. imap' \in Seq([of : Deltas, pos : Nat]) /\ ImapOK'
  BY <1>3, UsedImap
<1>5. stage \in [Deltas -> {"none", "queued", "watched", "final"}]
  BY DEF Order, OrderTypes
<1>6. \A j \in Deltas : stage'[j] \in InTree => stage[j] \in InTree
  BY <1>2, <1>5 DEF InTree
<1>7. ObjectsOK' /\ PointersOK'
  BY <1>2, <1>6, KeepHeap
<1>8. CacheOK' /\ ReadersOK' /\ FailedOK'
  BY <1>2, SameFin, KeepRest
<1>9. ImagesOK'
  <2>1. PICK x : x = image'
    OBVIOUS
  <2>2. x.of = i /\ DOMAIN x.ptr = Remote(i) /\ \A c \in Remote(i) : Leads(x.ptr[c], c)
    BY <2>1, <1>1, SerializedImage
  <2>3. \A c \in Remote(i) : Leads(x.ptr[c], c)'
    BY <2>2, StaysGood
  <2>4. \A p \in DOMAIN log : log[p].type = "afterimage" =>
          /\ DOMAIN log[p].ptr = Remote(log[p].of)
          /\ \A c \in Remote(log[p].of) : Leads(log[p].ptr[c], c)
    BY DEF Memory, ImagesOK
  <2>5. ASSUME NEW p \in DOMAIN log', log'[p].type = "afterimage"
        PROVE  /\ DOMAIN log'[p].ptr = Remote(log'[p].of)
               /\ \A c \in Remote(log'[p].of) : Leads(log[p].ptr[c], c)'
    <3>1. PICK e : e = log[p]
      OBVIOUS
    <3>2. log'[p] = e /\ p \in DOMAIN log
      BY <3>1, <1>2
    <3>3. DOMAIN e.ptr = Remote(e.of) /\ \A c \in Remote(e.of) : Leads(e.ptr[c], c)
      BY <3>1, <3>2, <2>4, <2>5
    <3>4. QED  BY <3>2, <3>3, StaysGood
  <2>6. QED  BY <2>1, <2>2, <2>3, <2>5 DEF ImagesOK
<1>10. MemoryTypes'
  BY <1>2, <1>4 DEF Memory, MemoryTypes
<1>11. QED  BY <1>4, <1>7, <1>8, <1>9, <1>10 DEF Memory

\* The log grows by an after-image with pointers that lead to their nodes.
LEMMA GrowMemory ==
    ASSUME Order, Memory, [Next]_vars, NEW d \in Deltas, NEW ptr \in Ptrs,
           log' = Append(log, AfterImage(d, ptr)),
           DOMAIN ptr = Remote(d), \A c \in Remote(d) : Leads(ptr[c], c),
           image' = <<>> \/ image' = image,
           UNCHANGED <<heap, cache, imap, reader, failed, fin, stage>>
    PROVE  Memory'
<1>1. /\ DOMAIN log' = DOMAIN log \cup {Len(log) + 1}
      /\ \A p \in DOMAIN log : log'[p] = log[p]
      /\ log'[Len(log) + 1] = AfterImage(d, ptr)
  BY AppendImageFacts DEF Order
<1>2. ASSUME NEW p \in DOMAIN log', log'[p].type = "afterimage"
      PROVE  /\ DOMAIN log'[p].ptr = Remote(log'[p].of)
             /\ \A c \in Remote(log'[p].of) : Leads(log[p].ptr[c], c)'
  <2>1. PICK e : e = log'[p]
    OBVIOUS
  <2>2. DOMAIN e.ptr = Remote(e.of) /\ \A c \in Remote(e.of) : Leads(e.ptr[c], c)
    <3>1. CASE p \in DOMAIN log
      BY <3>1, <2>1, <1>1, <1>2 DEF Memory, ImagesOK
    <3>2. CASE p = Len(log) + 1
      <4>1. e.of = d /\ e.ptr = ptr
        BY <3>2, <2>1, <1>1 DEF AfterImage
      <4>2. QED  BY <4>1
    <3>3. QED  BY <3>1, <3>2, <1>1
  <2>3. QED  BY <2>1, <2>2, StaysGood
<1>3. image' # <<>> =>
         /\ DOMAIN image'.ptr = Remote(image'.of)
         /\ \A c \in Remote(image'.of) : Leads(image.ptr[c], c)'
  <2> SUFFICES ASSUME image' # <<>>
               PROVE  /\ DOMAIN image'.ptr = Remote(image'.of)
                      /\ \A c \in Remote(image'.of) : Leads(image.ptr[c], c)'
    OBVIOUS
  <2>1. PICK x : x = image
    OBVIOUS
  <2>2. image' = x
    BY <2>1
  <2>3. DOMAIN x.ptr = Remote(x.of) /\ \A c \in Remote(x.of) : Leads(x.ptr[c], c)
    BY <2>1, <2>2 DEF Memory, ImagesOK
  <2>4. QED  BY <2>2, <2>3, StaysGood
<1>4. ImagesOK'
  BY <1>2, <1>3 DEF ImagesOK
<1>5. QED  BY <1>4, MemorySame

\* The writer appends its after-image.
LEMMA AppendImageMemory ==
    ASSUME Order, Memory, [Next]_vars, AppendImage
    PROVE  Memory'
<1>1. /\ image # <<>> /\ log' = Append(log, AfterImage(image.of, image.ptr)) /\ image' = <<>>
      /\ UNCHANGED <<heap, cache, imap, reader, failed, fin, stage>>
  BY DEF AppendImage, controlVars
<1>2. image \in [of : Deltas, ptr : Ptrs]
  BY <1>1 DEF Order, OrderTypes
<1>3. PICK d \in Deltas, ptr \in Ptrs : d = image.of /\ ptr = image.ptr
  BY <1>2
<1>4. DOMAIN ptr = Remote(d) /\ \A c \in Remote(d) : Leads(ptr[c], c)
  BY <1>1, <1>3 DEF Memory, ImagesOK
<1>5. log' = Append(log, AfterImage(d, ptr))
  BY <1>1, <1>3
<1>6. QED  BY <1>1, <1>4, <1>5, GrowMemory

\* Another instance appends one.
LEMMA OtherImageMemory ==
    ASSUME Order, Memory, [Next]_vars, OtherImage
    PROVE  Memory'
<1>1. UNCHANGED <<heap, cache, imap, reader, failed, fin, stage, image>>
  BY DEF OtherImage
<1>2. PICK d \in Deltas :
         log' = Append(log, AfterImage(d,
                   [c \in Remote(d) |-> IF c[1] = 1 THEN <<"a", 2>> ELSE <<"i", c[1]>>]))
  BY DEF OtherImage
<1>3. PICK ptr \in Ptrs : ptr = [c \in Remote(d) |-> IF c[1] = 1 THEN <<"a", 2>> ELSE <<"i", c[1]>>]
  BY OtherPtr
<1>4. \A c \in Remote(d) : Leads(ptr[c], c)
  BY <1>3, FirstIsGood DEF Leads
<1>5. DOMAIN ptr = Remote(d)
  BY <1>3
<1>6. log' = Append(log, AfterImage(d, ptr))
  BY <1>2, <1>3
<1>7. QED  BY <1>1, <1>4, <1>5, <1>6, GrowMemory

\* The finalizer converts the addresses of the pointers into its delta.
LEMMA FinalizerConvertsMemory ==
    ASSUME Order, Memory, [Next]_vars, FinalizerConverts
    PROVE  Memory'
<1>1. /\ fin.pc = "idle" /\ matched # <<>>
      /\ UNCHANGED <<log, stage, image, cache, imap, reader>>
  BY DEF FinalizerConverts
<1>2. matched \in Seq(Deltas) /\ pushed \in [Deltas -> Nat]
  BY DEF Order, OrderTypes
<1>3. Head(matched) \in Deltas /\ Head(matched) = matched[1] /\ 1 \in DOMAIN matched
  BY <1>1, <1>2, TailFacts
<1>4. PICK i \in Deltas, pos \in Nat : i = Head(matched) /\ pos = pushed[i]
  BY <1>2, <1>3
<1>5. /\ heap' = [o \in DOMAIN heap |->
                    IF o[1][1] # i \/ o[2] # 0 THEN heap[o]
                    ELSE [c \in DOMAIN heap[o] |->
                            IF c[1] = i THEN [heap[o][c] EXCEPT !.addr = <<"a", pos>>]
                            ELSE heap[o][c]]]
      /\ failed' = (failed \/ \E k \in Intentions(log, i) : pos <= k)
  BY <1>4 DEF FinalizerConverts
<1>6. pushed[i] # 0
  BY <1>3, <1>4 DEF Order, QueueOK
<1>7. Good(pos, i) /\ i # 1 /\ pos \in Images(i)
  BY <1>4, <1>6, PushedIsGood DEF Order, PushedOK
<1>8. DOMAIN heap' = DOMAIN heap
  BY <1>5
<1>9. \A k \in Intentions(log, i) : ~(pos <= k)
  <2> SUFFICES ASSUME NEW k \in Intentions(log, i) PROVE ~(pos <= k)
    OBVIOUS
  <2>1. k \in DOMAIN log /\ log[k].type = "intention"
    BY DEF Intentions, Intention
  <2>2. pos \in DOMAIN log /\ log[pos].type = "afterimage" /\ log[pos].of = i
    BY <1>7 DEF Images
  <2>3. pos > First /\ ~(k > First)
    BY <2>1, <2>2, <1>7 DEF Order, LogShape
  <2>4. k \in Nat /\ First \in Nat
    BY <2>1, ImagesFacts, DeltaFacts DEF Order
  <2>5. QED  BY <2>3, <2>4
<1>10. failed' = failed
  BY <1>5, <1>9 DEF Memory, MemoryTypes
<1>11. ASSUME NEW o \in DOMAIN heap
       PROVE  /\ heap'[o] \in [Kids[o[1]] -> Pointers]
              /\ \A c \in Kids[o[1]] :
                    /\ Leads(heap[o][c].addr, c)'
                    /\ IF heap'[o][c].ref = NoRef THEN Open(c[1])'
                       ELSE heap'[o][c].ref \in DOMAIN heap' /\ heap'[o][c].ref[1] = c
  <2>1. /\ heap[o] \in [Kids[o[1]] -> Pointers] /\ DOMAIN heap[o] = Kids[o[1]]
        /\ \A c \in Kids[o[1]] :
              /\ Leads(heap[o][c].addr, c)
              /\ IF heap[o][c].ref = NoRef THEN Open(c[1])
                 ELSE heap[o][c].ref \in DOMAIN heap /\ heap[o][c].ref[1] = c
    BY DEF Memory, PointersOK, GoodPointers
  <2>2. ASSUME NEW c \in Kids[o[1]]
        PROVE  /\ heap'[o][c] \in Pointers
               /\ heap'[o][c].ref = heap[o][c].ref
               /\ \/ heap'[o][c].addr = heap[o][c].addr
                  \/ c[1] = i /\ heap'[o][c].addr = <<"a", pos>>
    <3>1. heap[o][c] \in Pointers
      BY <2>1
    <3>2. CASE heap'[o][c] = heap[o][c]
      BY <3>1, <3>2
    <3>3. CASE c[1] = i /\ heap'[o][c] = [heap[o][c] EXCEPT !.addr = <<"a", pos>>]
      <4>1. <<"a", pos>> \in Addrs
        BY DEF Addrs
      <4>2. QED  BY <4>1, <3>1, <3>3 DEF Pointers
    <3>4. QED  BY <3>2, <3>3, <2>1, <1>5
  <2>3. heap'[o] \in [Kids[o[1]] -> Pointers]
    <3>1. heap'[o] = heap[o] \/ heap'[o] = [c \in DOMAIN heap[o] |->
                            IF c[1] = i THEN [heap[o][c] EXCEPT !.addr = <<"a", pos>>]
                            ELSE heap[o][c]]
      BY <1>5
    <3>2. \A c \in Kids[o[1]] : heap'[o][c] \in Pointers
      BY <2>2
    <3>3. QED  BY <3>1, <3>2, <2>1
  <2>4. ASSUME NEW c \in Kids[o[1]]
        PROVE  /\ Leads(heap[o][c].addr, c)'
               /\ IF heap'[o][c].ref = NoRef THEN Open(c[1])'
                  ELSE heap'[o][c].ref \in DOMAIN heap' /\ heap'[o][c].ref[1] = c
    <3>1. PICK a, p : a = heap'[o][c].addr /\ p = heap[o][c].ref
      OBVIOUS
    <3>2. Leads(a, c)
      <4>1. CASE a = heap[o][c].addr
        BY <4>1, <2>1
      <4>2. CASE c[1] = i /\ a = <<"a", pos>>
        BY <4>2, <1>7 DEF Leads
      <4>3. QED  BY <4>1, <4>2, <2>2, <3>1
    <3>3. Leads(a, c)' /\ (p = NoRef => Open(c[1])')
      BY <3>1, <3>2, <2>1, StaysGood
    <3>4. QED  BY <3>1, <3>3, <2>1, <2>2, <1>8
  <2>5. QED  BY <2>3, <2>4
<1>12. PointersOK'
  BY <1>8, <1>11 DEF PointersOK, GoodPointers
<1>13. ObjectsOK'
  <2>1. ASSUME NEW o \in DOMAIN heap
        PROVE  IF o[2] = 0 THEN stage'[o[1][1]] # "none" ELSE Open(o[1][1])'
    <3>1. IF o[2] = 0 THEN stage[o[1][1]] # "none" ELSE Open(o[1][1])
      BY DEF Memory, ObjectsOK
    <3>2. QED  BY <3>1, <1>1, StaysGood
  <2>2. \A n \in Nodes : stage'[n[1]] \in InTree => <<n, 0>> \in DOMAIN heap'
    BY <1>1, <1>8 DEF Memory, ObjectsOK
  <2>3. QED  BY <2>1, <2>2, <1>8 DEF ObjectsOK
<1>14. ImagesOK' /\ ImapOK'
  BY <1>1, KeepImages, KeepImap
<1>15. CacheOK' /\ ReadersOK' /\ FailedOK'
  <2>1. \A j \in Deltas : ~Finalizing(j)
    BY <1>1 DEF Finalizing
  <2>2. QED  BY <2>1, <1>1, <1>8, <1>10, KeepRest
<1>16. MemoryTypes'
  BY <1>1, <1>8, <1>10 DEF Memory, MemoryTypes
<1>17. QED  BY <1>12, <1>13, <1>14, <1>15, <1>16 DEF Memory

\* An entry is added to the index, which may lose another.
LEMMA InsertedFacts ==
    ASSUME MemoryTypes, NEW i \in Deltas, NEW pos \in Nat
    PROVE  /\ Inserted(i, pos) \in Seq([of : Deltas, pos : Nat])
           /\ \A k \in DOMAIN Inserted(i, pos) :
                 \/ Inserted(i, pos)[k] = [of |-> i, pos |-> pos]
                 \/ \E l \in DOMAIN imap : Inserted(i, pos)[k] = imap[l]
<1> DEFINE E == [of : Deltas, pos : Nat]
           e == [of |-> i, pos |-> pos]
           rest == IF Len(imap) >= ImapSize THEN Front(imap) ELSE imap
<1>1. imap \in Seq(E) /\ e \in E
  BY DEF MemoryTypes
<1>2. ImapSize \in Nat \ {0}
  BY NodeCacheAssumption
<1> HIDE DEF E
<1>3. /\ DOMAIN imap = 1..Len(imap) /\ Len(imap) \in Nat
  BY <1>1, LenProperties
<1>4. rest \in Seq(E) /\ \A k \in DOMAIN rest : k \in DOMAIN imap /\ rest[k] = imap[k]
  <2>1. CASE Len(imap) >= ImapSize
    <3>1. rest = SubSeq(imap, 1, Len(imap) - 1)
      BY <2>1 DEF Front
    <3>2. Len(imap) - 1 \in Nat
      BY <2>1, <1>2, <1>3
    <3>3. /\ SubSeq(imap, 1, Len(imap) - 1) \in Seq(E)
          /\ DOMAIN SubSeq(imap, 1, Len(imap) - 1) = 1..(Len(imap) - 1)
          /\ \A k \in 1..(Len(imap) - 1) : SubSeq(imap, 1, Len(imap) - 1)[k] = imap[k]
      BY <3>2, <1>1, <1>3
    <3>4. QED  BY <3>1, <3>2, <3>3, <1>3
  <2>2. CASE ~(Len(imap) >= ImapSize)
    BY <2>2, <1>1
  <2>3. QED  BY <2>1, <2>2
<1> HIDE DEF rest
<1>5. CASE Mapped(i)
  BY <1>5, <1>1 DEF Inserted, E
<1>6. CASE ~Mapped(i)
  <2>1. Inserted(i, pos) = <<e>> \o rest
    BY <1>6 DEF Inserted, rest
  <2>2. <<e>> \in Seq(E) /\ Len(<<e>>) = 1 /\ <<e>>[1] = e
    BY <1>1
  <2> HIDE DEF e
  <2>3. /\ <<e>> \o rest \in Seq(E)
        /\ Len(<<e>> \o rest) = 1 + Len(rest)
        /\ \A k \in 1..(1 + Len(rest)) : (<<e>> \o rest)[k] = IF k <= 1 THEN <<e>>[k] ELSE rest[k - 1]
    BY <2>2, <1>4, ConcatProperties
  <2>4. DOMAIN rest = 1..Len(rest) /\ Len(rest) \in Nat /\ DOMAIN (<<e>> \o rest) = 1..(1 + Len(rest))
    BY <2>3, <1>4, LenProperties
  <2>5. ASSUME NEW k \in DOMAIN (<<e>> \o rest)
        PROVE  (<<e>> \o rest)[k] = e \/ \E l \in DOMAIN imap : (<<e>> \o rest)[k] = imap[l]
    <3>1. CASE k = 1
      BY <3>1, <2>2, <2>3, <2>4
    <3>2. CASE k # 1
      <4>1. k - 1 \in DOMAIN rest /\ ~(k <= 1) /\ k \in 1..(1 + Len(rest))
        BY <3>2, <2>4
      <4>2. (<<e>> \o rest)[k] = rest[k - 1]
        BY <4>1, <2>3
      <4>3. QED  BY <4>1, <4>2, <1>4
    <3>3. QED  BY <3>1, <3>2
  <2>6. QED  BY <2>1, <2>3, <2>5 DEF E, e
<1>7. QED  BY <1>5, <1>6

\* The finalizer records where the after-image is.
LEMMA FinalizerMapsMemory ==
    ASSUME Order, Memory, [Next]_vars, FinalizerMaps
    PROVE  Memory'
<1>1. /\ fin.pc = "map" /\ fin' = [fin EXCEPT !.pc = "apply"]
      /\ imap' = Inserted(fin.of, fin.pos)
      /\ UNCHANGED <<log, image, stage, heap, cache, reader, failed>>
  BY DEF FinalizerMaps, treeVars, controlVars
<1>2. fin \in [pc : {"idle", "map", "apply"}, of : Nat, pos : Nat, idx : Nat]
  BY DEF Order, OrderTypes
<1>3. fin.of \in Deltas /\ fin.pos = pushed[fin.of] /\ fin.pos # 0
  BY <1>1 DEF Order, QueueOK
<1>4. PICK i \in Deltas, pos \in Nat : i = fin.of /\ pos = fin.pos
  BY <1>2, <1>3
<1>5. Good(pos, i)
  BY <1>3, <1>4, PushedIsGood
<1>6. PICK s : s = imap'
  OBVIOUS
<1>7. /\ s \in Seq([of : Deltas, pos : Nat])
      /\ \A k \in DOMAIN s : s[k] = [of |-> i, pos |-> pos] \/ \E l \in DOMAIN imap : s[k] = imap[l]
  BY <1>1, <1>4, <1>6, InsertedFacts DEF Memory
<1>8. \A k \in DOMAIN s : Good(s[k].pos, s[k].of)
  BY <1>5, <1>7 DEF Memory, ImapOK
<1>9. ImapOK' /\ imap' \in Seq([of : Deltas, pos : Nat])
  BY <1>6, <1>7, <1>8, StaysGood DEF ImapOK
<1>10. ObjectsOK' /\ PointersOK'
  BY <1>1, KeepHeap
<1>11. CacheOK' /\ ReadersOK' /\ FailedOK'
  <2>1. fin'.pc = "apply" /\ fin'.of = fin.of /\ fin'.idx = fin.idx /\ fin.idx \in Nat
    BY <1>1, <1>2
  <2>2. \A j \in Deltas : Finalizing(j) => Open(j)' \/ (Finalizing(j)' /\ fin.idx <= fin'.idx)
    BY <2>1, <1>1 DEF Finalizing
  <2>3. QED  BY <2>2, <1>1, KeepRest
<1>12. ImagesOK'
  BY <1>1, KeepImages
<1>13. MemoryTypes'
  BY <1>1, <1>9 DEF Memory, MemoryTypes
<1>14. QED  BY <1>9, <1>10, <1>11, <1>12, <1>13 DEF Memory

\* The finalizer hands a node to the cache.  If the node is there, another thread has
\* read it from the log although its tree was waiting, which takes a later tree that
\* was finalized before: the scanner has missed an after-image.
LEMMA FinalizerAppliesMemory ==
    ASSUME Order, Memory, [Next]_vars, FinalizerApplies
    PROVE  Memory'
<1>1. fin.pc = "apply" /\ UNCHANGED <<log, image, imap, reader, pushed, scanned>>
  BY DEF FinalizerApplies
<1>2. /\ fin \in [pc : {"idle", "map", "apply"}, of : Nat, pos : Nat, idx : Nat]
      /\ stage \in [Deltas -> {"none", "queued", "watched", "final"}]
  BY DEF Order, OrderTypes
<1>3. /\ fin.of \in Deltas /\ stage[fin.of] = "watched"
      /\ fin.pos = pushed[fin.of] /\ fin.pos # 0 /\ fin.idx < Sizes[fin.of]
  BY <1>1 DEF Order, QueueOK
<1>4. PICK d \in Deltas, pos \in Nat, idx \in Nat : d = fin.of /\ pos = fin.pos /\ idx = fin.idx
  BY <1>2, <1>3
<1> DEFINE key  == <<pos, idx>>
           obj  == <<<<d, idx>>, 0>>
           last == idx = Sizes[d] - 1
<1>5. /\ failed' = (failed \/ key \in DOMAIN cache)
      /\ cache' = IF key \in DOMAIN cache THEN cache ELSE With(cache, key, obj)
      /\ fin' = IF last THEN [pc |-> "idle", of |-> 0, pos |-> 0, idx |-> 0]
                ELSE [fin EXCEPT !.idx = @ + 1]
      /\ stage' = IF last THEN [stage EXCEPT ![d] = "final"] ELSE stage
      /\ heap' = Sweep(heap, Held(cache', reader', stage'))
  BY <1>4 DEF FinalizerApplies
<1>6. Good(pos, d) /\ d # 1 /\ d \in Nat /\ Sizes[d] \in Nat
  BY <1>3, <1>4, PushedIsGood, DeltaFacts DEF Order, PushedOK
<1>7. <<d, idx>> \in Nodes /\ obj \in DOMAIN heap
  <2>1. idx \in 0..(Sizes[d] - 1)
    BY <1>3, <1>4, <1>6
  <2>2. <<d, idx>> \in Nodes
    BY <2>1, NodeFacts
  <2>3. stage[<<d, idx>>[1]] \in InTree
    BY <1>3, <1>4 DEF InTree
  <2>4. QED  BY <2>2, <2>3 DEF Memory, ObjectsOK
<1>8. /\ \A j \in Deltas : stage'[j] \in InTree => stage[j] \in InTree
      /\ \A j \in Deltas : stage[j] # "none" /\ stage'[j] \notin InTree => Open(j)'
      /\ last => Open(d)'
  <2>1. CASE last
    <3>1. \A j \in Deltas : stage'[j] = IF j = d THEN "final" ELSE stage[j]
      BY <2>1, <1>2, <1>5
    <3>2. \A j \in Deltas : stage'[j] = "final" => Open(j)'
      BY DeltaFacts DEF Open
    <3>3. QED  BY <2>1, <3>1, <3>2, <1>2 DEF InTree
  <2>2. CASE ~last
    <3>1. stage' = stage
      BY <2>2, <1>5
    <3>2. \A j \in Deltas : stage'[j] = "final" => Open(j)'
      BY DeltaFacts DEF Open
    <3>3. QED  BY <2>2, <3>1, <3>2, <1>2 DEF InTree
  <2>3. QED  BY <2>1, <2>2
<1>9. /\ DOMAIN cache' \subseteq DOMAIN cache \cup {key}
      /\ \A k \in DOMAIN cache' : IF k \in DOMAIN cache THEN cache'[k] = cache[k] ELSE k = key /\ cache'[k] = obj
  <2> HIDE DEF key, obj
  <2>1. QED  BY <1>5 DEF With
<1>10. \A k \in DOMAIN cache' : cache'[k] \in DOMAIN heap
  BY <1>7, <1>9 DEF Memory, CacheOK
<1>11. \A r \in Readers : /\ reader'[r].obj # NoObj => reader'[r].obj \in DOMAIN heap
                          /\ reader'[r].got # NoObj => reader'[r].got \in DOMAIN heap
  BY <1>1 DEF Memory, ReadersOK, ReaderOK
<1> HIDE DEF key, obj, last
<1>12. /\ DOMAIN heap' \subseteq Objs /\ IsFiniteSet(DOMAIN heap')
       /\ ObjectsOK' /\ PointersOK'
       /\ \A k \in DOMAIN cache' : cache'[k] \in DOMAIN heap'
       /\ \A r \in Readers : reader'[r].obj # NoObj => reader'[r].obj \in DOMAIN heap'
       /\ \A r \in Readers : reader'[r].got # NoObj => reader'[r].got \in DOMAIN heap'
  <2>1. PICK h : h = heap
    OBVIOUS
  <2>2. DOMAIN h = DOMAIN heap /\ GoodPointers(h) /\ heap' = Sweep(h, Held(cache', reader', stage'))
    BY <2>1, <1>5 DEF Memory, PointersOK
  <2>3. QED  BY <2>2, <1>8, <1>10, <1>11, SweepFacts
<1>13. ~last => fin'.pc = "apply" /\ fin'.of = d /\ fin'.idx = idx + 1
  BY <1>1, <1>2, <1>4, <1>5
<1>14. CacheOK'
  <2> SUFFICES ASSUME NEW k \in DOMAIN cache'
               PROVE  (/\ cache[k] \in DOMAIN heap
                       /\ k[2] = cache[k][1][2]
                       /\ Good(k[1], cache[k][1][1])
                       /\ Open(cache[k][1][1]) \/ (Finalizing(cache[k][1][1]) /\ k[2] < fin.idx))'
    BY DEF CacheOK
  <2>1. PICK x : x = cache'[k]
    OBVIOUS
  <2>2. x \in DOMAIN heap' /\ x \in DOMAIN heap
    BY <2>1, <1>10, <1>12
  <2>3. x[1] \in Nodes /\ x[1][1] \in Deltas /\ x[1][2] \in Nat
    BY <2>2, ObjFacts, NodeFacts DEF Memory, MemoryTypes
  <2>4. CASE k \in DOMAIN cache
    <3>1. /\ k[2] = x[1][2] /\ Good(k[1], x[1][1])
          /\ Open(x[1][1]) \/ (Finalizing(x[1][1]) /\ k[2] < fin.idx)
      BY <2>1, <2>4, <1>9 DEF Memory, CacheOK
    <3>2. Good(k[1], x[1][1])'
      BY <3>1, StaysGood
    <3>3. Open(x[1][1])' \/ (Finalizing(x[1][1])' /\ k[2] < fin'.idx)
      <4>1. CASE Open(x[1][1])
        BY <4>1, StaysGood
      <4>2. CASE Finalizing(x[1][1]) /\ k[2] < fin.idx
        <5>1. x[1][1] = d /\ k[2] < idx
          BY <4>2, <1>4 DEF Finalizing
        <5>2. CASE last
          BY <5>1, <5>2, <1>8
        <5>3. CASE ~last
          <6>1. k[2] \in Nat /\ k[2] < idx + 1
            BY <5>1, <3>1, <2>3
          <6>2. QED  BY <5>1, <5>3, <6>1, <1>13 DEF Finalizing
        <5>4. QED  BY <5>2, <5>3
      <4>3. QED  BY <4>1, <4>2, <3>1
    <3>4. QED  BY <2>1, <2>2, <3>1, <3>2, <3>3
  <2>5. CASE k \notin DOMAIN cache
    <3>1. k = key /\ x = obj
      BY <2>1, <2>5, <1>9
    <3>2. k[1] = pos /\ k[2] = idx /\ x[1][1] = d /\ x[1][2] = idx
      BY <3>1 DEF key, obj
    <3>3. Good(pos, d)'
      BY <1>6, StaysGood
    <3>4. Open(d)' \/ (Finalizing(d)' /\ idx < fin'.idx)
      <4>1. CASE last
        BY <4>1, <1>8
      <4>2. CASE ~last
        BY <4>2, <1>13 DEF Finalizing
      <4>3. QED  BY <4>1, <4>2
    <3>5. QED  BY <2>1, <2>2, <3>2, <3>3, <3>4
  <2>6. QED  BY <2>4, <2>5
<1>15. ReadersOK'
  <2>1. ASSUME NEW r \in Readers PROVE ReaderOK(r)'
    BY <1>1, <1>12, KeepReader
  <2>2. QED  BY <2>1 DEF ReadersOK
<1>16. FailedOK'
  <2>1. CASE failed' = failed
    BY <2>1, KeepFailed
  <2>2. CASE key \in DOMAIN cache
    <3>1. PICK x : x = cache[key]
      OBVIOUS
    <3>2. /\ x \in DOMAIN heap /\ key[2] = x[1][2] /\ Good(key[1], x[1][1])
          /\ Open(x[1][1]) \/ (Finalizing(x[1][1]) /\ key[2] < fin.idx)
      BY <2>2, <3>1 DEF Memory, CacheOK
    <3>3. key[1] = pos /\ key[2] = idx
      BY DEF key
    <3>4. x[1][1] = d
      BY <3>2, <3>3, <1>6 DEF Good, Images
    <3>5. Open(d)
      BY <3>2, <3>3, <3>4, <1>4
    <3>6. PICK j \in Deltas : d <= j /\ stage[j] = "final"
      BY <3>5, <1>6 DEF Open
    <3>7. 1 < d /\ d < j
      BY <3>6, <1>3, <1>4, <1>6, DeltaFacts
    <3>8. Missed(d)
      BY <3>6, <3>7, <1>3, <1>4 DEF Order, FinalizedInOrder
    <3>9. pushed'[d] # 0 /\ Missed(d)'
      BY <3>8, <1>3, <1>4, StaysGood
    <3>10. QED  BY <3>9, <1>6 DEF FailedOK
  <2>3. QED  BY <2>1, <2>2, <1>5 DEF Memory, MemoryTypes
<1>17. ImagesOK' /\ ImapOK'
  BY <1>1, KeepImages, KeepImap
<1>18. MemoryTypes'
  <2>1. DOMAIN cache' \subseteq Nat \X Nat
    BY <1>9 DEF Memory, MemoryTypes, key
  <2>2. failed' \in BOOLEAN
    BY <1>5
  <2>3. QED  BY <2>1, <2>2, <1>1, <1>12 DEF Memory, MemoryTypes
<1>19. QED  BY <1>12, <1>14, <1>15, <1>16, <1>17, <1>18 DEF Memory

-----------------------------------------------------------------------------
(* Threads that follow pointers. *)

\* What a thread has while it fetches.
LEMMA ThreadFacts ==
    ASSUME Order, Memory, NEW r \in Readers
    PROVE  reader[r] \in ThreadStates /\ ReaderOK(r)
BY DEF Memory, MemoryTypes, ReadersOK

\* A thread between two walks.
LEMMA RestingFacts ==
    Resting \in ThreadStates /\ Resting.pc = "idle" /\ Resting.obj = NoObj /\ Resting.got = NoObj
BY DEF Resting, ThreadStates, ReaderStates

\* The thread at an object.
LEMMA HopFacts ==
    ASSUME MemoryTypes, NEW r \in Readers, NEW o \in Objs, Hop(r, o)
    PROVE  /\ reader' \in [Readers -> ThreadStates]
           /\ \A q \in Readers \ {r} : reader'[q] = reader[q]
           /\ reader'[r].pc = "at" /\ reader'[r].obj = o /\ reader'[r].got = NoObj
<1>1. PICK y \in ThreadStates : y = Resting
  BY RestingFacts
<1>2. reader' = [reader EXCEPT ![r] = [y EXCEPT !.pc = "at", !.obj = o]] /\ reader \in [Readers -> ThreadStates]
  BY <1>1 DEF Hop, MemoryTypes
<1>3. y.got = NoObj
  BY <1>1, RestingFacts
<1>4. PICK x : x = [y EXCEPT !.pc = "at", !.obj = o]
  OBVIOUS
<1>5. x \in ThreadStates /\ x.pc = "at" /\ x.obj = o /\ x.got = NoObj
  BY <1>3, <1>4 DEF ThreadStates, ReaderStates
<1>6. reader' = [reader EXCEPT ![r] = x]
  BY <1>2, <1>4
<1>7. QED  BY <1>2, <1>5, <1>6

\* A thread that holds an object and fetches nothing.
LEMMA AtIsOK ==
    ASSUME NEW r \in Readers, reader'[r].pc = "at", reader'[r].obj # NoObj,
           reader'[r].obj \in DOMAIN heap', reader'[r].got = NoObj
    PROVE  ReaderOK(r)'
BY DEF ReaderOK

\* One thread moves on, memory stays.
LEMMA ThreadMoves ==
    ASSUME Order, Memory, [Next]_vars, NEW r \in Readers,
           UNCHANGED <<log, image, stage, heap, cache, failed, fin>>,
           reader' \in [Readers -> ThreadStates],
           \A q \in Readers \ {r} : reader'[q] = reader[q],
           ReaderOK(r)', imap' \in Seq([of : Deltas, pos : Nat]), ImapOK'
    PROVE  Memory'
<1>1. ObjectsOK' /\ PointersOK'
  BY KeepHeap
<1>2. ImagesOK' /\ FailedOK'
  BY KeepImages, KeepFailed
<1>3. CacheOK'
  <2>1. \A k \in DOMAIN cache' : cache'[k] = cache[k] /\ cache'[k] \in DOMAIN heap'
    BY DEF Memory, CacheOK
  <2>2. QED  BY <2>1, SameFin, KeepCache
<1>4. ReadersOK'
  <2>1. ASSUME NEW q \in Readers, q # r PROVE ReaderOK(q)'
    <3>1. reader'[q] = reader[q] /\ ReaderOK(q)
      BY <2>1 DEF Memory, ReadersOK
    <3>2. QED  BY <3>1, KeepReader DEF ReaderOK
  <2>2. QED  BY <2>1 DEF ReadersOK
<1>5. MemoryTypes'
  BY DEF Memory, MemoryTypes
<1>6. QED  BY <1>1, <1>2, <1>3, <1>4, <1>5 DEF Memory

\* One thread moves on and what it held may go.
LEMMA ThreadSweeps ==
    ASSUME Order, Memory, [Next]_vars, NEW r \in Readers,
           UNCHANGED <<log, image, stage, cache, imap, failed, fin>>,
           reader' \in [Readers -> ThreadStates],
           \A q \in Readers \ {r} : reader'[q] = reader[q],
           reader'[r].pc \in {"idle", "at"}, reader'[r].got = NoObj,
           reader'[r].pc = "idle" => reader'[r].obj = NoObj,
           reader'[r].pc = "at" => reader'[r].obj \in DOMAIN heap,
           NEW h, DOMAIN h = DOMAIN heap, GoodPointers(h),
           heap' = Sweep(h, Held(cache', reader', stage'))
    PROVE  Memory'
<1>1. \A k \in DOMAIN cache' : cache'[k] \in DOMAIN heap
  BY DEF Memory, CacheOK
<1>2. \A q \in Readers : /\ reader'[q].obj # NoObj => reader'[q].obj \in DOMAIN heap
                         /\ reader'[q].got # NoObj => reader'[q].got \in DOMAIN heap
  BY DEF Memory, ReadersOK, ReaderOK
<1>3. \A i \in Deltas : stage[i] # "none" /\ stage'[i] \notin InTree => Open(i)'
  <2>1. \A i \in Deltas : stage[i] = "final" => Open(i)'
    BY DeltaFacts DEF Open
  <2>2. QED  BY <2>1 DEF Order, OrderTypes, InTree
<1>4. /\ DOMAIN heap' \subseteq Objs /\ IsFiniteSet(DOMAIN heap')
      /\ ObjectsOK' /\ PointersOK'
      /\ \A k \in DOMAIN cache' : cache'[k] \in DOMAIN heap'
      /\ \A q \in Readers : reader'[q].obj # NoObj => reader'[q].obj \in DOMAIN heap'
      /\ \A q \in Readers : reader'[q].got # NoObj => reader'[q].got \in DOMAIN heap'
  BY <1>1, <1>2, <1>3, SweepFacts
<1>5. CacheOK'
  BY <1>4, SameFin, KeepCache
<1>6. ReadersOK'
  <2>1. ASSUME NEW q \in Readers, q # r PROVE ReaderOK(q)'
    <3>1. reader'[q] = reader[q]
      BY <2>1
    <3>2. QED  BY <3>1, <1>4, KeepReader
  <2>2. ReaderOK(r)'
    <3>1. CASE reader'[r].pc = "idle"
      BY <3>1, <1>4 DEF ReaderOK
    <3>2. CASE reader'[r].pc = "at"
      <4>1. reader'[r].obj # NoObj
        BY <3>2, EmptyIsNothing DEF Memory, MemoryTypes, NoObj
      <4>2. QED  BY <3>2, <4>1, <1>4, AtIsOK
    <3>3. QED  BY <3>1, <3>2
  <2>3. QED  BY <2>1, <2>2 DEF ReadersOK
<1>7. ImagesOK' /\ FailedOK' /\ ImapOK'
  BY KeepImages, KeepFailed, KeepImap
<1>8. MemoryTypes'
  BY <1>4 DEF Memory, MemoryTypes
<1>9. QED  BY <1>4, <1>5, <1>6, <1>7, <1>8 DEF Memory

\* A walk begins.
LEMMA BeginMemory ==
    ASSUME Order, Memory, [Next]_vars, NEW r \in Readers, Begin(r)
    PROVE  Memory'
<1>1. UNCHANGED <<log, image, stage, heap, cache, imap, failed, fin>>
  BY DEF Begin, treeVars
<1>2. ImapOK' /\ imap' \in Seq([of : Deltas, pos : Nat])
  BY <1>1, KeepImap DEF Memory, MemoryTypes
<1>3. ASSUME NEW o \in DOMAIN heap, Hop(r, o) PROVE Memory'
  <2>1. o \in Objs /\ o # NoObj
    BY EmptyIsNothing DEF Memory, MemoryTypes, NoObj
  <2>2. /\ reader' \in [Readers -> ThreadStates]
        /\ \A q \in Readers \ {r} : reader'[q] = reader[q]
        /\ reader'[r].pc = "at" /\ reader'[r].obj = o /\ reader'[r].got = NoObj
    BY <2>1, <1>3, HopFacts DEF Memory
  <2>3. ReaderOK(r)'
    BY <2>1, <2>2, <1>1, AtIsOK
  <2>4. QED  BY <2>2, <2>3, <1>1, <1>2, ThreadMoves
<1>4. CASE \E n \in Nodes : stage[n[1]] \in InTree /\ Hop(r, <<n, 0>>)
  <2>1. PICK n \in Nodes : stage[n[1]] \in InTree /\ Hop(r, <<n, 0>>)
    BY <1>4
  <2>2. <<n, 0>> \in DOMAIN heap
    BY <2>1 DEF Memory, ObjectsOK
  <2>3. QED  BY <2>1, <2>2, <1>3
<1>5. ASSUME NEW i \in 1..Root, BeginAtRoot(r, i) PROVE Memory'
  <2> DEFINE n == RootOf(i)
  <2>1. i \in Deltas /\ stage[i] # "none" /\ i \in Nat
    <3>1. Root \in Deltas /\ Root \in Nat /\ \A j \in Deltas : j <= Root <=> stage[j] # "none"
      BY RootFacts DEF Order
    <3>2. i \in Deltas /\ i <= Root
      BY <3>1, DeltaFacts
    <3>3. QED  BY <3>1, <3>2, DeltaFacts
  <2>2. n \in Nodes /\ n[1] = i
    <3>1. Sizes[i] - 1 \in 0..(Sizes[i] - 1)
      BY <2>1, DeltaFacts
    <3>2. QED  BY <2>1, <3>1, NodeFacts DEF RootOf
  <2> HIDE DEF n
  <2>3. CASE \E o \in DOMAIN heap : Hop(r, o)
    BY <2>3, <1>3
  <2>4. CASE /\ <<n, 0>> \notin DOMAIN heap
             /\ reader' = [reader EXCEPT ![r] = [Resting EXCEPT
                   !.pc = "find", !.to = n,
                   !.addr = IF i = 1 THEN <<"a", 2>> ELSE <<"i", i>>]]
    <3> DEFINE a == IF i = 1 THEN <<"a", 2>> ELSE <<"i", i>>
    <3>1. PICK y \in ThreadStates : y = Resting
      BY RestingFacts
    <3>2. a \in Addrs /\ Leads(a, n)
      BY <2>1, <2>2, FirstIsGood DEF Addrs, Leads
    <3> HIDE DEF a
    <3>3. PICK x : x = [y EXCEPT !.pc = "find", !.to = n, !.addr = a]
      OBVIOUS
    <3>4. /\ x \in ThreadStates
          /\ x.pc = "find" /\ x.obj = NoObj /\ x.to = n /\ x.addr = a /\ x.got = NoObj
      <4>1. y.obj = NoObj /\ y.got = NoObj
        BY <3>1, RestingFacts
      <4>2. QED  BY <4>1, <3>2, <3>3, <2>2 DEF ThreadStates, ReaderStates
    <3>5. reader' = [reader EXCEPT ![r] = x] /\ reader \in [Readers -> ThreadStates]
      BY <2>4, <3>1, <3>3 DEF Memory, MemoryTypes, a
    <3>6. reader' \in [Readers -> ThreadStates] /\ reader'[r] = x
          /\ \A q \in Readers \ {r} : reader'[q] = reader[q]
      BY <3>4, <3>5
    <3>7. Open(i)
      BY <2>1, <2>2, <2>4, GoneIsOpen
    <3>8. PICK b : b = a
      OBVIOUS
    <3>9. PICK m : m = n
      OBVIOUS
    <3>10. Leads(b, m)' /\ Open(m[1])'
      BY <3>2, <3>7, <3>8, <3>9, <2>2, StaysGood
    <3>11. reader'[r].pc = "find" /\ reader'[r].obj = NoObj /\ reader'[r].to = m
           /\ reader'[r].addr = b /\ reader'[r].got = NoObj /\ b \in Addrs /\ m \in Nodes
      BY <3>2, <3>4, <3>6, <3>8, <3>9, <2>2
    <3>12. ReaderOK(r)'
      BY <3>10, <3>11 DEF ReaderOK
    <3>13. QED  BY <3>6, <3>12, <1>1, <1>2, ThreadMoves
  <2>5. QED  BY <2>3, <2>4, <1>5 DEF BeginAtRoot, Objects, n
<1>6. QED  BY <1>4, <1>5 DEF Begin

\* A thread follows a pointer.
LEMMA FollowMemory ==
    ASSUME Order, Memory, [Next]_vars, NEW r \in Readers, Follow(r)
    PROVE  Memory'
<1>1. reader[r].pc = "at" /\ UNCHANGED <<log, image, stage, cache, imap, failed, fin>>
  BY DEF Follow, treeVars, controlVars
<1>2. reader[r] \in ThreadStates /\ ReaderOK(r) /\ reader \in [Readers -> ThreadStates]
  BY ThreadFacts DEF Memory, MemoryTypes
<1>3. reader[r].obj \in DOMAIN heap
  BY <1>1, <1>2 DEF ReaderOK
<1>4. PICK o \in DOMAIN heap : o = reader[r].obj
  BY <1>3
<1>5. PICK c \in DOMAIN heap[o] :
         \/ /\ heap[o][c].ref # NoRef
            /\ Hop(r, heap[o][c].ref)
            /\ heap' = Sweep(heap, Held(cache', reader', stage'))
         \/ /\ heap[o][c].ref = NoRef
            /\ reader' = [reader EXCEPT ![r].pc = "find", ![r].to = c, ![r].addr = heap[o][c].addr]
            /\ UNCHANGED heap
  BY <1>4 DEF Follow
<1>6. heap[o] \in [Kids[o[1]] -> Pointers] /\ o \in Objs /\ o[1] \in Nodes
  BY ObjFacts DEF Memory, MemoryTypes, PointersOK, GoodPointers
<1>7. PICK p \in Pointers : p = heap[o][c]
  BY <1>6
<1>8. /\ c \in Kids[o[1]] /\ c \in Nodes /\ Leads(p.addr, c)
      /\ IF p.ref = NoRef THEN Open(c[1]) ELSE p.ref \in DOMAIN heap /\ p.ref[1] = c
  BY <1>6, <1>7, NodeFacts DEF Memory, PointersOK, GoodPointers
<1>9. CASE p.ref # NoRef
  <2>1. PICK t \in DOMAIN heap : t = p.ref
    BY <1>8, <1>9
  <2>2. t \in Objs /\ Hop(r, t) /\ heap' = Sweep(heap, Held(cache', reader', stage'))
    BY <2>1, <1>5, <1>7, <1>9 DEF Memory, MemoryTypes
  <2>3. /\ reader' \in [Readers -> ThreadStates]
        /\ \A q \in Readers \ {r} : reader'[q] = reader[q]
        /\ reader'[r].pc = "at" /\ reader'[r].obj = t /\ reader'[r].got = NoObj
    BY <2>2, HopFacts DEF Memory
  <2>4. PICK h : h = heap
    OBVIOUS
  <2>5. DOMAIN h = DOMAIN heap /\ GoodPointers(h) /\ heap' = Sweep(h, Held(cache', reader', stage'))
    BY <2>2, <2>4 DEF Memory, PointersOK
  <2>6. QED  BY <2>3, <2>5, <1>1, ThreadSweeps
<1>10. CASE p.ref = NoRef
  <2>1. /\ reader' = [reader EXCEPT ![r].pc = "find", ![r].to = c, ![r].addr = p.addr]
        /\ UNCHANGED heap
    BY <1>5, <1>7, <1>10
  <2>2. p.addr \in Addrs
    BY DEF Pointers
  <2>3. /\ reader' \in [Readers -> ThreadStates]
        /\ \A q \in Readers \ {r} : reader'[q] = reader[q]
        /\ reader'[r].pc = "find" /\ reader'[r].obj = o /\ reader'[r].to = c
        /\ reader'[r].addr = p.addr /\ reader'[r].got = reader[r].got
    BY <2>1, <2>2, <1>2, <1>4, <1>8 DEF ThreadStates, ReaderStates
  <2>4. Leads(p.addr, c)' /\ Open(c[1])'
    BY <1>8, <1>10, StaysGood
  <2>5. ReaderOK(r)'
    <3>1. reader[r].got = NoObj
      BY <1>1, <1>2 DEF ReaderOK
    <3>2. QED  BY <2>1, <2>2, <2>3, <2>4, <3>1, <1>8 DEF ReaderOK
  <2>6. QED  BY <2>1, <2>3, <2>5, <1>1, KeepImap, ThreadMoves DEF Memory, MemoryTypes
<1>11. QED  BY <1>9, <1>10

\* The address of a fetch is resolved.
LEMMA FindMemory ==
    ASSUME Order, Memory, [Next]_vars, NEW r \in Readers, Find(r)
    PROVE  Memory'
<1>1. reader[r].pc = "find" /\ UNCHANGED <<log, image, stage, heap, cache, failed, fin>>
  BY DEF Find, treeVars, controlVars
<1>2. reader[r] \in ThreadStates /\ ReaderOK(r) /\ reader \in [Readers -> ThreadStates]
  BY ThreadFacts DEF Memory, MemoryTypes
<1>3. PICK x \in ThreadStates : x = reader[r]
  BY <1>2
<1>4. /\ x.to \in Nodes /\ Open(x.to[1]) /\ x.addr \in Addrs /\ Leads(x.addr, x.to)
      /\ x.obj # NoObj => x.obj \in DOMAIN heap /\ x.to \in Kids[x.obj[1]]
      /\ x.got = NoObj
  BY <1>1, <1>2, <1>3 DEF ReaderOK
<1>5. ASSUME NEW pos \in Nat, Good(pos, x.to[1]),
             reader' = [reader EXCEPT ![r].pc = "look", ![r].addr = <<>>, ![r].pos = pos],
             imap' \in Seq([of : Deltas, pos : Nat]), ImapOK'
      PROVE  Memory'
  <2>1. /\ reader' \in [Readers -> ThreadStates]
        /\ \A q \in Readers \ {r} : reader'[q] = reader[q]
        /\ reader'[r].pc = "look" /\ reader'[r].obj = x.obj /\ reader'[r].to = x.to
        /\ reader'[r].pos = pos /\ reader'[r].got = x.got
    BY <1>2, <1>3, <1>5 DEF ThreadStates, ReaderStates
  <2>2. Good(pos, x.to[1])' /\ Open(x.to[1])'
    BY <1>4, <1>5, StaysGood
  <2>3. ReaderOK(r)'
    BY <2>1, <2>2, <1>1, <1>4 DEF ReaderOK
  <2>4. QED  BY <2>1, <2>3, <1>1, <1>5, ThreadMoves
<1>6. CASE /\ x.addr[1] = "a" /\ UNCHANGED imap
           /\ reader' = [reader EXCEPT ![r].pc = "look", ![r].addr = <<>>, ![r].pos = x.addr[2]]
  <2>1. x.addr[2] \in Nat /\ Good(x.addr[2], x.to[1])
    BY <1>4, <1>6 DEF Leads, Addrs
  <2>2. imap' \in Seq([of : Deltas, pos : Nat]) /\ ImapOK'
    BY <1>6, KeepImap DEF Memory, MemoryTypes
  <2>3. QED  BY <2>1, <2>2, <1>5, <1>6
<1>7. CASE /\ x.addr[1] = "i" /\ Mapped(x.addr[2]) /\ imap' \in Used({x.addr[2]})
           /\ reader' = [reader EXCEPT ![r].pc = "look", ![r].addr = <<>>, ![r].pos = MappedTo(x.addr[2])]
  <2>1. x.addr[2] = x.to[1]
    BY <1>4, <1>7 DEF Leads
  <2>2. PICK pos \in Nat : pos = MappedTo(x.addr[2]) /\ Good(pos, x.to[1])
    BY <2>1, <1>7, MappedFacts DEF Memory
  <2>3. imap' \in Seq([of : Deltas, pos : Nat]) /\ ImapOK'
    BY <1>7, UsedImap
  <2>4. QED  BY <2>2, <2>3, <1>5, <1>7
<1>8. CASE /\ x.addr[1] = "i" /\ Images(x.addr[2]) # {} /\ UNCHANGED imap
           /\ reader' = [reader EXCEPT ![r].pc = "look", ![r].addr = <<>>, ![r].pos = Min(Images(x.addr[2]))]
  <2>1. x.addr[2] = x.to[1]
    BY <1>4, <1>8 DEF Leads
  <2>2. Min(Images(x.to[1])) \in Images(x.to[1]) /\ \A p \in Images(x.to[1]) : Min(Images(x.to[1])) <= p
    BY <2>1, <1>8, ImagesFacts, MinOfNats DEF Order
  <2>3. PICK pos \in Nat : pos = Min(Images(x.addr[2])) /\ Good(pos, x.to[1])
    BY <2>1, <2>2, ImagesFacts DEF Good, Order
  <2>4. imap' \in Seq([of : Deltas, pos : Nat]) /\ ImapOK'
    BY <1>8, KeepImap DEF Memory, MemoryTypes
  <2>5. QED  BY <2>3, <2>4, <1>5, <1>8
<1>9. QED  BY <1>3, <1>6, <1>7, <1>8 DEF Find

\* A fetch that has its position, between two steps.
LEMMA FetchingFacts ==
    ASSUME Order, Memory, NEW r \in Readers, NEW x, x = reader[r],
           x.pc \in {"look", "load", "again", "insert"}
    PROVE  /\ x \in ThreadStates /\ x.to \in Nodes /\ Open(x.to[1]) /\ Good(x.pos, x.to[1])
           /\ x.obj # NoObj => x.obj \in DOMAIN heap /\ x.to \in Kids[x.obj[1]]
           /\ x.got = NoObj
           /\ x.pc = "load" => x.idx < Sizes[x.to[1]]
BY ThreadFacts DEF ReaderOK

\* The cache has the node that the key of a fetch names.
LEMMA FoundFacts ==
    ASSUME Order, Memory, NEW r \in Readers,
           reader[r].pc \in {"look", "load", "again", "insert"}, Key(r) \in DOMAIN cache
    PROVE  /\ cache[Key(r)] \in DOMAIN heap /\ cache[Key(r)] \in Objs /\ cache[Key(r)] # NoObj
           /\ cache[Key(r)][1] = reader[r].to
<1>1. PICK x : x = reader[r]
  OBVIOUS
<1>2. x \in ThreadStates /\ x.to \in Nodes /\ Good(x.pos, x.to[1])
  BY <1>1, FetchingFacts
<1>3. Key(r) = <<x.pos, x.to[2]>>
  BY <1>1 DEF Key
<1>4. PICK o : o = cache[Key(r)]
  OBVIOUS
<1>5. o \in DOMAIN heap /\ x.to[2] = o[1][2] /\ Good(x.pos, o[1][1])
  BY <1>3, <1>4 DEF Memory, CacheOK
<1>6. o \in Objs /\ o # NoObj /\ o[1] \in Nodes
  BY <1>5, ObjFacts, EmptyIsNothing DEF Memory, MemoryTypes, NoObj
<1>7. o[1][1] = x.to[1]
  BY <1>2, <1>5 DEF Good, Images
<1>8. o[1] = <<o[1][1], o[1][2]>> /\ x.to = <<x.to[1], x.to[2]>>
  BY <1>2, <1>6, NodeFacts
<1>9. o[1] = x.to
  BY <1>5, <1>7, <1>8
<1>10. QED  BY <1>1, <1>4, <1>5, <1>6, <1>9

\* A thread has fetched an object.
LEMMA GotIt ==
    ASSUME Order, Memory, [Next]_vars, NEW r \in Readers,
           reader[r].pc \in {"look", "load", "again", "insert"},
           NEW o, o \in DOMAIN heap', o # NoObj, o[1] = reader[r].to,
           DOMAIN heap \subseteq DOMAIN heap',
           reader'[r].pc = "got", reader'[r].got = o,
           reader'[r].obj = reader[r].obj, reader'[r].to = reader[r].to
    PROVE  ReaderOK(r)'
<1>1. PICK x : x = reader[r]
  OBVIOUS
<1>2. /\ x.to \in Nodes /\ Open(x.to[1])
      /\ x.obj # NoObj => x.obj \in DOMAIN heap /\ x.to \in Kids[x.obj[1]]
  BY <1>1, FetchingFacts
<1>3. Open(x.to[1])'
  BY <1>2, StaysGood
<1>4. reader'[r].to = x.to /\ reader'[r].obj = x.obj /\ o[1] = x.to
  BY <1>1
<1>5. QED  BY <1>2, <1>3, <1>4 DEF ReaderOK

\* A thread goes on to another step of its fetch.
LEMMA FetchesOn ==
    ASSUME Order, Memory, [Next]_vars, NEW r \in Readers,
           reader[r].pc \in {"look", "load", "again", "insert"},
           DOMAIN heap \subseteq DOMAIN heap',
           reader'[r].pc \in {"load", "again", "insert"},
           reader'[r].got = NoObj, reader'[r].pos = reader[r].pos,
           reader'[r].obj = reader[r].obj, reader'[r].to = reader[r].to,
           reader'[r].pc = "load" => reader'[r].idx < Sizes[reader[r].to[1]]
    PROVE  ReaderOK(r)'
<1>1. PICK x : x = reader[r]
  OBVIOUS
<1>2. /\ x.to \in Nodes /\ Open(x.to[1]) /\ Good(x.pos, x.to[1])
      /\ x.obj # NoObj => x.obj \in DOMAIN heap /\ x.to \in Kids[x.obj[1]]
  BY <1>1, FetchingFacts
<1>3. Open(x.to[1])' /\ Good(x.pos, x.to[1])'
  BY <1>2, StaysGood
<1>4. reader'[r].to = x.to /\ reader'[r].obj = x.obj /\ reader'[r].pos = x.pos
  BY <1>1
<1>5. QED  BY <1>1, <1>2, <1>3, <1>4 DEF ReaderOK

\* The first lookup.
LEMMA LookMemory ==
    ASSUME Order, Memory, [Next]_vars, NEW r \in Readers, Look(r)
    PROVE  Memory'
<1>1. reader[r].pc = "look" /\ UNCHANGED <<log, image, stage, heap, cache, imap, failed, fin>>
  BY DEF Look, treeVars, controlVars
<1>2. reader[r] \in ThreadStates /\ reader \in [Readers -> ThreadStates] /\ reader[r].to \in Nodes
      /\ reader[r].got = NoObj
  BY <1>1, ThreadFacts, FetchingFacts DEF Memory, MemoryTypes
<1>3. imap' \in Seq([of : Deltas, pos : Nat]) /\ ImapOK'
  BY <1>1, KeepImap DEF Memory, MemoryTypes
<1>4. CASE Key(r) \in DOMAIN cache /\ reader' = [reader EXCEPT ![r].pc = "got", ![r].got = cache[Key(r)]]
  <2>1. PICK o : o = cache[Key(r)]
    OBVIOUS
  <2>2. o \in DOMAIN heap /\ o \in Objs /\ o # NoObj /\ o[1] = reader[r].to
    BY <2>1, <1>1, <1>4, FoundFacts
  <2>3. /\ reader' \in [Readers -> ThreadStates]
        /\ \A q \in Readers \ {r} : reader'[q] = reader[q]
        /\ reader'[r].pc = "got" /\ reader'[r].got = o
        /\ reader'[r].obj = reader[r].obj /\ reader'[r].to = reader[r].to
    BY <2>1, <2>2, <1>2, <1>4 DEF ThreadStates, ReaderStates
  <2>4. ReaderOK(r)'
    BY <2>2, <2>3, <1>1, GotIt
  <2>5. QED  BY <2>3, <2>4, <1>1, <1>3, ThreadMoves
<1>5. CASE reader' = [reader EXCEPT ![r].pc = "load", ![r].idx = 0]
  <2>1. /\ reader' \in [Readers -> ThreadStates]
        /\ \A q \in Readers \ {r} : reader'[q] = reader[q]
        /\ reader'[r].pc = "load" /\ reader'[r].got = reader[r].got /\ reader'[r].idx = 0
        /\ reader'[r].pos = reader[r].pos
        /\ reader'[r].obj = reader[r].obj /\ reader'[r].to = reader[r].to
    BY <1>2, <1>5 DEF ThreadStates, ReaderStates
  <2>2. 0 < Sizes[reader[r].to[1]]
    BY <1>2, NodeFacts, DeltaFacts
  <2>3. ReaderOK(r)'
    BY <2>1, <2>2, <1>1, <1>2, FetchesOn
  <2>4. QED  BY <2>1, <2>3, <1>1, <1>3, ThreadMoves
<1>6. QED  BY <1>4, <1>5 DEF Look

\* The second lookup.
LEMMA AgainMemory ==
    ASSUME Order, Memory, [Next]_vars, NEW r \in Readers, Again(r)
    PROVE  Memory'
<1>1. reader[r].pc = "again" /\ UNCHANGED <<log, image, stage, heap, cache, imap, failed, fin>>
  BY DEF Again, treeVars, controlVars
<1>2. reader[r] \in ThreadStates /\ reader \in [Readers -> ThreadStates] /\ reader[r].to \in Nodes
  BY <1>1, ThreadFacts, FetchingFacts DEF Memory, MemoryTypes
<1>3. imap' \in Seq([of : Deltas, pos : Nat]) /\ ImapOK'
  BY <1>1, KeepImap DEF Memory, MemoryTypes
<1>4. CASE Key(r) \in DOMAIN cache
  <2>1. PICK o : o = cache[Key(r)]
    OBVIOUS
  <2>2. o \in DOMAIN heap /\ o \in Objs /\ o # NoObj /\ o[1] = reader[r].to
    BY <2>1, <1>1, <1>4, FoundFacts
  <2>3. reader' = [reader EXCEPT ![r].pc = "got", ![r].got = o]
    BY <2>1, <1>4 DEF Again
  <2>4. /\ reader' \in [Readers -> ThreadStates]
        /\ \A q \in Readers \ {r} : reader'[q] = reader[q]
        /\ reader'[r].pc = "got" /\ reader'[r].got = o
        /\ reader'[r].obj = reader[r].obj /\ reader'[r].to = reader[r].to
    BY <2>2, <2>3, <1>2 DEF ThreadStates, ReaderStates
  <2>5. ReaderOK(r)'
    BY <2>2, <2>4, <1>1, GotIt
  <2>6. QED  BY <2>4, <2>5, <1>1, <1>3, ThreadMoves
<1>5. CASE Key(r) \notin DOMAIN cache
  <2>1. reader' = [reader EXCEPT ![r].pc = "insert", ![r].got = NoObj]
    BY <1>5 DEF Again
  <2>2. /\ reader' \in [Readers -> ThreadStates]
        /\ \A q \in Readers \ {r} : reader'[q] = reader[q]
        /\ reader'[r].pc = "insert" /\ reader'[r].got = NoObj
        /\ reader'[r].pos = reader[r].pos
        /\ reader'[r].obj = reader[r].obj /\ reader'[r].to = reader[r].to
    BY <2>1, <1>2 DEF ThreadStates, ReaderStates
  <2>3. ReaderOK(r)'
    BY <2>2, <1>1, <1>2, FetchesOn
  <2>4. QED  BY <2>2, <2>3, <1>1, <1>3, ThreadMoves
<1>6. QED  BY <1>4, <1>5

\* Among one more names than there are objects one is free.
LEMMA NewCopyFacts ==
    ASSUME NEW h, DOMAIN h \subseteq Objs, IsFiniteSet(DOMAIN h), NEW n \in Nodes
    PROVE  NewCopy(h, n) \in Objs /\ NewCopy(h, n) \notin DOMAIN h
           /\ NewCopy(h, n)[1] = n /\ NewCopy(h, n)[2] # 0
<1> DEFINE m == Cardinality(DOMAIN h)
           free == {k \in 1..(m + 1) : <<n, k>> \notin DOMAIN h}
<1>1. m \in Nat
  BY FS_CardinalityType
<1>2. free # {}
  <2> SUFFICES ASSUME free = {} PROVE FALSE
    OBVIOUS
  <2> DEFINE f == [k \in 1..(m + 1) |-> <<n, k>>]
  <2>1. f \in [1..(m + 1) -> DOMAIN h]
    OBVIOUS
  <2>2. \A x, y \in 1..(m + 1) : x # y => f[x] # f[y]
    OBVIOUS
  <2>3. IsFiniteSet(1..(m + 1)) /\ Cardinality(1..(m + 1)) = m + 1
    <3>1. 1 \in Int /\ m + 1 \in Int /\ ~(1 > m + 1) /\ (m + 1) - 1 + 1 = m + 1
      BY <1>1
    <3> HIDE DEF m
    <3>2. QED  BY <3>1, FS_Interval
  <2>4. Cardinality(DOMAIN h) < Cardinality(1..(m + 1))
    BY <2>3, <1>1
  <2> HIDE DEF f, m
  <2>5. \E x, y \in 1..(m + 1) : x # y /\ f[x] = f[y]
    <3>1. PICK S, T : S = 1..(m + 1) /\ T = DOMAIN h
      OBVIOUS
    <3>2. /\ IsFiniteSet(S) /\ IsFiniteSet(T) /\ Cardinality(T) < Cardinality(S)
          /\ f \in [S -> T]
      BY <3>1, <2>1, <2>3, <2>4
    <3>3. \E x, y \in S : x # y /\ f[x] = f[y]
      BY <3>2, FS_PigeonHole
    <3>4. QED  BY <3>1, <3>3
  <2>6. QED  BY <2>2, <2>5
<1>3. free \in SUBSET Nat
  BY <1>1
<1>4. Min(free) \in free
  BY <1>2, <1>3, MinOfNats
<1>5. NewCopy(h, n) = <<n, Min(free)>>
  BY DEF NewCopy
<1>6. QED  BY <1>1, <1>4, <1>5 DEF Objs

\* Deltas before one that may be read may be read.
LEMMA OpenBefore ==
    ASSUME NEW d \in Deltas, NEW e \in Deltas, e <= d, Open(d)
    PROVE  Open(e)
<1>1. d \in Nat \ {0} /\ e \in Nat \ {0} /\ \A j \in Deltas : j \in Nat
  BY DeltaFacts
<1>2. QED  BY <1>1 DEF Open

\* What a node is read back as: its references are empty, its addresses lead where
\* those of the tree did.
LEMMA CopiedFacts ==
    ASSUME Order, Memory, NEW n \in Nodes, NEW pos, Good(pos, n[1]), Open(n[1])
    PROVE  /\ deserialize_node(n, pos) \in [Kids[n] -> Pointers]
           /\ \A c \in Kids[n] : /\ deserialize_node(n, pos)[c].ref = NoRef
                                 /\ Leads(deserialize_node(n, pos)[c].addr, c)
                                 /\ Open(c[1])
<1>1. pos \in DOMAIN log /\ log[pos].type = "afterimage" /\ log[pos].of = n[1] /\ pos \in Nat
  BY ImagesFacts DEF Good, Images, Order
<1>2. /\ DOMAIN log[pos].ptr = Remote(n[1])
      /\ \A c \in Remote(n[1]) : Leads(log[pos].ptr[c], c)
  BY <1>1 DEF Memory, ImagesOK
<1>3. log[pos].ptr \in Ptrs
  <2>1. log[pos] \in [type : {"intention", "afterimage"}, of : Deltas, ptr : Ptrs]
    BY <1>1, ImagesFacts, ElementOfSeq, Zenon DEF Order, OrderTypes
  <2>2. QED  BY <2>1
<1>4. \A c \in Remote(n[1]) : log[pos].ptr[c] \in Addrs
  BY <1>2, <1>3 DEF Ptrs
<1>5. ASSUME NEW c \in Kids[n]
      PROVE  /\ deserialize_node(n, pos)[c] \in Pointers
             /\ deserialize_node(n, pos)[c].ref = NoRef
             /\ Leads(deserialize_node(n, pos)[c].addr, c)
             /\ Open(c[1])
  <2>1. c \in Nodes /\ c[1] \in Deltas /\ n[1] \in Deltas /\ c[1] <= n[1]
    BY NodeFacts
  <2>2. Open(c[1])
    BY <2>1, OpenBefore
  <2>3. PICK a : a = IF c[1] = n[1] THEN <<"a", pos>> ELSE log[pos].ptr[c]
    OBVIOUS
  <2>4. a \in Addrs /\ Leads(a, c)
    <3>1. CASE c[1] = n[1]
      BY <3>1, <2>3, <1>1 DEF Addrs, Leads
    <3>2. CASE c[1] # n[1]
      <4>1. c \in Remote(n[1])
        BY <3>2, RemoteFacts
      <4>2. QED  BY <3>2, <4>1, <2>3, <1>2, <1>4
    <3>3. QED  BY <3>1, <3>2
  <2>5. deserialize_node(n, pos)[c] = [ref |-> NoRef, addr |-> a]
    BY <2>3 DEF deserialize_node, Copied
  <2>6. QED  BY <2>2, <2>4, <2>5 DEF Pointers
<1>6. DOMAIN deserialize_node(n, pos) = Kids[n]
      /\ deserialize_node(n, pos) = [c \in Kids[n] |-> deserialize_node(n, pos)[c]]
  BY DEF deserialize_node, Copied
<1>7. QED  BY <1>5, <1>6

\* A copy enters memory and the cache.
LEMMA CopyFacts ==
    ASSUME Order, Memory, [Next]_vars, UNCHANGED <<stage, log, fin>>,
           NEW n \in Nodes, NEW pos, Good(pos, n[1]), Open(n[1]),
           Copy(n, pos)
    PROVE  /\ DOMAIN heap \subseteq DOMAIN heap'
           /\ DOMAIN heap' \subseteq Objs /\ IsFiniteSet(DOMAIN heap')
           /\ DOMAIN cache' \subseteq Nat \X Nat
           /\ ObjectsOK' /\ PointersOK' /\ CacheOK'
           /\ <<pos, n[2]>> \in DOMAIN cache'
           /\ cache'[<<pos, n[2]>>] \in DOMAIN heap' /\ cache'[<<pos, n[2]>>][1] = n
<1>1. PICK o : o = NewCopy(heap, n)
  OBVIOUS
<1>2. DOMAIN heap \subseteq Objs /\ IsFiniteSet(DOMAIN heap) /\ DOMAIN cache \subseteq Nat \X Nat
  BY DEF Memory, MemoryTypes
<1>3. o \in Objs /\ o \notin DOMAIN heap /\ o[1] = n /\ o[2] # 0
  BY <1>1, <1>2, NewCopyFacts
<1>4. PICK y : y = deserialize_node(n, pos)
  OBVIOUS
<1>5. /\ y \in [Kids[n] -> Pointers]
      /\ \A c \in Kids[n] : y[c].ref = NoRef /\ Leads(y[c].addr, c) /\ Open(c[1])
  BY <1>4, CopiedFacts
<1>6. PICK k : k = <<pos, n[2]>>
  OBVIOUS
<1>7. cache' = With(cache, k, o) /\ heap' = With(heap, o, y)
  BY <1>1, <1>4, <1>6 DEF Copy
<1>8. /\ DOMAIN heap' = DOMAIN heap \cup {o} /\ heap'[o] = y
      /\ \A x \in DOMAIN heap : heap'[x] = heap[x]
      /\ DOMAIN cache' = DOMAIN cache \cup {k} /\ cache'[k] = o
      /\ \A l \in DOMAIN cache : l # k => cache'[l] = cache[l]
  BY <1>3, <1>7 DEF With
<1>9. IsFiniteSet(DOMAIN heap')
  <2>1. IsFiniteSet(DOMAIN heap \cup {o})
    <3>1. PICK S : S = DOMAIN heap
      OBVIOUS
    <3>2. IsFiniteSet(S)
      BY <3>1, <1>2
    <3>3. IsFiniteSet(S \cup {o})
      BY <3>2, FS_AddElement
    <3>4. QED  BY <3>1, <3>3
  <2>2. QED  BY <2>1, <1>8
<1>10. pos \in Nat /\ n[2] \in Nat /\ n[1] \in Deltas
  BY NodeFacts, DeltaFacts, ImagesFacts DEF Good, Order
<1>11. DOMAIN cache' \subseteq Nat \X Nat
  BY <1>2, <1>6, <1>8, <1>10
<1>12. Good(pos, n[1])' /\ Open(n[1])'
  BY StaysGood
<1>13. ObjectsOK'
  <2>1. ASSUME NEW x \in DOMAIN heap'
        PROVE  IF x[2] = 0 THEN stage'[x[1][1]] # "none" ELSE Open(x[1][1])'
    <3>1. CASE x = o
      BY <3>1, <1>3, <1>12
    <3>2. CASE x \in DOMAIN heap
      <4>1. x[1][1] \in Deltas
        BY <3>2, <1>2, ObjFacts
      <4>2. QED  BY <3>2, <4>1, StaysGood DEF Memory, ObjectsOK
    <3>3. QED  BY <3>1, <3>2, <1>8
  <2>2. \A m \in Nodes : stage'[m[1]] \in InTree => <<m, 0>> \in DOMAIN heap'
    BY <1>8 DEF Memory, ObjectsOK
  <2>3. QED  BY <2>1, <2>2 DEF ObjectsOK
<1>14. PointersOK'
  <2>1. ASSUME NEW x \in DOMAIN heap'
        PROVE  /\ heap'[x] \in [Kids[x[1]] -> Pointers]
               /\ \A c \in Kids[x[1]] :
                     /\ Leads(heap[x][c].addr, c)'
                     /\ IF heap'[x][c].ref = NoRef THEN Open(c[1])'
                        ELSE heap'[x][c].ref \in DOMAIN heap' /\ heap'[x][c].ref[1] = c
    <3>1. PICK z : z = heap'[x]
      OBVIOUS
    <3>2. /\ z \in [Kids[x[1]] -> Pointers]
          /\ \A c \in Kids[x[1]] :
                /\ Leads(z[c].addr, c)
                /\ IF z[c].ref = NoRef THEN Open(c[1])
                   ELSE z[c].ref \in DOMAIN heap /\ z[c].ref[1] = c
      <4>1. CASE x = o
        BY <4>1, <3>1, <1>3, <1>5, <1>8
      <4>2. CASE x \in DOMAIN heap
        BY <4>2, <3>1, <1>8 DEF Memory, PointersOK, GoodPointers
      <4>3. QED  BY <4>1, <4>2, <1>8
    <3>3. ASSUME NEW c \in Kids[x[1]]
          PROVE  Leads(z[c].addr, c)' /\ (z[c].ref = NoRef => Open(c[1])')
      BY <3>2, StaysGood
    <3>4. QED  BY <3>1, <3>2, <3>3, <1>8
  <2>2. QED  BY <2>1 DEF PointersOK, GoodPointers
<1>15. CacheOK'
  <2>1. ASSUME NEW l \in DOMAIN cache'
        PROVE  (/\ cache[l] \in DOMAIN heap
                /\ l[2] = cache[l][1][2]
                /\ Good(l[1], cache[l][1][1])
                /\ Open(cache[l][1][1]) \/ (Finalizing(cache[l][1][1]) /\ l[2] < fin.idx))'
    <3>1. CASE l = k
      <4>1. l[1] = pos /\ l[2] = n[2] /\ cache'[l] = o /\ o[1] = n /\ o \in DOMAIN heap'
        BY <3>1, <1>3, <1>6, <1>8
      <4>2. QED  BY <4>1, <1>12
    <3>2. CASE l # k
      <4>1. PICK x : x = cache[l]
        OBVIOUS
      <4>2. /\ x \in DOMAIN heap /\ l[2] = x[1][2] /\ Good(l[1], x[1][1])
            /\ Open(x[1][1]) \/ (Finalizing(x[1][1]) /\ l[2] < fin.idx)
        BY <3>2, <4>1, <1>8 DEF Memory, CacheOK
      <4>3. cache'[l] = x /\ x \in DOMAIN heap'
        BY <3>2, <4>1, <4>2, <1>8
      <4>4. Good(l[1], x[1][1])' /\ (Open(x[1][1]) => Open(x[1][1])')
        BY <4>2, StaysGood
      <4>5. Finalizing(x[1][1]) /\ l[2] < fin.idx => Finalizing(x[1][1])' /\ l[2] < fin'.idx
        BY DEF Finalizing
      <4>6. QED  BY <4>2, <4>3, <4>4, <4>5
    <3>3. QED  BY <3>1, <3>2
  <2>2. QED  BY <2>1 DEF CacheOK
<1>16. QED  BY <1>2, <1>3, <1>6, <1>8, <1>9, <1>11, <1>13, <1>14, <1>15

\* One thread moves on and has put a copy into the cache.
LEMMA ThreadCopies ==
    ASSUME Order, Memory, [Next]_vars, NEW r \in Readers,
           UNCHANGED <<log, image, stage, imap, failed, fin>>,
           reader' \in [Readers -> ThreadStates],
           \A q \in Readers \ {r} : reader'[q] = reader[q],
           ReaderOK(r)',
           DOMAIN heap \subseteq DOMAIN heap',
           DOMAIN heap' \subseteq Objs, IsFiniteSet(DOMAIN heap'), DOMAIN cache' \subseteq Nat \X Nat,
           ObjectsOK', PointersOK', CacheOK'
    PROVE  Memory'
<1>1. ImagesOK' /\ FailedOK' /\ ImapOK'
  BY KeepImages, KeepFailed, KeepImap
<1>2. ReadersOK'
  <2>1. ASSUME NEW q \in Readers, q # r PROVE ReaderOK(q)'
    <3>1. reader'[q] = reader[q] /\ ReaderOK(q)
      BY <2>1 DEF Memory, ReadersOK
    <3>2. QED  BY <3>1, KeepReader DEF ReaderOK
  <2>2. QED  BY <2>1 DEF ReadersOK
<1>3. MemoryTypes'
  BY DEF Memory, MemoryTypes
<1>4. QED  BY <1>1, <1>2, <1>3 DEF Memory

\* One turn of the loop over the nodes of an after-image.
LEMMA LoadMemory ==
    ASSUME Order, Memory, [Next]_vars, NEW r \in Readers, Load(r)
    PROVE  Memory'
<1>1. reader[r].pc = "load" /\ UNCHANGED <<log, image, stage, imap, failed, fin>>
  BY DEF Load, treeVars, controlVars
<1>2. PICK x \in ThreadStates : x = reader[r]
  BY ThreadFacts
<1>3. /\ x.to \in Nodes /\ Open(x.to[1]) /\ Good(x.pos, x.to[1]) /\ x.got = NoObj
      /\ x.idx < Sizes[x.to[1]] /\ x.idx \in Nat /\ x.pos \in Nat
      /\ reader \in [Readers -> ThreadStates]
  BY <1>1, <1>2, FetchingFacts DEF Memory, MemoryTypes, ThreadStates
<1>4. PICK n : n = <<x.to[1], x.idx>>
  OBVIOUS
<1>5. x.to[1] \in Deltas /\ Sizes[x.to[1]] \in Nat
  BY <1>3, NodeFacts, DeltaFacts
<1>6. n \in Nodes /\ n[1] = x.to[1] /\ n[2] = x.idx
  <2>1. x.idx \in 0..(Sizes[x.to[1]] - 1)
    BY <1>3, <1>5
  <2>2. QED  BY <2>1, <1>4, <1>5, NodeFacts
<1>7. PICK last \in BOOLEAN : last = (n = RootOf(n[1]))
  OBVIOUS
<1>8. /\ IF <<x.pos, n[2]>> \in DOMAIN cache THEN UNCHANGED <<cache, heap>> ELSE Copy(n, x.pos)
      /\ reader' = [reader EXCEPT ![r].idx = IF last THEN 0 ELSE @ + 1,
                                  ![r].pc = IF last THEN "again" ELSE @]
  BY <1>2, <1>4, <1>7 DEF Load
<1>9. ~last => x.idx + 1 < Sizes[x.to[1]]
  <2>1. ~last => x.idx # Sizes[x.to[1]] - 1
    BY <1>4, <1>6, <1>7 DEF RootOf
  <2>2. QED  BY <2>1, <1>3, <1>5
<1>10. /\ reader' \in [Readers -> ThreadStates]
       /\ \A q \in Readers \ {r} : reader'[q] = reader[q]
       /\ reader'[r].pc = (IF last THEN "again" ELSE "load") /\ reader'[r].got = reader[r].got
       /\ reader'[r].idx = (IF last THEN 0 ELSE x.idx + 1)
       /\ reader'[r].pos = reader[r].pos
       /\ reader'[r].obj = reader[r].obj /\ reader'[r].to = reader[r].to
  <2>1. PICK idx \in Nat : idx = IF last THEN 0 ELSE x.idx + 1
    BY <1>3
  <2>2. PICK pc \in ReaderStates : pc = IF last THEN "again" ELSE "load"
    BY DEF ReaderStates
  <2>3. PICK y : y = [x EXCEPT !.idx = idx, !.pc = pc]
    OBVIOUS
  <2>4. /\ y \in ThreadStates
        /\ y.pc = pc /\ y.got = x.got /\ y.idx = idx
        /\ y.pos = x.pos /\ y.obj = x.obj /\ y.to = x.to
    BY <2>3 DEF ThreadStates
  <2>5. reader' = [reader EXCEPT ![r] = y]
    BY <2>1, <2>2, <2>3, <1>1, <1>2, <1>3, <1>8 DEF ThreadStates
  <2>6. /\ reader' \in [Readers -> ThreadStates] /\ reader'[r] = y
        /\ \A q \in Readers \ {r} : reader'[q] = reader[q]
    BY <2>4, <2>5, <1>3
  <2>7. QED  BY <2>1, <2>2, <2>4, <2>6, <1>2
<1>11. DOMAIN heap \subseteq DOMAIN heap' => ReaderOK(r)'
  <2> HAVE DOMAIN heap \subseteq DOMAIN heap'
  <2>1. reader'[r].pc \in {"load", "again", "insert"} /\ reader'[r].got = NoObj
    BY <1>2, <1>3, <1>10
  <2>2. reader'[r].pc = "load" => reader'[r].idx < Sizes[reader[r].to[1]]
    BY <1>2, <1>9, <1>10
  <2>3. QED  BY <2>1, <2>2, <1>1, <1>10, FetchesOn
<1>12. CASE <<x.pos, n[2]>> \in DOMAIN cache
  <2>1. UNCHANGED <<cache, heap>>
    BY <1>8, <1>12
  <2>2. QED  BY <2>1, <1>1, <1>10, <1>11, KeepImap, ThreadMoves DEF Memory, MemoryTypes
<1>13. CASE <<x.pos, n[2]>> \notin DOMAIN cache
  <2>1. Copy(n, x.pos) /\ Good(x.pos, n[1]) /\ Open(n[1])
    BY <1>3, <1>6, <1>8, <1>13
  <2>2. /\ DOMAIN heap \subseteq DOMAIN heap'
        /\ DOMAIN heap' \subseteq Objs /\ IsFiniteSet(DOMAIN heap')
        /\ DOMAIN cache' \subseteq Nat \X Nat
        /\ ObjectsOK' /\ PointersOK' /\ CacheOK'
    BY <2>1, <1>1, <1>6, CopyFacts
  <2>3. QED  BY <2>2, <1>1, <1>10, <1>11, ThreadCopies
<1>14. QED  BY <1>12, <1>13

\* The last lookup, and the node is put there if it was missing.
LEMMA InsertMemory ==
    ASSUME Order, Memory, [Next]_vars, NEW r \in Readers, Insert(r)
    PROVE  Memory'
<1>1. reader[r].pc = "insert" /\ UNCHANGED <<log, image, stage, imap, failed, fin>>
  BY DEF Insert, treeVars, controlVars
<1>2. PICK x \in ThreadStates : x = reader[r]
  BY ThreadFacts
<1>3. /\ x.to \in Nodes /\ Open(x.to[1]) /\ Good(x.pos, x.to[1])
      /\ reader \in [Readers -> ThreadStates]
  BY <1>1, <1>2, FetchingFacts DEF Memory, MemoryTypes
<1>4. PICK k : k = Key(r)
  OBVIOUS
<1>5. PICK o : o = cache'[k]
  OBVIOUS
<1>6. /\ IF k \in DOMAIN cache THEN UNCHANGED <<cache, heap>> ELSE Copy(x.to, x.pos)
      /\ reader' = [reader EXCEPT ![r].pc = "got", ![r].got = o]
      /\ k = <<x.pos, x.to[2]>>
  BY <1>2, <1>4, <1>5 DEF Insert, Key
<1>7. ASSUME o \in Objs
      PROVE  /\ reader' \in [Readers -> ThreadStates]
             /\ \A q \in Readers \ {r} : reader'[q] = reader[q]
             /\ reader'[r].pc = "got" /\ reader'[r].got = o
             /\ reader'[r].obj = reader[r].obj /\ reader'[r].to = reader[r].to
  BY <1>2, <1>3, <1>6, <1>7 DEF ThreadStates, ReaderStates
<1>8. CASE k \in DOMAIN cache
  <2>1. UNCHANGED <<cache, heap>>
    BY <1>6, <1>8
  <2>2. o \in DOMAIN heap' /\ o \in Objs /\ o # NoObj /\ o[1] = reader[r].to
    BY <2>1, <1>1, <1>4, <1>5, <1>8, FoundFacts
  <2>3. ReaderOK(r)'
    BY <2>1, <2>2, <1>1, <1>7, GotIt
  <2>4. QED  BY <2>1, <2>2, <2>3, <1>1, <1>7, KeepImap, ThreadMoves DEF Memory, MemoryTypes
<1>9. CASE k \notin DOMAIN cache
  <2>1. Copy(x.to, x.pos)
    BY <1>6, <1>9
  <2>2. /\ DOMAIN heap \subseteq DOMAIN heap'
        /\ DOMAIN heap' \subseteq Objs /\ IsFiniteSet(DOMAIN heap')
        /\ DOMAIN cache' \subseteq Nat \X Nat
        /\ ObjectsOK' /\ PointersOK' /\ CacheOK'
        /\ o \in DOMAIN heap' /\ o[1] = x.to
    BY <2>1, <1>1, <1>3, <1>5, <1>6, CopyFacts
  <2>3. o \in Objs /\ o # NoObj /\ o[1] = reader[r].to
    BY <2>2, <1>2, EmptyIsNothing DEF NoObj
  <2>4. ReaderOK(r)'
    BY <2>2, <2>3, <1>1, <1>7, GotIt
  <2>5. QED  BY <2>2, <2>3, <2>4, <1>1, <1>7, ThreadCopies
<1>10. QED  BY <1>8, <1>9

\* Back in ref() with the fetched object.
LEMMA GotMemory ==
    ASSUME Order, Memory, [Next]_vars, NEW r \in Readers, Got(r)
    PROVE  Memory'
<1>1. reader[r].pc = "got" /\ UNCHANGED <<log, image, stage, cache, imap, failed, fin>>
  BY DEF Got, treeVars, controlVars
<1>2. PICK x \in ThreadStates : x = reader[r]
  BY ThreadFacts
<1>3. /\ x.got # NoObj /\ x.got \in DOMAIN heap /\ x.got[1] = x.to /\ x.to \in Nodes
      /\ x.obj # NoObj => x.obj \in DOMAIN heap /\ x.to \in Kids[x.obj[1]]
  BY <1>1, <1>2, ThreadFacts DEF ReaderOK
<1> DEFINE mine == x.obj = NoObj \/ heap[x.obj][x.to].ref = NoRef
           next == IF mine THEN x.got ELSE heap[x.obj][x.to].ref
           hh == IF x.obj # NoObj /\ mine THEN [heap EXCEPT ![x.obj][x.to].ref = next] ELSE heap
<1>4. PICK t : t = next
  OBVIOUS
<1>5. PICK h : h = hh
  OBVIOUS
<1>6. /\ reader' = [reader EXCEPT ![r] = [Resting EXCEPT !.pc = "at", !.obj = t]]
      /\ heap' = Sweep(h, Held(cache', reader', stage'))
  BY <1>2, <1>4, <1>5 DEF Got
<1>7. t \in DOMAIN heap /\ t \in Objs
  <2>1. CASE mine
    BY <2>1, <1>3, <1>4 DEF Memory, MemoryTypes
  <2>2. CASE ~mine
    <3>1. x.obj \in DOMAIN heap /\ x.to \in Kids[x.obj[1]]
      BY <2>2, <1>3
    <3>2. t \in DOMAIN heap
      BY <3>1, <2>2, <1>4 DEF Memory, PointersOK, GoodPointers
    <3>3. QED  BY <3>2 DEF Memory, MemoryTypes
  <2>3. QED  BY <2>1, <2>2
<1>8. DOMAIN h = DOMAIN heap /\ GoodPointers(h)
  <2>1. GoodPointers(heap)
    BY DEF Memory, PointersOK
  <2>2. CASE ~(x.obj # NoObj /\ mine)
    BY <2>1, <2>2, <1>5
  <2>3. CASE x.obj # NoObj /\ mine
    <3>1. PICK o : o = x.obj
      OBVIOUS
    <3>2. PICK c : c = x.to
      OBVIOUS
    <3>3. /\ o \in DOMAIN heap /\ c \in Kids[o[1]] /\ t = x.got /\ t[1] = c /\ t # NoRef
          /\ h = [heap EXCEPT ![o][c].ref = t]
      BY <2>3, <3>1, <3>2, <1>3, <1>4, <1>5 DEF NoRef, NoObj
    <3>4. heap[o] \in [Kids[o[1]] -> Pointers]
      BY <3>3, <2>1 DEF GoodPointers
    <3>5. PICK p \in Pointers : p = heap[o][c]
      BY <3>3, <3>4
    <3>6. PICK u : u = [p EXCEPT !.ref = t]
      OBVIOUS
    <3>7. u \in Pointers /\ u.ref = t /\ u.addr = p.addr
      BY <3>6, <1>7 DEF Pointers
    <3>8. /\ DOMAIN h = DOMAIN heap
          /\ \A y \in DOMAIN heap : y # o => h[y] = heap[y]
          /\ h[o] \in [Kids[o[1]] -> Pointers]
          /\ \A d \in Kids[o[1]] : h[o][d] = IF d = c THEN u ELSE heap[o][d]
      BY <3>3, <3>4, <3>5, <3>6, <3>7
    <3>9. ASSUME NEW y \in DOMAIN h
          PROVE  /\ h[y] \in [Kids[y[1]] -> Pointers]
                 /\ \A d \in Kids[y[1]] :
                       /\ Leads(h[y][d].addr, d)
                       /\ IF h[y][d].ref = NoRef THEN Open(d[1])
                          ELSE h[y][d].ref \in DOMAIN h /\ h[y][d].ref[1] = d
      <4>1. CASE y # o
        BY <4>1, <3>8, <2>1 DEF GoodPointers
      <4>2. CASE y = o
        <5>1. ASSUME NEW d \in Kids[o[1]]
              PROVE  /\ Leads(h[o][d].addr, d)
                     /\ IF h[o][d].ref = NoRef THEN Open(d[1])
                        ELSE h[o][d].ref \in DOMAIN h /\ h[o][d].ref[1] = d
          <6>1. CASE d = c
            <7>1. Leads(p.addr, c)
              BY <3>3, <3>5, <2>1 DEF GoodPointers
            <7>2. h[o][d] = u /\ t \in DOMAIN h
              BY <6>1, <3>8, <1>7
            <7>3. QED  BY <6>1, <7>1, <7>2, <3>3, <3>7
          <6>2. CASE d # c
            BY <6>2, <3>3, <3>8, <2>1 DEF GoodPointers
          <6>3. QED  BY <6>1, <6>2
        <5>2. QED  BY <4>2, <5>1, <3>8
      <4>3. QED  BY <4>1, <4>2
    <3>10. QED  BY <3>8, <3>9 DEF GoodPointers
  <2>4. QED  BY <2>2, <2>3
<1>9. Hop(r, t)
  BY <1>6 DEF Hop
<1>10. /\ reader' \in [Readers -> ThreadStates]
       /\ \A q \in Readers \ {r} : reader'[q] = reader[q]
       /\ reader'[r].pc = "at" /\ reader'[r].obj = t /\ reader'[r].got = NoObj
  BY <1>7, <1>9, HopFacts DEF Memory
<1>11. QED  BY <1>1, <1>6, <1>7, <1>8, <1>10, ThreadSweeps

\* The end of a walk.
LEMMA LeaveMemory ==
    ASSUME Order, Memory, [Next]_vars, NEW r \in Readers, Leave(r)
    PROVE  Memory'
<1>1. /\ UNCHANGED <<log, image, stage, cache, imap, failed, fin>>
      /\ reader' = [reader EXCEPT ![r] = Resting]
      /\ heap' = Sweep(heap, Held(cache', reader', stage'))
  BY DEF Leave, treeVars, controlVars
<1>2. PICK y \in ThreadStates : y = Resting
  BY RestingFacts
<1>3. /\ reader' \in [Readers -> ThreadStates]
      /\ \A q \in Readers \ {r} : reader'[q] = reader[q]
      /\ reader'[r] = y
  BY <1>1, <1>2 DEF Memory, MemoryTypes
<1>4. y.pc = "idle" /\ y.obj = NoObj /\ y.got = NoObj
  BY <1>2, RestingFacts
<1>5. PICK h : h = heap
  OBVIOUS
<1>6. DOMAIN h = DOMAIN heap /\ GoodPointers(h) /\ heap' = Sweep(h, Held(cache', reader', stage'))
  BY <1>1, <1>5 DEF Memory, PointersOK
<1>7. reader'[r].pc = "idle" /\ reader'[r].obj = NoObj /\ reader'[r].got = NoObj
  BY <1>3, <1>4
<1>8. UNCHANGED <<log, image, stage, cache, imap, failed, fin>>
  BY <1>1
<1>9. QED  BY <1>3, <1>6, <1>7, <1>8, ThreadSweeps

-----------------------------------------------------------------------------
(* Vacuum, Clear and Stop, and the steps together. *)

\* Nodes leave the cache, and memory if nobody else holds them.
LEMMA NodesLeave ==
    ASSUME Order, Memory, [Next]_vars,
           UNCHANGED <<log, image, stage, imap, failed, fin, reader>>,
           NEW gone, cache' = [k \in DOMAIN cache \ gone |-> cache[k]],
           heap' = Sweep(heap, Held(cache', reader', stage'))
    PROVE  Memory'
<1>1. /\ DOMAIN cache' \subseteq DOMAIN cache
      /\ \A k \in DOMAIN cache' : cache'[k] = cache[k] /\ cache'[k] \in DOMAIN heap
  BY DEF Memory, CacheOK
<1>2. \A q \in Readers : /\ reader'[q].obj # NoObj => reader'[q].obj \in DOMAIN heap
                         /\ reader'[q].got # NoObj => reader'[q].got \in DOMAIN heap
  BY DEF Memory, ReadersOK, ReaderOK
<1>3. \A i \in Deltas : stage[i] # "none" /\ stage'[i] \notin InTree => Open(i)'
  <2>1. \A i \in Deltas : stage[i] = "final" => Open(i)'
    BY DeltaFacts DEF Open
  <2>2. QED  BY <2>1 DEF Order, OrderTypes, InTree
<1>4. PICK h : h = heap
  OBVIOUS
<1>5. DOMAIN h = DOMAIN heap /\ GoodPointers(h) /\ heap' = Sweep(h, Held(cache', reader', stage'))
  BY <1>4 DEF Memory, PointersOK
<1>6. /\ DOMAIN heap' \subseteq Objs /\ IsFiniteSet(DOMAIN heap')
      /\ ObjectsOK' /\ PointersOK'
      /\ \A k \in DOMAIN cache' : cache'[k] \in DOMAIN heap'
      /\ \A q \in Readers : reader'[q].obj # NoObj => reader'[q].obj \in DOMAIN heap'
      /\ \A q \in Readers : reader'[q].got # NoObj => reader'[q].got \in DOMAIN heap'
  BY <1>1, <1>2, <1>3, <1>5, SweepFacts
<1>7. CacheOK'
  BY <1>1, <1>6, SameFin, KeepCache
<1>8. ReadersOK'
  BY <1>6, KeepReader DEF ReadersOK
<1>9. ImagesOK' /\ FailedOK' /\ ImapOK'
  BY KeepImages, KeepFailed, KeepImap
<1>10. MemoryTypes'
  BY <1>1, <1>6 DEF Memory, MemoryTypes
<1>11. QED  BY <1>6, <1>7, <1>8, <1>9, <1>10 DEF Memory

\* Steps of the threads, the vacuum and Clear.
LEMMA QuietMemory ==
    ASSUME Order, Memory, [Next]_vars, Quiet
    PROVE  Memory'
<1>1. UNCHANGED <<log, stage, image, fin>>
  BY QuietFrame
<1>2. ImagesOK'
  BY <1>1, KeepImages
<1>3. CASE \E r \in Readers : Begin(r) \/ Follow(r) \/ Fetch(r) \/ Leave(r)
  BY <1>3, BeginMemory, FollowMemory, FindMemory, LookMemory, LoadMemory, AgainMemory,
     InsertMemory, GotMemory, LeaveMemory DEF Fetch
<1>4. CASE Stop \/ VacuumChecks \/ VacuumTests \/ VacuumTargets \/ VacuumWakes \/ UNCHANGED vars
  <2>1. UNCHANGED <<heap, cache, imap, reader, failed, fin>>
    BY <1>4 DEF Stop, VacuumChecks, VacuumTests, VacuumTargets, VacuumWakes, vars, controlVars
  <2>2. QED  BY <2>1, <1>1, <1>2, MemorySame
<1>5. CASE VacuumEvicts
  <2>1. PICK gone : cache' = [k \in DOMAIN cache \ gone |-> cache[k]]
    BY <1>5 DEF VacuumEvicts
  <2>2. UNCHANGED <<imap, failed, reader>> /\ heap' = Sweep(heap, Held(cache', reader', stage'))
    BY <1>5 DEF VacuumEvicts, controlVars
  <2>3. QED  BY <2>1, <2>2, <1>1, NodesLeave
<1>6. CASE ClearShard
  <2>1. PICK gone : cache' = [k \in DOMAIN cache \ gone |-> cache[k]]
    BY <1>6 DEF ClearShard
  <2>2. UNCHANGED <<imap, failed, reader>> /\ heap' = Sweep(heap, Held(cache', reader', stage'))
    BY <1>6 DEF ClearShard
  <2>3. QED  BY <2>1, <2>2, <1>1, NodesLeave
<1>7. CASE ClearIndex
  <2>1. UNCHANGED <<heap, cache, reader, failed>> /\ imap' = <<>>
    BY <1>7 DEF ClearIndex
  <2>2. ObjectsOK' /\ PointersOK'
    BY <2>1, <1>1, KeepHeap
  <2>3. CacheOK' /\ ReadersOK' /\ FailedOK'
    BY <2>1, <1>1, SameFin, KeepRest
  <2>4. ImapOK'
    BY <2>1 DEF ImapOK
  <2>5. imap' \in Seq([of : Deltas, pos : Nat])
    BY <2>1, ShortSeqs
  <2>6. MemoryTypes'
    BY <2>1, <2>5 DEF Memory, MemoryTypes
  <2>7. QED  BY <1>2, <2>2, <2>3, <2>4, <2>6 DEF Memory
<1>8. QED  BY <1>3, <1>4, <1>5, <1>6, <1>7 DEF Quiet, Vacuum

\* Every step keeps Memory.
LEMMA NextMemory ==
    ASSUME Order, Memory, [Next]_vars
    PROVE  Memory'
BY NextSplit, QuietMemory, PublishMemory, SerializeMemory, AppendImageMemory, OtherImageMemory,
   ScanMemory, FinalizerConvertsMemory, FinalizerMapsMemory, FinalizerAppliesMemory

\* The instance has been opened: copies of the nodes of the first delta are cached.
LEMMA InitMemory == Init => Memory
<1> SUFFICES ASSUME Init PROVE Memory
  OBVIOUS
<1>1. Order
  BY InitOrder
<1>2. Good(2, 1) /\ Open(1) /\ 1 \in Deltas /\ Sizes[1] \in Nat
  BY <1>1, FirstIsGood, DeltaFacts DEF Open
<1> DEFINE offs == 0..(Sizes[1] - 1)
           Obj(o) == <<<<1, o>>, 1>>
<1>3. \A o \in offs : <<1, o>> \in Nodes /\ Obj(o) \in Objs
  BY <1>2, NodeFacts DEF Objs
<1>4. /\ DOMAIN cache = {<<2, o>> : o \in offs}
      /\ \A k \in DOMAIN cache : k[1] = 2 /\ k[2] \in offs /\ cache[k] = Obj(k[2])
  BY DEF Init
<1>5. DOMAIN heap = {Obj(o) : o \in offs}
  <2>1. DOMAIN heap = {cache[k] : k \in DOMAIN cache}
    BY DEF Init
  <2>2. \A o \in offs : <<2, o>> \in DOMAIN cache /\ cache[<<2, o>>] = Obj(o)
    BY <1>4
  <2>3. \A k \in DOMAIN cache : k[2] \in offs /\ cache[k] = Obj(k[2])
    BY <1>4
  <2> HIDE DEF offs
  <2>4. ASSUME NEW x PROVE x \in DOMAIN heap <=> x \in {Obj(o) : o \in offs}
    <3>1. ASSUME NEW o \in offs, x = Obj(o) PROVE x \in DOMAIN heap
      BY <3>1, <2>1, <2>2
    <3>2. ASSUME NEW k \in DOMAIN cache, x = cache[k] PROVE x \in {Obj(o) : o \in offs}
      BY <3>2, <2>3
    <3>3. QED  BY <3>1, <3>2, <2>1
  <2>5. QED  BY <2>4, <2>1
<1>6. \A x \in DOMAIN heap : heap[x] = Copied(x[1], 2, <<>>)
  BY DEF Init
<1>7. \A x \in DOMAIN heap : x \in Objs /\ x[1] \in Nodes /\ x[1][1] = 1 /\ x[2] = 1
  BY <1>3, <1>5
<1>8. IsFiniteSet(DOMAIN heap)
  <2> DEFINE f == [o \in offs |-> Obj(o)]
  <2>1. f \in Surjection(offs, DOMAIN heap)
    BY <1>5 DEF Surjection
  <2>2. IsFiniteSet(offs)
    <3>1. 0 \in Int /\ Sizes[1] - 1 \in Int
      BY <1>2
    <3>2. QED  BY <3>1, FS_Interval
  <2> HIDE DEF f, offs
  <2>3. QED  BY <2>1, <2>2, FS_Surjection
<1>9. MemoryTypes
  <2>1. DOMAIN cache \subseteq Nat \X Nat
    BY <1>2, <1>4
  <2>2. imap \in Seq([of : Deltas, pos : Nat])
    <3>1. imap = <<>>
      BY DEF Init
    <3>2. QED  BY <3>1, ShortSeqs
  <2>3. reader \in [Readers -> ThreadStates]
    <3>1. reader = [r \in Readers |-> Resting]
      BY DEF Init
    <3>2. QED  BY <3>1, RestingFacts
  <2>4. failed \in BOOLEAN
    BY DEF Init
  <2>5. QED  BY <2>1, <2>2, <2>3, <2>4, <1>7, <1>8 DEF MemoryTypes
<1>10. ObjectsOK
  <2>1. stage = [i \in Deltas |-> IF i = 1 THEN "final" ELSE "none"]
    BY DEF Init
  <2>2. \A n \in Nodes : stage[n[1]] \notin InTree
    BY <2>1, NodeFacts DEF InTree
  <2>3. QED  BY <2>2, <1>2, <1>7 DEF ObjectsOK
<1>11. PointersOK
  <2>1. ASSUME NEW x \in DOMAIN heap
        PROVE  /\ heap[x] \in [Kids[x[1]] -> Pointers]
               /\ \A c \in Kids[x[1]] :
                     /\ Leads(heap[x][c].addr, c)
                     /\ IF heap[x][c].ref = NoRef THEN Open(c[1])
                        ELSE heap[x][c].ref \in DOMAIN heap /\ heap[x][c].ref[1] = c
    <3>1. \A c \in Kids[x[1]] : c[1] = 1
      <4>1. ASSUME NEW c \in Kids[x[1]], c[1] # 1 PROVE FALSE
        BY <4>1, <1>7, RemoteFacts, NothingBeforeTheFirst
      <4>2. QED  BY <4>1
    <3>2. heap[x] = [c \in Kids[x[1]] |-> [ref |-> NoRef, addr |-> <<"a", 2>>]]
      BY <3>1, <1>6, <1>7 DEF Copied
    <3>3. [ref |-> NoRef, addr |-> <<"a", 2>>] \in Pointers
      BY DEF Pointers, Addrs
    <3>4. \A c \in Kids[x[1]] : heap[x][c].ref = NoRef /\ heap[x][c].addr = <<"a", 2>>
      BY <3>2
    <3>5. QED  BY <3>1, <3>2, <3>3, <3>4, <1>2 DEF Leads
  <2>2. QED  BY <2>1 DEF PointersOK, GoodPointers
<1>12. ImagesOK
  <2>1. ASSUME NEW p \in DOMAIN log, log[p].type = "afterimage"
        PROVE  DOMAIN log[p].ptr = Remote(log[p].of) /\ Remote(log[p].of) = {}
    <3>1. p = 2
      <4>1. /\ DOMAIN log = 1..Len(log) /\ Len(log) \in Nat
            /\ scanned = Len(log)
        BY <1>1, ImagesFacts DEF Order, Init
      <4>2. Len(log) = First
        BY InitOrder
      <4>3. p = 2 \/ p > First
        BY <2>1, <1>1 DEF Order, LogShape
      <4>4. QED  BY <4>1, <4>2, <4>3, DeltaFacts
    <3>2. log[2] = AfterImage(1, <<>>)
      BY InitOrder
    <3>3. log[p].of = 1 /\ log[p].ptr = <<>>
      BY <3>1, <3>2 DEF AfterImage
    <3>4. QED  BY <3>3, NothingBeforeTheFirst
  <2>2. image = <<>>
    BY DEF Init
  <2>3. QED  BY <2>1, <2>2 DEF ImagesOK
<1>13. ImapOK
  <2>1. imap = <<>>
    BY DEF Init
  <2>2. QED  BY <2>1 DEF ImapOK
<1>14. CacheOK
  BY <1>2, <1>4, <1>5 DEF CacheOK
<1>15. ReadersOK
  <2>1. \A r \in Readers : reader[r] = Resting
    BY DEF Init
  <2>2. QED  BY <2>1, RestingFacts DEF ReadersOK, ReaderOK
<1>16. FailedOK
  BY DEF Init, FailedOK
<1>17. QED  BY <1>9, <1>10, <1>11, <1>12, <1>13, <1>14, <1>15, <1>16 DEF Memory

-----------------------------------------------------------------------------
(* The invariant and what it implies. *)

\* IInv holds in every state: trees are written, met and finalized in order, addresses
\* lead to their nodes, and threads fetch only from deltas that may be read.
THEOREM NodeCacheInvariance == Spec => []IInv
<1>1. Init => IInv
  BY InitOrder, InitMemory DEF IInv
<1>2. IInv /\ [Next]_vars => IInv'
  BY NextOrder, NextMemory DEF IInv
<1>3. QED  BY <1>1, <1>2, PTL DEF Spec

\* What is found under an address is the node that is meant, in the cache, in memory,
\* in the log and in the index: however the addresses of intentions are resolved
\* (NodePtr::fetch, serialize_node_ptr, SetDeltaPosition), and whoever wrote the after-image.
THEOREM AddressesAreRight == Spec => []AddressesMatchLog
<1>1. IInv => AddressesMatchLog
  <2> SUFFICES ASSUME IInv PROVE AddressesMatchLog
    OBVIOUS
  <2>1. Order /\ Memory
    BY DEF IInv
  <2>2. ASSUME NEW addr, NEW n, Leads(addr, n)
        PROVE  IF addr[1] = "i" THEN addr[2] = n[1] ELSE addr[2] \in Images(n[1])
    BY <2>2 DEF Leads, Good
  <2>3. \A k \in DOMAIN cache : k[1] \in Images(cache[k][1][1]) /\ k[2] = cache[k][1][2]
    BY <2>1 DEF Memory, CacheOK, Good
  <2>4. \A o \in DOMAIN heap : \A c \in DOMAIN heap[o] : Leads(heap[o][c].addr, c)
    BY <2>1 DEF Memory, PointersOK, GoodPointers
  <2>5. \A p \in DOMAIN log : \A c \in DOMAIN log[p].ptr : Leads(log[p].ptr[c], c)
    <3> SUFFICES ASSUME NEW p \in DOMAIN log, NEW c \in DOMAIN log[p].ptr
                 PROVE  Leads(log[p].ptr[c], c)
      OBVIOUS
    <3>1. log[p].type \in {"intention", "afterimage"}
      <4>1. log[p] \in [type : {"intention", "afterimage"}, of : Deltas, ptr : Ptrs]
        BY <2>1, ImagesFacts, ElementOfSeq, Zenon DEF Order, OrderTypes
      <4>2. QED  BY <4>1
    <3>2. DOMAIN <<>> = {}
      OBVIOUS
    <3>3. log[p].type = "afterimage"
      BY <2>1, <3>1, <3>2 DEF Order, LogShape
    <3>4. QED  BY <3>3, <2>1 DEF Memory, ImagesOK
  <2>6. \A k \in DOMAIN imap : imap[k].pos \in Images(imap[k].of)
    BY <2>1 DEF Memory, ImapOK, Good
  <2>7. QED  BY <2>2, <2>3, <2>4, <2>5, <2>6 DEF AddressesMatchLog
<1>2. QED  BY <1>1, NodeCacheInvariance, PTL

\* While the scanner has missed nothing, ApplyAfterImageDelta and CacheAfterImage put a
\* node under the same key, that of the first after-image of its delta.
THEOREM OneKeyPerNode == Spec => []CachedUnderPrimary
<1>1. IInv => CachedUnderPrimary
  <2> SUFFICES ASSUME IInv, bound.misses = 0, NEW k \in DOMAIN cache
               PROVE  k[1] = Min(Images(cache[k][1][1]))
    BY DEF CachedUnderPrimary
  <2>1. PICK d : d = cache[k][1][1]
    OBVIOUS
  <2>2. k[1] \in Images(d) /\ \A p \in Images(d) : k[1] <= p
    BY <2>1 DEF IInv, Memory, CacheOK, Good
  <2>3. Images(d) \in SUBSET Nat
    BY ImagesFacts DEF IInv, Order
  <2>4. Min(Images(d)) \in Images(d) /\ Min(Images(d)) <= k[1]
    BY <2>2, <2>3, MinOfNats
  <2>5. QED  BY <2>1, <2>2, <2>3, <2>4
<1>2. QED  BY <1>1, NodeCacheInvariance, PTL

\* Deltas that may be read have an after-image.
LEMMA OpenIsWritten ==
    ASSUME Order, NEW d \in Deltas, Open(d)
    PROVE  Images(d) # {}
<1>1. CASE d = 1
  BY <1>1, FirstImage DEF Order
<1>2. CASE d # 1
  <2>1. PICK j \in Deltas : d <= j /\ stage[j] = "final"
    BY <1>2 DEF Open
  <2>2. d \in Nat \ {0} /\ j \in Nat \ {0}
    BY DeltaFacts
  <2>3. j # 1 /\ pushed[j] # 0
    BY <2>1, <2>2, <1>2 DEF Order, StagesInOrder
  <2>4. pushed[j] \in Images(j)
    BY <2>3 DEF Order, PushedOK
  <2>5. CASE d = j
    BY <2>4, <2>5
  <2>6. CASE d < j
    BY <2>4, <2>6 DEF Order, ImagesInOrder
  <2>7. QED  BY <2>1, <2>2, <2>5, <2>6
<1>3. QED  BY <1>1, <1>2

\* findAfterImagePosition never waits at the end of the log: "that resolution will
\* always succeed".
THEOREM ResolutionSucceeds == Spec => []FetchesAreAnswered
<1>1. IInv => FetchesAreAnswered
  <2> SUFFICES ASSUME IInv, NEW r \in Readers, reader[r].pc = "find", reader[r].addr[1] = "i"
               PROVE  Images(reader[r].addr[2]) # {}
    BY DEF FetchesAreAnswered
  <2>1. Order /\ Memory
    BY DEF IInv
  <2>2. PICK x : x = reader[r]
    OBVIOUS
  <2>3. x.to \in Nodes /\ Open(x.to[1]) /\ Leads(x.addr, x.to)
    BY <2>1, <2>2, ThreadFacts DEF ReaderOK
  <2>4. x.addr[2] = x.to[1] /\ x.to[1] \in Deltas
    BY <2>2, <2>3, NodeFacts DEF Leads
  <2>5. QED  BY <2>1, <2>2, <2>3, <2>4, OpenIsWritten
<1>2. QED  BY <1>1, NodeCacheInvariance, PTL

\* The assertions of ApplyAfterImageDelta and ConvertToAfterImage fail only for a delta
\* whose first after-image the scanner has missed.
THEOREM CacheAssertionsHold == Spec => []CacheAssertsHold
<1>1. IInv => CacheAssertsHold
  <2> SUFFICES ASSUME IInv, failed
               PROVE  \E i \in Deltas : pushed[i] # 0 /\ pushed[i] # Min(Images(i))
    BY DEF CacheAssertsHold
  <2>1. PICK i \in Deltas : pushed[i] # 0 /\ Missed(i)
    BY DEF IInv, Memory, FailedOK
  <2>2. PICK p \in Images(i) : p < pushed[i]
    BY <2>1 DEF Missed
  <2>3. Images(i) \in SUBSET Nat /\ pushed[i] \in Nat
    BY ImagesFacts DEF IInv, Order, OrderTypes
  <2>4. Min(Images(i)) \in Nat /\ Min(Images(i)) <= p
    BY <2>2, <2>3, MinOfNats
  <2>5. Min(Images(i)) # pushed[i]
    BY <2>2, <2>3, <2>4
  <2>6. QED  BY <2>1, <2>5
<1>2. QED  BY <1>1, NodeCacheInvariance, PTL

-----------------------------------------------------------------------------
(* The condition variable of the vacuum thread. *)

\* An induction of its own, with nothing of the above.
WakeInv ==
    /\ \E p, s, t : vacuum = [pc |-> p, slot |-> s, target |-> t]
    /\ notified \in BOOLEAN /\ stop \in BOOLEAN /\ traces \in BOOLEAN
    /\ WakeUpNotLost

\* Whoever publishes a trace or stops the cache notifies a sleeping vacuum thread, and
\* the thread goes to sleep only if there is neither: no wake-up of cond_ is lost.
THEOREM NoLostWakeUp == Spec => []WakeUpNotLost
<1>1. Init => WakeInv
  <2> SUFFICES ASSUME Init PROVE WakeInv
    OBVIOUS
  <2>1. vacuum = [pc |-> "check", slot |-> 0, target |-> 0] /\ notified = FALSE /\ stop = FALSE
        /\ traces = FALSE
    BY DEF Init
  <2>2. vacuum.pc # "sleep"
    BY <2>1
  <2>3. QED  BY <2>1, <2>2 DEF WakeInv, WakeUpNotLost
<1>2. WakeInv /\ [Next]_vars => WakeInv'
  <2> SUFFICES ASSUME WakeInv, [Next]_vars PROVE WakeInv'
    OBVIOUS
  <2>1. CASE UNCHANGED <<vacuumVars, stop>>
    BY <2>1 DEF WakeInv, WakeUpNotLost, vacuumVars
  <2>2. ASSUME vacuum' = vacuum, Notify, stop' \in BOOLEAN, traces' \in BOOLEAN
        PROVE  WakeInv'
    BY <2>2 DEF WakeInv, WakeUpNotLost, Notify
  <2>3. ASSUME NEW p, NEW s, NEW t, vacuum' = [pc |-> p, slot |-> s, target |-> t],
               p # "sleep", notified' \in BOOLEAN, UNCHANGED <<stop, traces>>
        PROVE  WakeInv'
    <3>1. vacuum'.pc = p
      BY <2>3
    <3>2. QED  BY <2>3, <3>1 DEF WakeInv, WakeUpNotLost
  <2>4. PICK p, s, t : vacuum = [pc |-> p, slot |-> s, target |-> t]
    BY DEF WakeInv
  <2>5. vacuum.pc = p /\ vacuum.slot = s /\ \A q : [vacuum EXCEPT !.pc = q] = [pc |-> q, slot |-> s, target |-> t]
    BY <2>4
  <2>6. CASE Tree \/ Finalizer \/ UNCHANGED vars
    <3>1. UNCHANGED <<vacuumVars, stop>>
      BY <2>6 DEF Tree, Finalizer, vars, Publish, Serialize, SerializeTree, AppendImage, OtherImage,
         Scan, ScanMisses, FinalizerConverts, FinalizerMaps, FinalizerApplies, controlVars, vacuumVars
    <3>2. QED  BY <3>1, <2>1
  <2>7. CASE ClearIndex \/ Stop
    <3>1. vacuum' = vacuum /\ Notify /\ stop' \in BOOLEAN /\ traces' \in BOOLEAN
      BY <2>7 DEF ClearIndex, Stop, WakeInv
    <3>2. QED  BY <3>1, <2>2
  <2>8. CASE ClearShard
    BY <2>8, <2>1 DEF ClearShard
  <2>9. ASSUME NEW r \in Readers, Begin(r) \/ Follow(r) \/ Find(r) \/ Load(r) \/ Again(r) \/ Insert(r) \/ Got(r)
        PROVE  WakeInv'
    <3>1. UNCHANGED <<vacuumVars, stop>>
      BY <2>9 DEF Begin, Follow, Find, Load, Again, Insert, Got, controlVars, vacuumVars
    <3>2. QED  BY <3>1, <2>1
  <2>10. ASSUME NEW r \in Readers, Look(r) \/ Leave(r)
         PROVE  WakeInv'
    <3>1. vacuum' = vacuum /\ stop' = stop
      BY <2>10 DEF Look, Leave, controlVars
    <3>2. UNCHANGED <<traces, notified>> \/ (traces' = TRUE /\ Notify)
      BY <2>10 DEF Look, Leave
    <3>3. CASE UNCHANGED <<traces, notified>>
      BY <3>1, <3>3, <2>1 DEF vacuumVars
    <3>4. CASE traces' = TRUE /\ Notify
      BY <3>1, <3>4, <2>2 DEF WakeInv
    <3>5. QED  BY <3>2, <3>3, <3>4
  <2>11. CASE VacuumChecks
    <3>1. UNCHANGED <<stop, traces, notified>>
      BY <2>11 DEF VacuumChecks, controlVars
    <3>2. PICK q : q = IF stop THEN "done" ELSE IF traces \/ UsedBytes > Limit THEN "test" ELSE "sleep"
      OBVIOUS
    <3>3. vacuum' = [pc |-> q, slot |-> s, target |-> t]
      BY <2>11, <3>2, <2>5 DEF VacuumChecks
    <3>4. CASE q # "sleep"
      BY <3>1, <3>3, <3>4, <2>3 DEF WakeInv
    <3>5. CASE q = "sleep"
      <4>1. ~stop /\ ~traces
        BY <3>2, <3>5
      <4>2. QED  BY <4>1, <3>1, <3>3 DEF WakeInv, WakeUpNotLost
    <3>6. QED  BY <3>4, <3>5
  <2>12. CASE VacuumTests \/ VacuumWakes
    <3>1. UNCHANGED <<stop, traces>> /\ notified' \in BOOLEAN
      BY <2>12 DEF VacuumTests, VacuumWakes, WakeInv, controlVars
    <3>2. PICK q : q # "sleep" /\ vacuum' = [vacuum EXCEPT !.pc = q]
      BY <2>12 DEF VacuumTests, VacuumWakes
    <3>3. vacuum' = [pc |-> q, slot |-> s, target |-> t]
      BY <3>2, <2>5
    <3>4. QED  BY <3>1, <3>2, <3>3, <2>3
  <2>13. CASE VacuumTargets
    <3>1. UNCHANGED <<stop, traces, notified>>
      BY <2>13 DEF VacuumTargets, controlVars
    <3>2. PICK e : vacuum' = [pc |-> "evict", slot |-> 0, target |-> e]
      BY <2>13 DEF VacuumTargets
    <3>3. QED  BY <3>1, <3>2, <2>3 DEF WakeInv
  <2>14. CASE VacuumEvicts
    <3>1. UNCHANGED <<stop, traces, notified>>
      BY <2>14 DEF VacuumEvicts, controlVars
    <3>2. CASE vacuum' = [pc |-> "check", slot |-> 0, target |-> 0]
      BY <3>1, <3>2, <2>3 DEF WakeInv
    <3>3. CASE vacuum' = [vacuum EXCEPT !.slot = @ + 1]
      <4>1. p = "evict"
        BY <2>14, <2>5 DEF VacuumEvicts
      <4>2. vacuum' = [pc |-> "evict", slot |-> s + 1, target |-> t]
        BY <3>3, <4>1, <2>4, <2>5
      <4>3. QED  BY <4>2, <3>1, <2>3 DEF WakeInv
    <3>4. QED  BY <2>14, <3>2, <3>3 DEF VacuumEvicts
  <2>15. QED
    BY <2>6, <2>7, <2>8, <2>9, <2>10, <2>11, <2>12, <2>13, <2>14 DEF Next, Fetch, Vacuum
<1>3. WakeInv => WakeUpNotLost
  BY DEF WakeInv
<1>4. QED  BY <1>1, <1>2, <1>3, PTL DEF Spec
=============================================================================
