------------------------- MODULE EntryServiceProofs -------------------------
(* The processor is given the intentions of the log in order, and the scanner *)
(* misses after-images only when the processor read ahead of it, for any log, *)
(* any number of clients and any size of the cache.                           *)
EXTENDS EntryService, MinMaxFacts

-----------------------------------------------------------------------------
(* The inductive invariant. *)

Scanners == [pc : {"top", "look", "store", "done"}, next : Nat, tail : Nat, entry : Entries]

Readers == [pc : {"read", "wait", "io", "store", "done", "undefined"},
            pos : Nat, entry : Entries]

Appends == [pc : {"begin", "reserved", "written", "done"}, pos : Nat]

TypeOK ==
    /\ log \in Seq(Entries)
    /\ scanner \in Scanners
    /\ reader \in Readers
    /\ client \in [Clients -> Appends]
    /\ writer \in [pc : {"begin", "reserved"}, pos : Nat, ipos : Nat]
    /\ delivered \in Seq(Nat)

Written(p) == p \in DOMAIN log /\ log[p].type # "hole"

\* A cached entry is what the log holds at its position, for good.
CacheMatchesLog == \A p \in DOMAIN cache : Written(p) /\ cache[p] = log[p]

\* What the scanner has passed is written, and so is what it is about to store;
\* an after-image was pushed by then.
ScannerInv ==
    /\ Start <= scanner.next /\ scanner.next <= scanner.tail
    /\ scanner.tail <= Len(log) + 1
    /\ \A p \in Start..(scanner.next - 1) : Written(p)
    /\ scanner.pc \in {"look", "store"} => scanner.next < scanner.tail
    /\ scanner.pc = "store" =>
           /\ Written(scanner.next) /\ scanner.entry = log[scanner.next]
           /\ scanner.entry.type = "afterimage" => scanner.next \in pushed

\* What the iterator has passed is written, and so is what it is about to store.
ReaderInv ==
    /\ Start <= reader.pos
    /\ \A p \in Start..(reader.pos - 1) : Written(p)
    /\ reader.pc = "store" => Written(reader.pos) /\ reader.entry = log[reader.pos]

\* A reserved position is a hole, and nobody else's.
AppendsInv ==
    /\ \A c \in Clients : client[c].pc = "reserved" =>
           /\ client[c].pos \in DOMAIN log /\ log[client[c].pos] = Hole
           /\ writer.pc = "reserved" => writer.pos # client[c].pos
           /\ \A d \in Clients \ {c} : client[d].pc = "reserved" =>
                  client[d].pos # client[c].pos
    /\ \A c \in Clients : client[c].pc = "written" =>
           client[c].pos \in DOMAIN log /\ log[client[c].pos] = Intention
    /\ writer.pc = "reserved" => writer.pos \in DOMAIN log /\ log[writer.pos] = Hole

\* A new after-image that is cached, or that the scanner has passed, was pushed by
\* the scanner or read by the iterator.
CachedAhead ==
    \A p \in Positions("afterimage") \ DOMAIN OldLog :
        p \in DOMAIN cache \/ p < scanner.next => p \in pushed \/ p < reader.pos

IInv ==
    /\ TypeOK
    /\ CacheMatchesLog
    /\ ScannerInv
    /\ ReaderInv
    /\ AppendsInv
    /\ IntentionsInOrder
    /\ CachedAhead

-----------------------------------------------------------------------------
(* What the operators return. *)

\* The four kinds of entries, and the constants.
LEMMA EntryFacts ==
    /\ Intention \in Entries /\ Filled \in Entries /\ Hole \in Entries
    /\ \A i \in Nat : AfterImage(i) \in Entries
    /\ Intention.type = "intention" /\ Filled.type = "filled" /\ Hole.type = "hole"
    /\ \A i \in Nat : AfterImage(i).type = "afterimage"
    /\ Start \in Nat /\ Start >= 2 /\ Start <= Len(OldLog)
    /\ Len(OldLog) \in Nat /\ DOMAIN OldLog = 1..Len(OldLog)
  BY RestorePointAssumption DEF Intention, Filled, Hole, AfterImage, Entries

\* entry_cache_gc erases entries and leaves the others alone.
LEMMA CollectFacts ==
    ASSUME NEW c
    PROVE  /\ DOMAIN entry_cache_gc(c) \subseteq DOMAIN c
           /\ \A p \in DOMAIN entry_cache_gc(c) : entry_cache_gc(c)[p] = c[p]
  BY DEF entry_cache_gc

\* What is cached after an emplacement was cached before, or is the new entry.
LEMMA EmplaceFacts ==
    ASSUME NEW p, NEW e
    PROVE  \A q \in DOMAIN Emplace(p, e) :
               /\ q \in DOMAIN cache \/ q = p
               /\ Emplace(p, e)[q] = IF q \in DOMAIN cache THEN cache[q] ELSE e
<1> DEFINE c == [q \in DOMAIN cache \cup {p} |-> IF q \in DOMAIN cache THEN cache[q] ELSE e]
<1>1. Emplace(p, e) = entry_cache_gc(c)
  BY DEF Emplace
<1>2. DOMAIN c = DOMAIN cache \cup {p}
  OBVIOUS
<1>3. \A q \in DOMAIN c : c[q] = IF q \in DOMAIN cache THEN cache[q] ELSE e
  OBVIOUS
<1> HIDE DEF c
<1>4. QED  BY <1>1, <1>2, <1>3, CollectFacts

\* Emplacing what the log holds keeps the cache a copy of the log.
LEMMA EmplaceWritten ==
    ASSUME CacheMatchesLog, NEW p, Written(p), log' = log,
           cache' = Emplace(p, log[p])
    PROVE  CacheMatchesLog'
<1> SUFFICES ASSUME NEW q \in DOMAIN cache'
             PROVE  Written(q) /\ cache'[q] = log[q]
  BY DEF CacheMatchesLog, Written
<1>1. q \in DOMAIN cache \/ q = p
  BY EmplaceFacts
<1>2. cache'[q] = IF q \in DOMAIN cache THEN cache[q] ELSE log[p]
  BY EmplaceFacts
<1>3. QED  BY <1>1, <1>2 DEF CacheMatchesLog

-----------------------------------------------------------------------------
(* The log only grows: what is written stays as it is. *)

LogGrows ==
    /\ log' \in Seq(Entries)
    /\ Len(log) <= Len(log')
    /\ \A p \in DOMAIN log : p \in DOMAIN log'
    /\ \A p \in DOMAIN log : log[p].type # "hole" => log'[p] = log[p]

\* An append adds a position.
LEMMA AppendGrows ==
    ASSUME TypeOK, NEW e \in Entries, log' = Append(log, e)
    PROVE  /\ LogGrows
           /\ Len(log) + 1 \in Nat /\ Len(log) + 1 \notin DOMAIN log
           /\ Len(log) + 1 \in DOMAIN log' /\ log'[Len(log) + 1] = e
           /\ \A p \in DOMAIN log : p \in DOMAIN log' /\ log'[p] = log[p]
<1>1. log \in Seq(Entries) /\ Len(log) \in Nat
  BY DEF TypeOK
<1>2. QED  BY <1>1, AppendFacts DEF LogGrows

\* A write changes a hole and nothing else.
LEMMA WriteGrows ==
    ASSUME TypeOK, NEW p \in DOMAIN log, log[p] = Hole, NEW e \in Entries,
           log' = [log EXCEPT ![p] = e]
    PROVE  /\ LogGrows
           /\ DOMAIN log' = DOMAIN log /\ log'[p] = e
           /\ \A q \in DOMAIN log \ {p} : log'[q] = log[q]
<1>1. log \in Seq(Entries)
  BY DEF TypeOK
<1>2. DOMAIN log' = DOMAIN log /\ log' \in Seq(Entries) /\ Len(log') = Len(log)
  BY <1>1
<1>3. log'[p] = e /\ \A q \in DOMAIN log \ {p} : log'[q] = log[q]
  BY <1>1
<1>4. QED  BY <1>1, <1>2, <1>3, EntryFacts DEF LogGrows

\* An unchanged log.
LEMMA SameGrows ==
    ASSUME TypeOK, log' = log
    PROVE  LogGrows
  BY DEF TypeOK, LogGrows

\* What is written stays written.
LEMMA WrittenStays ==
    ASSUME LogGrows, NEW p, Written(p)
    PROVE  Written(p)' /\ log'[p] = log[p]
  BY DEF LogGrows, Written

\* The cache stays a copy of the log when the log grows.
LEMMA CacheFrame ==
    ASSUME CacheMatchesLog, LogGrows, cache' = cache
    PROVE  CacheMatchesLog'
<1> SUFFICES ASSUME NEW p \in DOMAIN cache'
             PROVE  Written(p)' /\ cache'[p] = log'[p]
  BY DEF CacheMatchesLog
<1>1. Written(p) /\ cache[p] = log[p]
  BY DEF CacheMatchesLog
<1>2. QED  BY <1>1, WrittenStays

\* The scanner does not mind what is appended.
LEMMA ScannerFrame ==
    ASSUME TypeOK, ScannerInv, LogGrows, scanner' = scanner, pushed' = pushed
    PROVE  ScannerInv'
<1>1. /\ Start <= scanner.next /\ scanner.next <= scanner.tail
      /\ scanner.tail <= Len(log') + 1
  BY DEF ScannerInv, LogGrows, TypeOK, Scanners
<1>2. \A p \in Start..(scanner.next - 1) : Written(p)'
  BY WrittenStays DEF ScannerInv
<1>3. scanner.pc = "store" => Written(scanner.next)' /\ scanner.entry = log'[scanner.next]
  BY WrittenStays DEF ScannerInv
<1>4. QED  BY <1>1, <1>2, <1>3 DEF ScannerInv

\* Neither does the iterator.
LEMMA ReaderFrame ==
    ASSUME TypeOK, ReaderInv, LogGrows, reader' = reader
    PROVE  ReaderInv'
<1>1. \A p \in Start..(reader.pos - 1) : Written(p)'
  BY WrittenStays DEF ReaderInv
<1>2. reader.pc = "store" => Written(reader.pos)' /\ reader.entry = log'[reader.pos]
  BY WrittenStays DEF ReaderInv
<1>3. QED  BY <1>1, <1>2 DEF ReaderInv

\* An intention that is appended or written late is not before the iterator.
LEMMA OrderFrame ==
    ASSUME TypeOK, ReaderInv, IntentionsInOrder, LogGrows,
           reader'.pos = reader.pos, delivered' = delivered
    PROVE  IntentionsInOrder'
<1> DEFINE P  == Positions("intention") \cap (Start..(reader.pos - 1))
           P1 == Positions("intention")' \cap (Start..(reader.pos - 1))
<1>1. \A p \in Start..(reader.pos - 1) :
          Written(p) /\ Written(p)' /\ log'[p] = log[p]
  BY WrittenStays DEF ReaderInv
<1>2. P = P1
  BY <1>1 DEF Positions, Written
<1>3. QED  BY <1>2 DEF IntentionsInOrder

\* An after-image that is written late is neither cached nor passed.
LEMMA AheadFrame ==
    ASSUME TypeOK, CacheMatchesLog, ScannerInv, CachedAhead, LogGrows,
           DOMAIN cache' \subseteq DOMAIN cache, scanner'.next = scanner.next,
           pushed \subseteq pushed', reader'.pos \in Nat, reader'.pos >= reader.pos
    PROVE  CachedAhead'
<1> SUFFICES ASSUME NEW p \in Positions("afterimage")' \ DOMAIN OldLog,
                    p \in DOMAIN cache' \/ p < scanner'.next
             PROVE  p \in pushed' \/ p < reader'.pos
  BY DEF CachedAhead
<1>1. p \in Nat /\ p >= 1 /\ p > Len(OldLog)
  <2>1. p \in DOMAIN log' /\ log' \in Seq(Entries)
    BY DEF Positions, LogGrows
  <2>2. QED  BY <2>1, EntryFacts
<1>2. Written(p)
  <2>1. CASE p \in DOMAIN cache'
    BY <2>1 DEF CacheMatchesLog
  <2>2. CASE p < scanner'.next
    <3>1. p \in Start..(scanner.next - 1)
      BY <2>2, <1>1, EntryFacts DEF TypeOK, Scanners
    <3>2. QED  BY <3>1 DEF ScannerInv
  <2>3. QED  BY <2>1, <2>2
<1>3. p \in Positions("afterimage") \ DOMAIN OldLog
  BY <1>2, WrittenStays DEF Positions, Written
<1>4. p \in pushed \/ p < reader.pos
  BY <1>3 DEF CachedAhead
<1>5. QED  BY <1>1, <1>4 DEF TypeOK, Readers

-----------------------------------------------------------------------------
(* The initial state. *)

\* Nothing has been scanned, read or appended yet.
LEMMA InitIInv ==
    ASSUME Init
    PROVE  IInv
<1> DEFINE c == [p \in (Start - 1)..Len(OldLog) |-> OldLog[p]]
<1>1. TypeOK
  BY EntryFacts, RestorePointAssumption, ShortSeqs DEF Init, TypeOK, Scanners, Readers, Appends
<1>2. CacheMatchesLog
  <2>1. cache = entry_cache_gc(c) /\ log = OldLog
    BY DEF Init
  <2>2. DOMAIN c = (Start - 1)..Len(OldLog) /\ \A p \in DOMAIN c : c[p] = OldLog[p]
    OBVIOUS
  <2> HIDE DEF c
  <2>3. \A p \in DOMAIN cache : p \in (Start - 1)..Len(OldLog) /\ cache[p] = OldLog[p]
    BY <2>1, <2>2, CollectFacts
  <2>4. QED  BY <2>1, <2>3, EntryFacts, RestorePointAssumption DEF CacheMatchesLog, Written
<1>3. ScannerInv
  BY EntryFacts DEF Init, ScannerInv
<1>4. ReaderInv
  BY EntryFacts DEF Init, ReaderInv
<1>5. AppendsInv
  BY DEF Init, AppendsInv
<1>6. IntentionsInOrder
  BY EntryFacts DEF Init, IntentionsInOrder
<1>7. CachedAhead
  BY DEF Init, CachedAhead, Positions
<1>8. QED  BY <1>1, <1>2, <1>3, <1>4, <1>5, <1>6, <1>7 DEF IInv

-----------------------------------------------------------------------------
(* The scanner's steps. *)

\* The scanner moves past a written position.
LEMMA AdvanceStep ==
    ASSUME TypeOK, ScannerInv, scanner.pc \in {"look", "store"}, Written(scanner.next),
           scanner' = Advanced, log' = log
    PROVE  /\ ScannerInv'
           /\ scanner' \in Scanners
           /\ scanner'.next = scanner.next + 1
<1>1. /\ scanner'.next = scanner.next + 1 /\ scanner'.tail = scanner.tail
      /\ scanner'.entry = scanner.entry
      /\ scanner'.pc = "top" \/ (scanner'.pc = "look" /\ scanner.next + 1 < scanner.tail)
      /\ scanner' \in Scanners
  <2>1. scanner \in Scanners /\ scanner.next + 1 \in Nat
    BY DEF TypeOK, Scanners
  <2>2. CASE scanner.next + 1 < scanner.tail
    <3>1. scanner' = [scanner EXCEPT !.next = scanner.next + 1, !.pc = "look"]
      BY <2>2 DEF Advanced
    <3>2. QED  BY <2>1, <2>2, <3>1 DEF Scanners
  <2>3. CASE ~(scanner.next + 1 < scanner.tail)
    <3>1. scanner' = [scanner EXCEPT !.next = scanner.next + 1, !.pc = "top"]
      BY <2>3 DEF Advanced
    <3>2. QED  BY <2>1, <2>3, <3>1 DEF Scanners
  <2>4. QED  BY <2>2, <2>3
<1>2. scanner.next \in Nat /\ scanner.tail \in Nat
  BY DEF TypeOK, Scanners
<1>3. \A p \in Start..scanner.next : Written(p)
  BY <1>2, EntryFacts DEF ScannerInv
<1>4. \A p \in Start..(scanner'.next - 1) : Written(p)'
  BY <1>1, <1>2, <1>3 DEF Written
<1>5. QED  BY <1>1, <1>2, <1>4, EntryFacts DEF ScannerInv

\* A step that changes nothing but the scanner, the after-images it pushed and the
\* cache.
LEMMA ScannerKeeps ==
    ASSUME IInv, TypeOK', ScannerInv', CacheMatchesLog', CachedAhead',
           UNCHANGED <<log, reader, client, writer, delivered>>
    PROVE  IInv'
<1>1. LogGrows
  BY SameGrows DEF IInv
<1>2. ReaderInv' /\ IntentionsInOrder'
  BY <1>1, ReaderFrame, OrderFrame DEF IInv
<1>3. AppendsInv'
  BY DEF IInv, AppendsInv
<1>4. QED  BY <1>2, <1>3 DEF IInv

\* The scanner takes the next position, from the cache if it is there.
LEMMA ScanTopStep ==
    ASSUME IInv, ScanTop
    PROVE  IInv'
<1>1. TypeOK /\ ScannerInv /\ CacheMatchesLog /\ CachedAhead /\ LogGrows
  BY SameGrows DEF IInv, ScanTop
<1>2. /\ scanner'.next = scanner.next
      /\ scanner'.pc \in {"done", "look", "top"}
      /\ scanner'.tail \in {scanner.tail, Len(log) + 1}
      /\ scanner'.pc = "look" => scanner'.next < scanner'.tail
      /\ scanner' \in Scanners
  <2>1. scanner \in Scanners /\ Len(log) + 1 \in Nat
    BY <1>1 DEF TypeOK
  <2>2. CASE stop
    BY <2>1, <2>2 DEF ScanTop, Scanners
  <2>3. CASE ~stop /\ scanner.next < Len(log) + 1
    <3>1. scanner' = [scanner EXCEPT !.tail = Len(log) + 1, !.pc = "look"]
      BY <2>3 DEF ScanTop
    <3>2. QED  BY <2>1, <2>3, <3>1 DEF Scanners
  <2>4. CASE ~stop /\ ~(scanner.next < Len(log) + 1)
    <3>1. scanner' = [scanner EXCEPT !.tail = Len(log) + 1, !.pc = "top"]
      BY <2>4 DEF ScanTop
    <3>2. QED  BY <2>1, <2>4, <3>1 DEF Scanners
  <2>5. QED  BY <2>2, <2>3, <2>4
<1>3. TypeOK'
  BY <1>1, <1>2 DEF ScanTop, TypeOK
<1>4. ScannerInv'
  <2>1. scanner'.next <= scanner'.tail /\ scanner'.tail <= Len(log) + 1
    BY <1>1, <1>2 DEF ScannerInv, TypeOK, Scanners
  <2>2. \A p \in Start..(scanner.next - 1) : Written(p)'
    BY <1>1, WrittenStays DEF ScannerInv
  <2>3. QED  BY <1>1, <1>2, <2>1, <2>2 DEF ScannerInv, ScanTop
<1>5. CacheMatchesLog' /\ CachedAhead'
  BY <1>1, <1>2, CacheFrame, AheadFrame DEF ScanTop, TypeOK, Readers
<1>6. QED  BY <1>3, <1>4, <1>5, ScannerKeeps DEF ScanTop

\* A cached after-image was pushed or read by the iterator, so the scanner may
\* pass it.
LEMMA ScanCachedStep ==
    ASSUME IInv, ScanCached
    PROVE  IInv'
<1>1. /\ TypeOK /\ ScannerInv /\ CacheMatchesLog /\ CachedAhead /\ LogGrows
      /\ Written(scanner.next)
  BY SameGrows DEF IInv, ScanCached, CacheMatchesLog
<1>2. /\ ScannerInv' /\ scanner'.next = scanner.next + 1
      /\ scanner' \in Scanners
  BY <1>1, AdvanceStep DEF ScanCached
<1>3. TypeOK'
  BY <1>1, <1>2 DEF ScanCached, TypeOK
<1>4. CacheMatchesLog'
  BY <1>1, CacheFrame DEF ScanCached
<1>5. CachedAhead'
  <2>1. SUFFICES ASSUME NEW p \in Positions("afterimage") \ DOMAIN OldLog,
                        p \in DOMAIN cache \/ p < scanner.next + 1
                 PROVE  p \in pushed \/ p < reader.pos
    BY <1>2 DEF CachedAhead, Positions, ScanCached
  <2>2. p \in Nat /\ scanner.next \in Nat
    BY <1>1 DEF TypeOK, Positions, Scanners
  <2>3. p \in DOMAIN cache \/ p < scanner.next
    BY <2>1, <2>2 DEF ScanCached
  <2>4. QED  BY <1>1, <2>3 DEF CachedAhead
<1>6. QED  BY <1>2, <1>3, <1>4, <1>5, ScannerKeeps DEF ScanCached

\* The scanner has read a position of the log and hands on what it holds.
LEMMA ScanReadStep ==
    ASSUME IInv, ScanRead
    PROVE  IInv'
<1> DEFINE e == log[scanner.next]
<1>1. /\ TypeOK /\ ScannerInv /\ CacheMatchesLog /\ CachedAhead /\ LogGrows
      /\ scanner.next < scanner.tail
  BY SameGrows DEF IInv, ScanRead, ScannerInv
<1>2. scanner.next \in DOMAIN log /\ Written(scanner.next) /\ e \in Entries
  <2>1. scanner.next \in 1..Len(log)
    BY <1>1, EntryFacts DEF TypeOK, ScannerInv, Scanners
  <2>2. QED  BY <1>1, <2>1 DEF TypeOK, ScanRead, Written
<1>3. /\ scanner'.next = scanner.next /\ scanner'.tail = scanner.tail
      /\ \/ scanner'.pc = "top"
         \/ /\ scanner'.pc = "store" /\ scanner'.entry = e
            /\ e.type = "afterimage" => scanner.next \in pushed'
      /\ pushed \subseteq pushed'
      /\ scanner' \in Scanners
  BY <1>1, <1>2 DEF ScanRead, TypeOK, Scanners
<1>4. TypeOK'
  BY <1>1, <1>3 DEF ScanRead, TypeOK
<1>5. ScannerInv'
  <2>1. \A p \in Start..(scanner.next - 1) : Written(p)'
    BY <1>1, WrittenStays DEF ScannerInv
  <2>2. log' = log /\ Written(scanner.next)'
    BY <1>1, <1>2, WrittenStays DEF ScanRead
  <2>3. QED  BY <1>1, <1>3, <2>1, <2>2 DEF ScannerInv
<1>6. CacheMatchesLog'
  BY <1>1, CacheFrame DEF ScanRead
<1>7. CachedAhead'
  BY <1>1, <1>3, AheadFrame DEF ScanRead, TypeOK, Readers
<1>8. QED  BY <1>4, <1>5, <1>6, <1>7, ScannerKeeps DEF ScanRead

\* The scanner puts what it has read into the cache and moves on.
LEMMA ScanStoreStep ==
    ASSUME IInv, ScanStore
    PROVE  IInv'
<1>1. /\ TypeOK /\ ScannerInv /\ CacheMatchesLog /\ CachedAhead
      /\ Written(scanner.next) /\ scanner.entry = log[scanner.next]
      /\ scanner.entry.type = "afterimage" => scanner.next \in pushed
  BY DEF IInv, ScanStore, ScannerInv
<1>2. /\ ScannerInv' /\ scanner'.next = scanner.next + 1
      /\ scanner' \in Scanners
  BY <1>1, AdvanceStep DEF ScanStore
<1>3. TypeOK'
  BY <1>1, <1>2 DEF ScanStore, TypeOK
<1>4. CacheMatchesLog'
  BY <1>1, EmplaceWritten DEF ScanStore, AddEntry
<1>5. CachedAhead'
  <2>1. SUFFICES ASSUME NEW p \in Positions("afterimage") \ DOMAIN OldLog,
                        p \in DOMAIN cache' \/ p < scanner.next + 1
                 PROVE  p \in pushed \/ p < reader.pos
    BY <1>2 DEF CachedAhead, Positions, ScanStore
  <2>2. p \in Nat /\ scanner.next \in Nat /\ log[p].type = "afterimage"
    BY <1>1 DEF TypeOK, Positions, Scanners
  <2>3. p \in DOMAIN cache \/ p < scanner.next \/ p = scanner.next
    BY <2>1, <2>2, EmplaceFacts DEF ScanStore, AddEntry
  <2>4. QED  BY <1>1, <2>2, <2>3 DEF CachedAhead
<1>6. QED  BY <1>2, <1>3, <1>4, <1>5, ScannerKeeps DEF ScanStore

-----------------------------------------------------------------------------
(* The processor's steps. *)

\* A step that changes nothing but the iterator, what it has returned and the cache.
LEMMA ReaderKeeps ==
    ASSUME IInv, TypeOK', ReaderInv', CacheMatchesLog', IntentionsInOrder', CachedAhead',
           UNCHANGED <<log, scanner, pushed, client, writer>>
    PROVE  IInv'
<1>1. LogGrows
  BY SameGrows DEF IInv
<1>2. ScannerInv'
  BY <1>1, ScannerFrame DEF IInv
<1>3. AppendsInv'
  BY DEF IInv, AppendsInv
<1>4. QED  BY <1>2, <1>3 DEF IInv

\* A step on the way to the entry: the iterator stays where it is.
LEMMA ReaderWaits ==
    ASSUME IInv, reader' \in Readers, reader'.pos = reader.pos,
           reader'.pc = "store" =>
               Written(reader.pos) /\ reader'.entry = log[reader.pos],
           UNCHANGED <<log, cache, scanner, pushed, client, writer, delivered>>
    PROVE  IInv'
<1>1. TypeOK /\ ReaderInv /\ CacheMatchesLog /\ LogGrows
  BY SameGrows DEF IInv
<1>2. TypeOK'
  BY <1>1 DEF TypeOK
<1>3. ReaderInv'
  BY <1>1 DEF ReaderInv, Written
<1>4. CacheMatchesLog'
  BY <1>1, CacheFrame
<1>5. IntentionsInOrder'
  BY <1>1, OrderFrame DEF IInv
<1>6. CachedAhead'
  BY DEF IInv, CachedAhead, Positions
<1>7. QED  BY <1>2, <1>3, <1>4, <1>5, <1>6, ReaderKeeps

\* A reader does not find its position in the cache.
LEMMA ReadMissStep ==
    ASSUME IInv, ReadMiss
    PROVE  IInv'
<1>1. reader \in Readers
  BY DEF IInv, TypeOK
<1>2. \E pc \in {"io", "done", "wait"} : reader' = [reader EXCEPT !.pc = pc]
  BY DEF ReadMiss
<1>3. reader' \in Readers /\ reader'.pos = reader.pos /\ reader'.pc # "store"
  BY <1>1, <1>2 DEF Readers
<1>4. QED  BY <1>3, ReaderWaits DEF ReadMiss

\* A reader that waited at the tail goes on.
LEMMA ReadWakesStep ==
    ASSUME IInv, ReadWakes
    PROVE  IInv'
<1>1. reader \in Readers
  BY DEF IInv, TypeOK
<1>2. \E pc \in {"io", "done", "wait"} : reader' = [reader EXCEPT !.pc = pc]
  BY DEF ReadWakes
<1>3. reader' \in Readers /\ reader'.pos = reader.pos /\ reader'.pc # "store"
  BY <1>1, <1>2 DEF Readers
<1>4. QED  BY <1>3, ReaderWaits DEF ReadWakes

\* A reader reads, or fills, its position in the log.
LEMMA ReadIOStep ==
    ASSUME IInv, ReadIO
    PROVE  IInv'
<1>1. reader \in Readers /\ log \in Seq(Entries)
  BY DEF IInv, TypeOK
<1>2. Written(reader.pos) /\ log[reader.pos] \in Entries
  BY <1>1 DEF ReadIO, Readable, Written
<1>3. reader' = [reader EXCEPT !.pc = "store", !.entry = log[reader.pos]]
  BY DEF ReadIO
<1>4. reader' \in Readers /\ reader'.pos = reader.pos /\ reader'.entry = log[reader.pos]
  BY <1>1, <1>2, <1>3 DEF Readers
<1>5. QED  BY <1>2, <1>4, ReaderWaits DEF ReadIO

\* The iterator returns what the log holds at its position and moves on.
LEMMA DeliverStep ==
    ASSUME IInv, Written(reader.pos), Deliver(log[reader.pos]), log' = log
    PROVE  /\ reader' \in Readers /\ reader'.pos = reader.pos + 1
           /\ delivered' \in Seq(Nat)
           /\ ReaderInv' /\ IntentionsInOrder'
<1> DEFINE n == reader.pos
           P == Positions("intention")
<1>1. TypeOK /\ ReaderInv /\ n \in Nat /\ Start <= n
  BY DEF IInv, TypeOK, Readers, ReaderInv
<1>2. reader' \in Readers /\ reader'.pos = n + 1 /\ reader'.pc = "read"
  BY <1>1, EntryFacts DEF Deliver, Readers
<1>3. ReaderInv'
  <2>1. \A p \in Start..(reader'.pos - 1) : p \in Start..(n - 1) \/ p = n
    BY <1>1, <1>2, EntryFacts
  <2>2. \A p \in Start..(reader'.pos - 1) : Written(p)'
    BY <1>1, <2>1 DEF ReaderInv, Written
  <2>3. QED  BY <1>1, <1>2, <2>2, EntryFacts DEF ReaderInv
<1>4. Start..(reader'.pos - 1) = Start..(n - 1) \cup {n}
  BY <1>1, <1>2, EntryFacts
<1>5. /\ {delivered[i] : i \in DOMAIN delivered} = P \cap (Start..(n - 1))
      /\ \A i, j \in DOMAIN delivered : i < j => delivered[i] < delivered[j]
  BY DEF IInv, IntentionsInOrder
<1>6. CASE log[n].type = "intention"
  <2>1. delivered' = Append(delivered, n)
    BY <1>6 DEF Deliver
  <2>2. /\ delivered \in Seq(Nat) /\ delivered' \in Seq(Nat) /\ Len(delivered) \in Nat
        /\ DOMAIN delivered = 1..Len(delivered)
        /\ DOMAIN delivered' = 1..(Len(delivered) + 1)
        /\ \A i \in DOMAIN delivered : delivered'[i] = delivered[i]
        /\ delivered'[Len(delivered) + 1] = n
    BY <1>1, <2>1, AppendFacts DEF TypeOK
  <2>3. \A i \in DOMAIN delivered : delivered[i] \in P \cap (Start..(n - 1))
    BY <1>5
  <2>4. n \in P
    BY <1>6 DEF Positions, Written
  <2>5. {delivered'[i] : i \in DOMAIN delivered'} =
            {delivered[i] : i \in DOMAIN delivered} \cup {n}
    <3>1. DOMAIN delivered' = DOMAIN delivered \cup {Len(delivered) + 1}
      BY <2>2
    <3>2. QED  BY <2>2, <3>1
  <2>6. {delivered'[i] : i \in DOMAIN delivered'} = P \cap (Start..(reader'.pos - 1))
    BY <1>4, <1>5, <2>4, <2>5
  <2>7. \A i, j \in DOMAIN delivered' : i < j => delivered'[i] < delivered'[j]
    <3>1. SUFFICES ASSUME NEW i \in DOMAIN delivered', NEW j \in DOMAIN delivered', i < j
                   PROVE  delivered'[i] < delivered'[j]
      OBVIOUS
    <3>2. i \in DOMAIN delivered
      BY <2>2, <3>1
    <3>3. CASE j \in DOMAIN delivered
      BY <1>5, <2>2, <3>1, <3>2, <3>3
    <3>4. CASE j = Len(delivered) + 1
      <4>1. delivered[i] \in Start..(n - 1)
        BY <2>3, <3>2
      <4>2. QED  BY <1>1, <2>2, <3>2, <3>4, <4>1, EntryFacts
    <3>5. QED  BY <2>2, <3>3, <3>4
  <2>8. QED  BY <1>2, <1>3, <2>2, <2>6, <2>7 DEF IntentionsInOrder, Positions
<1>7. CASE log[n].type # "intention"
  <2>1. delivered' = delivered
    BY <1>7 DEF Deliver
  <2>2. n \notin P
    BY <1>7 DEF Positions
  <2>3. P \cap (Start..(reader'.pos - 1)) = P \cap (Start..(n - 1))
    BY <1>4, <2>2
  <2>4. QED  BY <1>1, <1>2, <1>3, <1>5, <2>1, <2>3 DEF IntentionsInOrder, Positions, TypeOK
<1>8. QED  BY <1>6, <1>7

\* A reader finds its position in the cache.
LEMMA ReadHitStep ==
    ASSUME IInv, ReadHit
    PROVE  IInv'
<1>1. /\ TypeOK /\ CacheMatchesLog /\ ScannerInv /\ CachedAhead /\ LogGrows
      /\ Written(reader.pos) /\ cache[reader.pos] = log[reader.pos]
  BY SameGrows DEF IInv, ReadHit, CacheMatchesLog
<1>2. /\ reader' \in Readers /\ reader'.pos = reader.pos + 1
      /\ delivered' \in Seq(Nat) /\ ReaderInv' /\ IntentionsInOrder'
  BY <1>1, DeliverStep DEF ReadHit
<1>3. TypeOK'
  BY <1>1, <1>2 DEF ReadHit, TypeOK
<1>4. CacheMatchesLog'
  BY <1>1, CacheFrame DEF ReadHit
<1>5. reader'.pos \in Nat /\ reader'.pos >= reader.pos
  BY <1>1, <1>2 DEF TypeOK, Readers
<1>6. CachedAhead'
  BY <1>1, <1>5, AheadFrame DEF ReadHit
<1>7. QED  BY <1>2, <1>3, <1>4, <1>6, ReaderKeeps DEF ReadHit

\* The entry is returned from the cache, where it may have been put by somebody
\* else in the meantime, or it has been collected.
LEMMA ReadStoreStep ==
    ASSUME IInv, ReadStore
    PROVE  IInv'
<1>1. /\ TypeOK /\ CacheMatchesLog /\ ScannerInv /\ CachedAhead /\ LogGrows
      /\ Written(reader.pos) /\ reader.entry = log[reader.pos]
  BY SameGrows DEF IInv, ReadStore, ReaderInv
<1>2. CacheMatchesLog'
  BY <1>1, EmplaceWritten DEF ReadStore, Return
<1>3. \A q \in DOMAIN cache' : q \in DOMAIN cache \/ q = reader.pos
  BY EmplaceFacts DEF ReadStore, Return
<1>4. CASE reader.pos \in DOMAIN cache'
  <2>1. cache'[reader.pos] = log[reader.pos]
    BY <1>2, <1>4 DEF CacheMatchesLog, ReadStore
  <2>2. /\ reader' \in Readers /\ reader'.pos = reader.pos + 1
        /\ delivered' \in Seq(Nat) /\ ReaderInv' /\ IntentionsInOrder'
    BY <1>1, <1>4, <2>1, DeliverStep DEF ReadStore
  <2>3. TypeOK'
    BY <1>1, <2>2 DEF ReadStore, TypeOK
  <2>4. CachedAhead'
    <3>1. SUFFICES ASSUME NEW p \in Positions("afterimage") \ DOMAIN OldLog,
                          p \in DOMAIN cache' \/ p < scanner.next
                   PROVE  p \in pushed \/ p < reader.pos + 1
      BY <2>2 DEF CachedAhead, Positions, ReadStore
    <3>2. p \in Nat /\ reader.pos \in Nat
      BY <1>1 DEF TypeOK, Positions, Readers
    <3>3. CASE p = reader.pos
      BY <3>2, <3>3
    <3>4. CASE p # reader.pos
      <4>1. p \in pushed \/ p < reader.pos
        BY <1>1, <1>3, <3>1, <3>4 DEF CachedAhead
      <4>2. QED  BY <3>2, <4>1
    <3>5. QED  BY <3>3, <3>4
  <2>5. QED  BY <1>2, <2>2, <2>3, <2>4, ReaderKeeps DEF ReadStore
<1>5. CASE reader.pos \notin DOMAIN cache'
  <2>1. reader' = [reader EXCEPT !.pc = "undefined"] /\ delivered' = delivered
    BY <1>5 DEF ReadStore
  <2>2. reader' \in Readers /\ reader'.pos = reader.pos /\ reader'.pc = "undefined"
    BY <1>1, <2>1 DEF TypeOK, Readers
  <2>3. TypeOK'
    BY <1>1, <2>1, <2>2 DEF ReadStore, TypeOK
  <2>4. ReaderInv' /\ IntentionsInOrder'
    <3>1. IntentionsInOrder'
      BY <1>1, <2>1, <2>2, OrderFrame DEF IInv
    <3>2. ReaderInv'
      BY <2>2 DEF IInv, ReaderInv, ReadStore, Written
    <3>3. QED  BY <3>1, <3>2
  <2>5. DOMAIN cache' \subseteq DOMAIN cache
    BY <1>3, <1>5
  <2>6. CachedAhead'
    BY <1>1, <2>2, <2>5, AheadFrame DEF ReadStore, TypeOK, Readers
  <2>7. QED  BY <1>2, <2>3, <2>4, <2>6, ReaderKeeps DEF ReadStore
<1>6. QED  BY <1>4, <1>5

\* A read of a batch of intentions.
LEMMA ReadIntentionsStep ==
    ASSUME IInv, NEW p, ReadIntentions(p)
    PROVE  IInv'
<1>1. /\ TypeOK /\ CacheMatchesLog /\ CachedAhead /\ LogGrows
      /\ Written(p) /\ log[p].type = "intention"
  BY SameGrows DEF IInv, ReadIntentions, Positions, Written
<1>2. CacheMatchesLog'
  BY <1>1, EmplaceWritten DEF ReadIntentions, Return
<1>3. \A q \in DOMAIN cache' : q \in DOMAIN cache \/ q = p
  BY EmplaceFacts DEF ReadIntentions, Return
<1>4. reader' \in Readers /\ reader'.pos = reader.pos /\ reader'.pc # "store"
  <2>1. \E pc \in {"read", "undefined"} : reader' = [reader EXCEPT !.pc = pc]
    BY DEF ReadIntentions
  <2>2. QED  BY <1>1, <2>1 DEF TypeOK, Readers
<1>5. TypeOK'
  BY <1>1, <1>4 DEF ReadIntentions, TypeOK
<1>6. ReaderInv'
  BY <1>4 DEF IInv, ReaderInv, ReadIntentions, Written
<1>7. IntentionsInOrder'
  BY <1>1, <1>4, OrderFrame DEF IInv, ReadIntentions
<1>8. CachedAhead'
  <2>1. SUFFICES ASSUME NEW q \in Positions("afterimage") \ DOMAIN OldLog,
                        q \in DOMAIN cache' \/ q < scanner.next
                 PROVE  q \in pushed \/ q < reader.pos
    BY <1>4 DEF CachedAhead, Positions, ReadIntentions
  <2>2. q # p
    BY <1>1 DEF Positions
  <2>3. QED  BY <1>1, <1>3, <2>1, <2>2 DEF CachedAhead
<1>9. QED  BY <1>2, <1>5, <1>6, <1>7, <1>8, ReaderKeeps DEF ReadIntentions

\* A read of one after-image.
LEMMA ReadAfterImageStep ==
    ASSUME IInv, NEW p, ReadAfterImage(p)
    PROVE  IInv'
<1>1. /\ TypeOK /\ CacheMatchesLog /\ CachedAhead /\ LogGrows
      /\ Written(p) /\ log[p].type = "afterimage"
  BY SameGrows DEF IInv, ReadAfterImage, Positions, Written
<1>2. CacheMatchesLog'
  BY <1>1, EmplaceWritten DEF ReadAfterImage, Return
<1>3. \A q \in DOMAIN cache' : q \in DOMAIN cache \/ q = p
  BY EmplaceFacts DEF ReadAfterImage, Return
<1>4. TypeOK'
  BY <1>1 DEF ReadAfterImage, TypeOK
<1>5. ReaderInv' /\ IntentionsInOrder'
  BY <1>1, ReaderFrame, OrderFrame DEF IInv, ReadAfterImage
<1>6. CachedAhead'
  <2>1. SUFFICES ASSUME NEW q \in Positions("afterimage") \ DOMAIN OldLog,
                        q \in DOMAIN cache' \/ q < scanner.next
                 PROVE  q \in pushed \/ q < reader.pos
    BY DEF CachedAhead, Positions, ReadAfterImage
  <2>2. CASE q = p
    BY <1>1, <2>2 DEF CachedAhead, ReadAfterImage
  <2>3. CASE q # p
    BY <1>1, <1>3, <2>1, <2>3 DEF CachedAhead
  <2>4. QED  BY <2>2, <2>3
<1>7. QED  BY <1>2, <1>4, <1>5, <1>6, ReaderKeeps DEF ReadAfterImage

-----------------------------------------------------------------------------
(* The appends. *)

\* A step that changes nothing but the log and the state of the appends.
LEMMA AppendsKeep ==
    ASSUME IInv, LogGrows, AppendsInv',
           client' \in [Clients -> Appends],
           writer' \in [pc : {"begin", "reserved"}, pos : Nat, ipos : Nat],
           UNCHANGED <<cache, scanner, reader, pushed, delivered>>
    PROVE  IInv'
<1>1. TypeOK'
  BY DEF IInv, TypeOK, LogGrows
<1>2. CacheMatchesLog' /\ ScannerInv' /\ ReaderInv'
  BY CacheFrame, ScannerFrame, ReaderFrame DEF IInv
<1>3. IntentionsInOrder'
  BY OrderFrame DEF IInv
<1>4. reader.pos \in Nat
  BY DEF IInv, TypeOK, Readers
<1>5. CachedAhead'
  BY <1>4, AheadFrame DEF IInv
<1>6. QED  BY <1>1, <1>2, <1>3, <1>5 DEF IInv

\* A new position at the end of the log belongs to nobody yet.
LEMMA AppendsFrame ==
    ASSUME IInv, NEW e \in Entries, log' = Append(log, e)
    PROVE  /\ \A c \in Clients : client[c].pc = "reserved" =>
                  /\ client[c].pos \in DOMAIN log' /\ log'[client[c].pos] = Hole
                  /\ client[c].pos # Len(log) + 1
           /\ \A c \in Clients : client[c].pc = "written" =>
                  client[c].pos \in DOMAIN log' /\ log'[client[c].pos] = Intention
           /\ writer.pc = "reserved" =>
                  /\ writer.pos \in DOMAIN log' /\ log'[writer.pos] = Hole
                  /\ writer.pos # Len(log) + 1
<1>1. /\ Len(log) + 1 \notin DOMAIN log
      /\ \A p \in DOMAIN log : p \in DOMAIN log' /\ log'[p] = log[p]
  BY AppendGrows DEF IInv
<1>2. QED  BY <1>1 DEF IInv, AppendsInv

\* A client takes a position for its intention.
LEMMA ReservePositionStep ==
    ASSUME IInv, NEW c \in Clients, ReservePosition(c)
    PROVE  IInv'
<1>1. /\ LogGrows /\ Len(log) + 1 \in Nat
      /\ Len(log) + 1 \in DOMAIN log' /\ log'[Len(log) + 1] = Hole
  BY AppendGrows, EntryFacts DEF IInv, ReservePosition
<1>2. client \in [Clients -> Appends]
  BY DEF IInv, TypeOK
<1>3. /\ client' \in [Clients -> Appends]
      /\ client'[c] = [pc |-> "reserved", pos |-> Len(log) + 1]
      /\ \A d \in Clients \ {c} : client'[d] = client[d]
  BY <1>1, <1>2 DEF ReservePosition, Appends
<1>4. writer' = writer
  BY DEF ReservePosition
<1>5. log' = Append(log, Hole)
  BY DEF ReservePosition
<1>6. AppendsInv'
  <2>1. \A d \in Clients : client'[d].pc = "reserved" =>
            \/ d = c /\ client'[d].pos = Len(log) + 1
            \/ /\ d # c /\ client'[d] = client[d] /\ client'[d].pos # Len(log) + 1
               /\ client'[d].pos \in DOMAIN log' /\ log'[client'[d].pos] = Hole
    BY <1>3, <1>5, AppendsFrame, EntryFacts
  <2>2. \A d \in Clients : client'[d].pc = "written" =>
            client'[d].pos \in DOMAIN log' /\ log'[client'[d].pos] = Intention
    BY <1>3, <1>5, AppendsFrame, EntryFacts
  <2>3. writer.pc = "reserved" =>
            /\ writer.pos \in DOMAIN log' /\ log'[writer.pos] = Hole
            /\ writer.pos # Len(log) + 1
    BY <1>5, AppendsFrame, EntryFacts
  <2>4. \A d \in Clients : client'[d].pc = "reserved" =>
            /\ client'[d].pos \in DOMAIN log' /\ log'[client'[d].pos] = Hole
            /\ writer.pc = "reserved" => writer.pos # client'[d].pos
    BY <1>1, <2>1, <2>3 DEF IInv, AppendsInv
  <2>5. \A d \in Clients : client'[d].pc = "reserved" =>
            \A b \in Clients \ {d} : client'[b].pc = "reserved" =>
                client'[b].pos # client'[d].pos
    BY <2>1 DEF IInv, AppendsInv
  <2>6. QED  BY <1>4, <2>2, <2>3, <2>4, <2>5 DEF AppendsInv
<1>7. QED  BY <1>1, <1>3, <1>6, AppendsKeep DEF ReservePosition, IInv, TypeOK

\* The client writes its intention there.
LEMMA WritePositionStep ==
    ASSUME IInv, NEW c \in Clients, WritePosition(c)
    PROVE  IInv'
<1> DEFINE n == client[c].pos
<1>1. n \in DOMAIN log /\ log[n] = Hole
  BY DEF IInv, AppendsInv, WritePosition
<1>2. /\ LogGrows /\ DOMAIN log' = DOMAIN log /\ log'[n] = Intention
      /\ \A q \in DOMAIN log \ {n} : log'[q] = log[q]
  BY <1>1, WriteGrows, EntryFacts DEF IInv, WritePosition
<1>3. client \in [Clients -> Appends]
  BY DEF IInv, TypeOK
<1>4. /\ client' \in [Clients -> Appends]
      /\ client'[c].pc = "written" /\ client'[c].pos = n
      /\ \A d \in Clients \ {c} : client'[d] = client[d]
  BY <1>3 DEF WritePosition, Appends
<1>5. writer' = writer
  BY DEF WritePosition
<1>6. AppendsInv'
  <2>1. \A d \in Clients : client'[d].pc = "reserved" =>
            d # c /\ client'[d] = client[d] /\ client'[d].pos # n
    BY <1>4 DEF IInv, AppendsInv, WritePosition
  <2>2. \A d \in Clients : client'[d].pc = "written" =>
            client'[d].pos \in DOMAIN log' /\ log'[client'[d].pos] = Intention
    BY <1>1, <1>2, <1>4 DEF IInv, AppendsInv
  <2>3. writer.pc = "reserved" =>
            /\ writer.pos \in DOMAIN log' /\ log'[writer.pos] = Hole
    BY <1>2 DEF IInv, AppendsInv, WritePosition
  <2>4. \A d \in Clients : client'[d].pc = "reserved" =>
            /\ client'[d].pos \in DOMAIN log' /\ log'[client'[d].pos] = Hole
            /\ writer.pc = "reserved" => writer.pos # client'[d].pos
            /\ \A b \in Clients \ {d} : client'[b].pc = "reserved" =>
                   client'[b].pos # client'[d].pos
    BY <1>2, <2>1 DEF IInv, AppendsInv
  <2>5. QED  BY <1>5, <2>2, <2>3, <2>4 DEF AppendsInv
<1>7. QED  BY <1>2, <1>4, <1>6, AppendsKeep DEF WritePosition, IInv, TypeOK

\* The client caches what it has appended.
LEMMA CacheAppendedStep ==
    ASSUME IInv, NEW c \in Clients, CacheAppended(c)
    PROVE  IInv'
<1> DEFINE n == client[c].pos
<1>1. /\ TypeOK /\ CacheMatchesLog /\ CachedAhead /\ LogGrows
      /\ Written(n) /\ log[n] = Intention
  <2>1. TypeOK /\ CacheMatchesLog /\ CachedAhead /\ LogGrows
    BY SameGrows DEF IInv, CacheAppended
  <2>2. n \in DOMAIN log /\ log[n] = Intention
    BY DEF IInv, AppendsInv, CacheAppended
  <2>3. QED  BY <2>1, <2>2, EntryFacts DEF Written
<1>2. CacheMatchesLog'
  BY <1>1, EmplaceWritten DEF CacheAppended, AddEntry
<1>3. \A q \in DOMAIN cache' : q \in DOMAIN cache \/ q = n
  BY EmplaceFacts DEF CacheAppended, AddEntry
<1>4. /\ client' \in [Clients -> Appends]
      /\ client'[c].pc = "done"
      /\ \A d \in Clients \ {c} : client'[d] = client[d]
  BY <1>1 DEF CacheAppended, Appends, TypeOK
<1>5. TypeOK'
  BY <1>1, <1>4 DEF CacheAppended, TypeOK
<1>6. ScannerInv' /\ ReaderInv' /\ IntentionsInOrder'
  BY <1>1, ScannerFrame, ReaderFrame, OrderFrame DEF IInv, CacheAppended
<1>7. AppendsInv'
  <2>1. \A d \in Clients : client'[d].pc # "done" => client'[d] = client[d]
    BY <1>4
  <2>2. log' = log /\ writer' = writer
    BY DEF CacheAppended
  <2>3. QED  BY <2>1, <2>2 DEF IInv, AppendsInv
<1>8. CachedAhead'
  <2>1. SUFFICES ASSUME NEW q \in Positions("afterimage") \ DOMAIN OldLog,
                        q \in DOMAIN cache' \/ q < scanner.next
                 PROVE  q \in pushed \/ q < reader.pos
    BY DEF CachedAhead, Positions, CacheAppended
  <2>2. q # n
    BY <1>1, EntryFacts DEF Positions
  <2>3. QED  BY <1>1, <1>3, <2>1, <2>2 DEF CachedAhead
<1>9. QED  BY <1>2, <1>5, <1>6, <1>7, <1>8 DEF IInv

\* The writer takes a position for an after-image.
LEMMA ReserveAfterImageStep ==
    ASSUME IInv, ReserveAfterImage
    PROVE  IInv'
<1>1. /\ LogGrows /\ Len(log) + 1 \in Nat
      /\ Len(log) + 1 \in DOMAIN log' /\ log'[Len(log) + 1] = Hole
  BY AppendGrows, EntryFacts DEF IInv, ReserveAfterImage
<1>2. delivered[Min(ToWrite)] \in Nat
  <2>1. delivered \in Seq(Nat)
    BY DEF IInv, TypeOK
  <2>2. ToWrite \in SUBSET Nat /\ ToWrite \subseteq DOMAIN delivered /\ ToWrite # {}
    BY <2>1 DEF ToWrite, ReserveAfterImage
  <2>3. Min(ToWrite) \in ToWrite
    BY <2>2, MinOfNats
  <2>4. \A i \in DOMAIN delivered : delivered[i] \in Nat
    BY <2>1
  <2>5. QED  BY <2>2, <2>3, <2>4, Zenon
<1>3. /\ writer' \in [pc : {"begin", "reserved"}, pos : Nat, ipos : Nat]
      /\ writer'.pos = Len(log) + 1
  BY <1>1, <1>2 DEF ReserveAfterImage
<1>4. log' = Append(log, Hole) /\ client' = client
  BY DEF ReserveAfterImage
<1>5. AppendsInv'
  <2>1. \A d \in Clients : client[d].pc = "reserved" =>
            /\ client[d].pos \in DOMAIN log' /\ log'[client[d].pos] = Hole
            /\ client[d].pos # Len(log) + 1
    BY <1>4, AppendsFrame, EntryFacts
  <2>2. \A d \in Clients : client[d].pc = "written" =>
            client[d].pos \in DOMAIN log' /\ log'[client[d].pos] = Intention
    BY <1>4, AppendsFrame, EntryFacts
  <2>3. QED  BY <1>1, <1>3, <1>4, <2>1, <2>2 DEF IInv, AppendsInv
<1>6. QED  BY <1>1, <1>3, <1>5, AppendsKeep DEF ReserveAfterImage, IInv, TypeOK

\* The writer writes it there.
LEMMA WriteAfterImageStep ==
    ASSUME IInv, WriteAfterImage
    PROVE  IInv'
<1> DEFINE n == writer.pos
<1>1. n \in DOMAIN log /\ log[n] = Hole
  BY DEF IInv, AppendsInv, WriteAfterImage
<1>2. AfterImage(writer.ipos) \in Entries
  BY EntryFacts DEF IInv, TypeOK
<1>3. /\ LogGrows /\ DOMAIN log' = DOMAIN log
      /\ \A q \in DOMAIN log \ {n} : log'[q] = log[q]
  BY <1>1, <1>2, WriteGrows DEF IInv, WriteAfterImage
<1>4. /\ writer' \in [pc : {"begin", "reserved"}, pos : Nat, ipos : Nat]
      /\ writer'.pc = "begin"
  BY DEF WriteAfterImage, IInv, TypeOK
<1>5. AppendsInv'
  <2>1. client' = client
    BY DEF WriteAfterImage
  <2>2. \A c \in Clients : client[c].pc = "reserved" => client[c].pos # n
    BY DEF IInv, AppendsInv, WriteAfterImage
  <2>3. \A c \in Clients : client[c].pc = "written" => client[c].pos # n
    BY <1>1, EntryFacts DEF IInv, AppendsInv
  <2>4. QED  BY <1>3, <1>4, <2>1, <2>2, <2>3 DEF IInv, AppendsInv
<1>6. QED  BY <1>3, <1>4, <1>5, AppendsKeep DEF WriteAfterImage, IInv, TypeOK

\* Another instance appends an intention or fills a position.
LEMMA OtherStep ==
    ASSUME IInv, NEW e \in Entries, log' = Append(log, e),
           UNCHANGED <<cache, scanner, reader, client, writer, pushed, delivered>>
    PROVE  IInv'
<1>1. LogGrows
  BY AppendGrows DEF IInv
<1>2. AppendsInv'
  <2>1. \A c \in Clients : client[c].pc = "reserved" =>
            client[c].pos \in DOMAIN log' /\ log'[client[c].pos] = Hole
    BY AppendsFrame
  <2>2. \A c \in Clients : client[c].pc = "written" =>
            client[c].pos \in DOMAIN log' /\ log'[client[c].pos] = Intention
    BY AppendsFrame
  <2>3. writer.pc = "reserved" =>
            writer.pos \in DOMAIN log' /\ log'[writer.pos] = Hole
    BY AppendsFrame
  <2>4. QED  BY <2>1, <2>2, <2>3 DEF IInv, AppendsInv
<1>3. QED  BY <1>1, <1>2, AppendsKeep DEF IInv, TypeOK

-----------------------------------------------------------------------------
(* The theorems. *)

\* Every step keeps the invariant.
LEMMA NextIInv ==
    ASSUME IInv, [Next]_vars
    PROVE  IInv'
<1>1. ASSUME Scanner  PROVE IInv'
  BY <1>1, ScanTopStep, ScanCachedStep, ScanReadStep, ScanStoreStep DEF Scanner
<1>2. ASSUME Reader  PROVE IInv'
  BY <1>2, ReadHitStep, ReadMissStep, ReadWakesStep, ReadIOStep, ReadStoreStep DEF Reader
<1>3. ASSUME Writer  PROVE IInv'
  BY <1>3, ReserveAfterImageStep, WriteAfterImageStep DEF Writer
<1>4. ASSUME NEW c \in Clients, Client(c)  PROVE IInv'
  BY <1>4, ReservePositionStep, WritePositionStep, CacheAppendedStep DEF Client
<1>5. ASSUME NEW p \in DOMAIN log, ReadIntentions(p) \/ ReadAfterImage(p)  PROVE IInv'
  BY <1>5, ReadIntentionsStep, ReadAfterImageStep
<1>6. ASSUME OtherAppends  PROVE IInv'
  BY <1>6, OtherStep, EntryFacts DEF OtherAppends
<1>7. ASSUME OtherFills  PROVE IInv'
  BY <1>7, OtherStep, EntryFacts DEF OtherFills
<1>8. ASSUME UNCHANGED <<log, cache, scanner, reader, client, writer, pushed, delivered>>
      PROVE  IInv'
  <2>1. LogGrows
    BY <1>8, SameGrows DEF IInv
  <2>2. AppendsInv'
    BY <1>8 DEF IInv, AppendsInv
  <2>3. QED  BY <1>8, <2>1, <2>2, AppendsKeep DEF IInv, TypeOK
<1>9. QED
  BY <1>1, <1>2, <1>3, <1>4, <1>5, <1>6, <1>7, <1>8 DEF Next, Stop, vars

\* Whatever the scanner, the processor, the clients, the readers and the other
\* instance do to the cache and the log, the cache is a copy of the log and what has
\* been passed is written.
THEOREM EntryServiceInvariance == Spec => []IInv
<1>1. Init => IInv
  BY InitIInv
<1>2. IInv /\ [Next]_vars => IInv'
  BY NextIInv
<1>3. QED  BY <1>1, <1>2, PTL DEF Spec

\* IntentionIterator::Next gives the processor every intention of the log in the
\* log's order, once, for any log, any clients and any size of the cache.
THEOREM DeliveredInOrder == Spec => []IntentionsInOrder
<1>1. IInv => IntentionsInOrder
  BY DEF IInv
<1>2. QED  BY <1>1, EntryServiceInvariance, PTL

\* The log scanner pushes every new after-image that it passes to the matcher,
\* unless the processor's iterator has read that position before.
THEOREM AfterImagesPushed == Spec => []MissedOnlyIfReadAhead
<1>1. IInv => MissedOnlyIfReadAhead
  BY DEF IInv, CachedAhead, MissedOnlyIfReadAhead
<1>2. QED  BY <1>1, EntryServiceInvariance, PTL
=============================================================================
