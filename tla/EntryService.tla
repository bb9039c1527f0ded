---------------------------- MODULE EntryService ----------------------------
(***************************************************************************)
(* EntryService (src/db/entry_service.cc): the cache of log entries that   *)
(* the log scanner, the transaction processor's iterator, the clients that *)
(* append and the readers of old entries share.  The scanner also feeds    *)
(* the matcher with the after-images it reads.  The log (zlog) is external:*)
(* an append takes a position first and writes it later; in between the    *)
(* position is a hole.                                                     *)
(***************************************************************************)
EXTENDS Integers, Sequences, FiniteSets, FiniteSetsExt

CONSTANTS Clients,     \* client threads, one intention each
          OldLog,      \* the log when the instance was opened
          Start,       \* replay_start_pos
          CacheSize,   \* cache_size_, 1000 by default
          MaxOthers,   \* bound: intentions of another instance on the log
          MaxFills     \* bound: positions another instance fills

ASSUME EntryServiceAssumption ==
    /\ CacheSize \in Nat \ {0}
    /\ MaxOthers \in Nat /\ MaxFills \in Nat

Entries == [type : {"intention", "afterimage", "filled", "hole"}, ipos : Nat]

\* FindRestorePoint found the intention before the start, and filled the holes it
\* met on its way back to it.
ASSUME RestorePointAssumption ==
    /\ OldLog \in Seq(Entries)
    /\ Start \in 2..Len(OldLog)
    /\ \A p \in (Start - 1)..Len(OldLog) : OldLog[p].type # "hole"

VARIABLES
    log,        \* the entries, holes included
    cache,      \* entry_cache_: position -> entry
    max_pos,    \* max_pos_
    stop,       \* stop_
    scanner,    \* IOEntry: pc, next, tail, entry
    reader,     \* IntentionIterator of the processor: pc, pos, entry
    notified,   \* the condition variable of a waiting reader was notified
    client,     \* each client's append: pc and position
    writer,     \* the after-image writer's append: pc, position, intention
    pushed,     \* positions of the after-images pushed to the matcher
    delivered,  \* positions of the intentions that the iterator returned
    dangling    \* an entry was returned after entry_cache_gc erased it

vars == <<log, cache, max_pos, stop, scanner, reader, notified, client, writer,
          pushed, delivered, dangling>>

Intention     == [type |-> "intention", ipos |-> 0]
AfterImage(i) == [type |-> "afterimage", ipos |-> i]
Filled        == [type |-> "filled", ipos |-> 0]
Hole          == [type |-> "hole", ipos |-> 0]

Positions(type) == {p \in DOMAIN log : log[p].type = type}

\* The largest positions stay.
entry_cache_gc(c) ==
    [p \in {q \in DOMAIN c : Cardinality({r \in DOMAIN c : r >= q}) <= CacheSize} |-> c[p]]

\* emplace, which keeps an entry that is there, and entry_cache_gc.
Emplace(p, e) ==
    entry_cache_gc([q \in DOMAIN cache \cup {p} |-> IF q \in DOMAIN cache THEN cache[q] ELSE e])

\* FindRestorePoint has set max_pos_ to the tail, filled the tail, and read back
\* to the restore point.
Init ==
    /\ log = OldLog
    /\ cache = entry_cache_gc([p \in (Start - 1)..Len(OldLog) |-> OldLog[p]])
    /\ max_pos = Len(OldLog)
    /\ stop = FALSE
    /\ scanner = [pc |-> "top", next |-> Start, tail |-> Start, entry |-> Hole]
    /\ reader = [pc |-> "read", pos |-> Start, entry |-> Hole]
    /\ notified = FALSE
    /\ client = [c \in Clients |-> [pc |-> "begin", pos |-> 0]]
    /\ writer = [pc |-> "begin", pos |-> 0, ipos |-> 0]
    /\ pushed = {}
    /\ delivered = <<>>
    /\ dangling = FALSE

\* The tail waiters are notified when max_pos_ may have changed.
AddEntry(p, e) ==
    /\ cache' = Emplace(p, e)
    /\ max_pos' = Max({max_pos, p})
    /\ notified' = (reader.pc = "wait")

-----------------------------------------------------------------------------
(* The log scanner. *)

\* The scanner leaves its loop, or looks for the tail and waits for it to move.
ScanTop ==
    /\ scanner.pc = "top"
    /\ scanner' = IF stop THEN [scanner EXCEPT !.pc = "done"]
                  ELSE [scanner EXCEPT !.tail = Len(log) + 1,
                           !.pc = IF scanner.next < Len(log) + 1 THEN "look" ELSE "top"]
    /\ UNCHANGED <<log, cache, max_pos, stop, reader, notified, client, writer, pushed, delivered, dangling>>

Advanced == [scanner EXCEPT !.next = @ + 1,
                            !.pc = IF scanner.next + 1 < scanner.tail THEN "look" ELSE "top"]

ScanCached ==
    /\ scanner.pc = "look"
    /\ scanner.next \in DOMAIN cache
    /\ scanner' = Advanced
    /\ UNCHANGED <<log, cache, max_pos, stop, reader, notified, client, writer, pushed, delivered, dangling>>

\* The log is read without the lock.  A hole is read again; at a filled position
\* the inner loop ends, and starts over at the same position; an after-image is
\* pushed to the matcher.
ScanRead ==
    /\ scanner.pc = "look"
    /\ scanner.next \notin DOMAIN cache
    /\ LET e == log[scanner.next]
       IN  /\ e.type # "hole"
           /\ scanner' = IF e.type = "filled" THEN [scanner EXCEPT !.pc = "top"]
                         ELSE [scanner EXCEPT !.pc = "store", !.entry = e]
           /\ pushed' = IF e.type = "afterimage" THEN pushed \cup {scanner.next} ELSE pushed
    /\ UNCHANGED <<log, cache, max_pos, stop, reader, notified, client, writer, delivered, dangling>>

\* Mutant of ScanStore: max_pos_ is left alone.
ScanStore_KeepMax ==
    /\ scanner.pc = "store"
    /\ cache' = Emplace(scanner.next, scanner.entry)
    /\ scanner' = Advanced
    /\ UNCHANGED <<log, max_pos, notified, stop, reader, client, writer, pushed, delivered, dangling>>

ScanStore ==
    /\ scanner.pc = "store"
    /\ AddEntry(scanner.next, scanner.entry)
    /\ scanner' = Advanced
    /\ UNCHANGED <<log, stop, reader, client, writer, pushed, delivered, dangling>>

-----------------------------------------------------------------------------
(* The transaction processor: IntentionIterator::Next and Read. *)

\* Next() skips what is not an intention.
Deliver(e) ==
    /\ reader' = [pc |-> "read", pos |-> reader.pos + 1, entry |-> Hole]
    /\ delivered' = IF e.type = "intention" THEN Append(delivered, reader.pos) ELSE delivered

ReadHit ==
    /\ reader.pc = "read"
    /\ reader.pos \in DOMAIN cache
    /\ Deliver(cache[reader.pos])
    /\ UNCHANGED <<log, cache, max_pos, stop, scanner, notified, client, writer, pushed, dangling>>

\* Beyond max_pos_ the reader waits, unless the service has been stopped.
ReadMiss ==
    /\ reader.pc = "read"
    /\ reader.pos \notin DOMAIN cache
    /\ reader' = [reader EXCEPT !.pc = IF reader.pos <= max_pos THEN "io"
                                       ELSE IF stop THEN "done" ELSE "wait"]
    /\ notified' = FALSE
    /\ UNCHANGED <<log, cache, max_pos, stop, scanner, client, writer, pushed, delivered, dangling>>

ReadWakes ==
    /\ reader.pc = "wait"
    /\ notified
    /\ reader' = [reader EXCEPT !.pc = IF stop THEN "done"
                                       ELSE IF reader.pos <= max_pos THEN "io" ELSE "wait"]
    /\ notified' = FALSE
    /\ UNCHANGED <<log, cache, max_pos, stop, scanner, client, writer, pushed, delivered, dangling>>

\* Mutant of Readable: a hole is as good as a filled position.
Readable_Holes(p) == p \in DOMAIN log

\* The log has an answer; a hole or a position past the tail is read again.
Readable(p) == p \in DOMAIN log /\ log[p].type # "hole"

ReadIO ==
    /\ reader.pc = "io"
    /\ Readable(reader.pos)
    /\ reader' = [reader EXCEPT !.pc = "store", !.entry = log[reader.pos]]
    /\ UNCHANGED <<log, cache, max_pos, stop, scanner, notified, client, writer, pushed, delivered, dangling>>

\* The entry is returned through the iterator that emplace gave, after the cache
\* was collected.  When the collection took this very entry the behaviour is
\* undefined: nothing more is said of the thread that returns it.
Return(p, e) ==
    /\ cache' = Emplace(p, e)
    /\ dangling' = (dangling \/ p \notin DOMAIN cache')

ReadStore ==
    /\ reader.pc = "store"
    /\ Return(reader.pos, reader.entry)
    /\ IF reader.pos \in DOMAIN cache'
       THEN Deliver(cache'[reader.pos])
       ELSE reader' = [reader EXCEPT !.pc = "undefined"] /\ UNCHANGED delivered
    /\ UNCHANGED <<log, max_pos, stop, scanner, notified, client, writer, pushed>>

\* The conflict check of the processor reads intentions that are older than the
\* one it has been given, those before the restore point included.
ReadIntentions(p) ==
    /\ reader.pc = "read"
    /\ \E i \in DOMAIN delivered : p < delivered[i]
    /\ p \in Positions("intention") \ DOMAIN cache
    /\ Return(p, log[p])
    /\ reader' = [reader EXCEPT !.pc = IF p \in DOMAIN cache' THEN @ ELSE "undefined"]
    /\ UNCHANGED <<log, max_pos, stop, scanner, notified, client, writer, pushed, delivered>>

\* Another thread follows a pointer to a node of an after-image that the scanner
\* or the processor has met.
ReadAfterImage(p) ==
    /\ p < scanner.next \/ p < reader.pos \/ p \in pushed
    /\ p \in Positions("afterimage") \ DOMAIN cache
    /\ Return(p, log[p])
    /\ UNCHANGED <<log, max_pos, stop, scanner, reader, notified, client, writer, pushed, delivered>>

-----------------------------------------------------------------------------
(* Appends. *)

ReservePosition(c) ==
    /\ client[c].pc = "begin"
    /\ log' = Append(log, Hole)
    /\ client' = [client EXCEPT ![c] = [pc |-> "reserved", pos |-> Len(log) + 1]]
    /\ UNCHANGED <<cache, max_pos, stop, scanner, reader, notified, writer, pushed, delivered, dangling>>

WritePosition(c) ==
    /\ client[c].pc = "reserved"
    /\ log' = [log EXCEPT ![client[c].pos] = Intention]
    /\ client' = [client EXCEPT ![c].pc = "written"]
    /\ UNCHANGED <<cache, max_pos, stop, scanner, reader, notified, writer, pushed, delivered, dangling>>

\* The rest of Append(std::unique_ptr<Intention>).
CacheAppended(c) ==
    /\ client[c].pc = "written"
    /\ AddEntry(client[c].pos, Intention)
    /\ client' = [client EXCEPT ![c].pc = "done"]
    /\ UNCHANGED <<log, stop, scanner, reader, writer, pushed, delivered, dangling>>

\* The next intention whose after-image this instance writes.
ToWrite == {i \in DOMAIN delivered : writer.ipos < delivered[i]}

ReserveAfterImage ==
    /\ writer.pc = "begin"
    /\ ToWrite # {}
    /\ log' = Append(log, Hole)
    /\ writer' = [pc |-> "reserved", pos |-> Len(log) + 1, ipos |-> delivered[Min(ToWrite)]]
    /\ UNCHANGED <<cache, max_pos, stop, scanner, reader, notified, client, pushed, delivered, dangling>>

\* Mutant of WriteAfterImage: what was appended is cached, as with intentions.
WriteAfterImage_Cached ==
    /\ writer.pc = "reserved"
    /\ log' = [log EXCEPT ![writer.pos] = AfterImage(writer.ipos)]
    /\ writer' = [writer EXCEPT !.pc = "begin"]
    /\ AddEntry(writer.pos, AfterImage(writer.ipos))
    /\ UNCHANGED <<stop, scanner, reader, client, pushed, delivered, dangling>>

WriteAfterImage ==
    /\ writer.pc = "reserved"
    /\ log' = [log EXCEPT ![writer.pos] = AfterImage(writer.ipos)]
    /\ writer' = [writer EXCEPT !.pc = "begin"]
    /\ UNCHANGED <<cache, max_pos, stop, scanner, reader, notified, client, pushed, delivered, dangling>>

\* Another instance on the same log.
Others == Cardinality(Positions("intention") \ DOMAIN OldLog)
          - Cardinality({c \in Clients : client[c].pc \in {"written", "done"}})

OtherAppends ==
    /\ Others < MaxOthers
    /\ log' = Append(log, Intention)
    /\ UNCHANGED <<cache, max_pos, stop, scanner, reader, notified, client, writer, pushed, delivered, dangling>>

OtherFills ==
    /\ Cardinality(Positions("filled") \ DOMAIN OldLog) < MaxFills
    /\ log' = Append(log, Filled)
    /\ UNCHANGED <<cache, max_pos, stop, scanner, reader, notified, client, writer, pushed, delivered, dangling>>

\* Mutant of Stop: the waiters are not notified.
Stop_Quiet ==
    /\ ~stop
    /\ stop' = TRUE
    /\ UNCHANGED <<log, cache, max_pos, scanner, reader, notified, client, writer, pushed, delivered, dangling>>

Stop ==
    /\ ~stop
    /\ stop' = TRUE
    /\ notified' = (reader.pc = "wait")
    /\ UNCHANGED <<log, cache, max_pos, scanner, reader, client, writer, pushed, delivered, dangling>>

-----------------------------------------------------------------------------
Scanner == ScanTop \/ ScanCached \/ ScanRead \/ ScanStore
Reader == ReadHit \/ ReadMiss \/ ReadWakes \/ ReadIO \/ ReadStore
Writer == ReserveAfterImage \/ WriteAfterImage
Client(c) == ReservePosition(c) \/ WritePosition(c) \/ CacheAppended(c)

Next ==
    \/ Scanner
    \/ Reader
    \/ Writer
    \/ \E c \in Clients : Client(c)
    \/ \E p \in DOMAIN log : ReadIntentions(p) \/ ReadAfterImage(p)
    \/ OtherAppends
    \/ OtherFills
    \/ Stop

Spec == Init /\ [][Next]_vars

\* The threads run, and an append that has begun is finished: holes are
\* temporary.
FairSpec ==
    /\ Spec
    /\ WF_vars(Scanner) /\ WF_vars(Reader) /\ WF_vars(WriteAfterImage)
    /\ \A c \in Clients : WF_vars(WritePosition(c) \/ CacheAppended(c))

\* A position no log of the instance is longer than.
MaxPosition == 2 * (Len(OldLog) + Cardinality(Clients) + MaxOthers) + MaxFills

-----------------------------------------------------------------------------
\* The processor is given every intention of the log, in the order of the log,
\* once, whatever was cached, collected, written late or read from the log.
IntentionsInOrder ==
    /\ {delivered[i] : i \in DOMAIN delivered} =
           Positions("intention") \cap (Start..(reader.pos - 1))
    /\ \A i, j \in DOMAIN delivered : i < j => delivered[i] < delivered[j]

\* "matches intentions with their primary afterimage in the log": the scanner pushes
\* every after-image of this session that it passes, except one that the processor's
\* iterator read from the log and cached before it.
MissedOnlyIfReadAhead ==
    \A p \in Positions("afterimage") \ DOMAIN OldLog :
        p < scanner.next => p \in pushed \/ p < reader.pos

\* "wait to be notified when the position has been read by the log scanner":
\* every intention in the log reaches the processor or the service is stopped.
EveryIntentionDelivered ==
    \A p \in Start..MaxPosition :
        (p \in Positions("intention")) ~> (reader.pos > p \/ stop \/ dangling)

\* Once stopped, the scanner and the processor end.
StopEnds == stop ~> (scanner.pc = "done" /\ reader.pc = "done")
=============================================================================
