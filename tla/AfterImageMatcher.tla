-------------------------- MODULE AfterImageMatcher --------------------------
(***************************************************************************)
(* EntryService::PrimaryAfterImageMatcher (src/db/entry_service.cc): the   *)
(* after-image writer watches for the after-images of committed            *)
(* intentions, the log scanner pushes the after-images it meets, and the   *)
(* finalizer thread takes the matches.  The index that joins the two is    *)
(* also what drops the copies of an after-image that other instances wrote.*)
(***************************************************************************)
EXTENDS Integers, Sequences, FiniteSetsExt

CONSTANTS Intentions,   \* committed intentions this instance will watch
          Unwatched,    \* intentions it never watches: up to its restore point
          MaxPos        \* bound: last position of the log

ASSUME IntentionsAssumption ==
    /\ Intentions \subseteq Nat \ {0}
    /\ Unwatched \subseteq Nat \ {0}
    /\ Intentions \cap Unwatched = {}
    /\ MaxPos \in Nat

VARIABLES
    images,             \* after-images pushed so far, in log order
    watched,            \* the last intention watched, 0 before the first
    afterimages,        \* afterimages_: intention -> entry
    matched_watermark,  \* matched_watermark_
    matched,            \* matched_
    stop,               \* stop_ of DBImpl, then shutdown_: "no", "stop", "shutdown"
    finalizer,          \* "run" or "stopped"
    mapping             \* what the finalizer has given to the node cache

vars == <<images, watched, afterimages, matched_watermark, matched, stop,
          finalizer, mapping>>

\* Entries of the index; a position of 0 stands for boost::none.
ImageOnly(pos) == [pos |-> pos, tree |-> FALSE]
WatchOnly      == [pos |-> 0, tree |-> TRUE]
Matched        == [pos |-> 0, tree |-> FALSE]

Init ==
    /\ images = <<>>
    /\ watched = 0
    /\ afterimages = [i \in {} |-> Matched]
    /\ matched_watermark = 0
    /\ matched = <<>>
    /\ stop = "no"
    /\ finalizer = "run"
    /\ mapping = [i \in {} |-> 0]

With(index, i, e) == [j \in DOMAIN index \cup {i} |-> IF j = i THEN e ELSE index[j]]

\* Mutant of Collectable: every matched entry, also behind one that waits.
Collectable_All(index) == {i \in DOMAIN index : index[i] = Matched}

\* gc(): the entries before the first one that is not matched.
Collectable(index) ==
    {i \in DOMAIN index : \A j \in DOMAIN index : j <= i => index[j] = Matched}

gc(index) ==
    LET gone == Collectable(index)
    IN  /\ afterimages' = [i \in DOMAIN index \ gone |-> index[i]]
        /\ matched_watermark' = IF gone = {} THEN matched_watermark ELSE Max(gone)

ToWatch == {i \in Intentions : watched < i}

\* Watches are set in the order of the log, one for each committed intention.
watch ==
    /\ ToWatch # {}
    /\ LET ipos == Min(ToWatch)
       IN  /\ watched' = ipos
           /\ IF ipos \notin DOMAIN afterimages
              THEN /\ gc(With(afterimages, ipos, WatchOnly))
                   /\ matched' = matched
              ELSE /\ gc(With(afterimages, ipos, Matched))
                   /\ matched' = Append(matched, [ipos |-> ipos, pos |-> afterimages[ipos].pos])
    /\ UNCHANGED <<images, stop, finalizer, mapping>>

Waiting(ipos) == ipos \in DOMAIN afterimages /\ afterimages[ipos] = WatchOnly

\* Mutant of Indexed: the after-image replaces what the entry holds.
Indexed_Replace(ipos, pos) ==
    With(afterimages, ipos, IF Waiting(ipos) THEN Matched ELSE ImageOnly(pos))

\* The index with an after-image added: the first one of an intention is kept
\* until its watch, the others change nothing.
Indexed(ipos, pos) ==
    CASE ipos \notin DOMAIN afterimages -> With(afterimages, ipos, ImageOnly(pos))
      [] Waiting(ipos) -> With(afterimages, ipos, Matched)
      [] OTHER -> afterimages

push(ipos, pos) ==
    /\ images' = Append(images, [ipos |-> ipos, pos |-> pos])
    /\ IF ipos <= matched_watermark
       THEN UNCHANGED <<afterimages, matched_watermark, matched>>
       ELSE /\ gc(Indexed(ipos, pos))
            /\ matched' = IF Waiting(ipos)
                          THEN Append(matched, [ipos |-> ipos, pos |-> pos])
                          ELSE matched
    /\ UNCHANGED <<watched, stop, finalizer, mapping>>

\* The next after-image that the scanner meets: a later position than before,
\* for an intention before it.
LastPos == IF images = <<>> THEN 0 ELSE images[Len(images)].pos

Scan(i, p) == LastPos < p /\ i < p /\ push(i, p)

\* match(), and what the finalizer does with the match: it records the position
\* with the node cache, and stops when it then finds stop_ set.
Finalize ==
    /\ finalizer = "run"
    /\ stop # "shutdown"
    /\ matched # <<>>
    /\ mapping' = With(mapping, Head(matched).ipos, Head(matched).pos)
    /\ matched' = Tail(matched)
    /\ finalizer' = IF stop = "no" THEN "run" ELSE "stopped"
    /\ UNCHANGED <<images, watched, afterimages, matched_watermark, stop>>

\* match() returns no tree.
FinalizerStops ==
    /\ finalizer = "run"
    /\ stop = "shutdown"
    /\ finalizer' = "stopped"
    /\ UNCHANGED <<images, watched, afterimages, matched_watermark, matched, stop, mapping>>

\* ~DBImpl sets stop_, then EntryService::Stop calls shutdown().
Stop ==
    /\ stop # "shutdown"
    /\ stop' = IF stop = "no" THEN "stop" ELSE "shutdown"
    /\ UNCHANGED <<images, watched, afterimages, matched_watermark, matched, finalizer, mapping>>

Next ==
    \/ watch
    \/ \E i \in Intentions \cup Unwatched, p \in 1..MaxPos : Scan(i, p)
    \/ Finalize
    \/ FinalizerStops
    \/ Stop

Spec == Init /\ [][Next]_vars

\* The finalizer thread runs.
FairSpec == Spec /\ WF_vars(Finalize) /\ WF_vars(FinalizerStops)

-----------------------------------------------------------------------------
Abstract == INSTANCE PrimaryAfterImage WITH Positions <- 0..MaxPos

Image == [ipos : 0..MaxPos, pos : 1..MaxPos]

\* Every variable has its type.
TypeOK ==
    /\ images \in Seq(Image)
    /\ watched \in Intentions \cup {0}
    /\ DOMAIN afterimages \subseteq Intentions \cup Unwatched
    /\ \A i \in DOMAIN afterimages :
          /\ afterimages[i] \in [pos : Nat, tree : BOOLEAN]
          /\ afterimages[i].tree => afterimages[i].pos = 0
    /\ matched_watermark \in Nat
    /\ matched \in Seq(Image)
    /\ stop \in {"no", "stop", "shutdown"}
    /\ finalizer \in {"run", "stopped"}
    /\ DOMAIN mapping \subseteq Nat
    /\ \A i \in DOMAIN mapping : mapping[i] \in Nat

\* The assertions of gc() and of watch() hold whenever they are evaluated: the
\* index has nothing below the watermark, the next watch neither, and the next
\* watch meets at most an after-image.
AssertsHold ==
    /\ \A i \in DOMAIN afterimages : matched_watermark < i
    /\ ToWatch # {} =>
          LET ipos == Min(ToWatch)
          IN  /\ matched_watermark < ipos
              /\ ipos \in DOMAIN afterimages =>
                    afterimages[ipos].pos # 0 /\ ~afterimages[ipos].tree

\* No after-image is lost: a watched intention whose after-image was pushed,
\* before or after the watch, before or after any collection of the index, is
\* matched or has been handed over.
MatchedInTime(i) == \E k \in DOMAIN matched : matched[k].ipos = i

NothingLost ==
    \A i \in Intentions :
        (i <= watched /\ Abstract!ImagesOf(i) # {}) =>
            MatchedInTime(i) \/ i \in DOMAIN mapping

\* The node cache is told about each intention at most once, and about its
\* primary after-image, however many copies the log holds.
MapsToPrimary == Abstract!AbsSpec

\* A watched intention with an after-image is handed over, or the instance is
\* being closed.
MatchDelivered ==
    \A i \in Intentions :
        (i <= watched /\ Abstract!ImagesOf(i) # {}) ~>
            (i \in DOMAIN mapping \/ stop # "no")
=============================================================================
