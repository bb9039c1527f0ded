----------------------- MODULE AfterImageMatcherProofs -----------------------
(***************************************************************************)
(* The matcher is correct for any set of intentions and any log: its index *)
(* is at all times what the watches and the after-images met so far make   *)
(* it, cut off at the watermark.                                           *)
(***************************************************************************)
EXTENDS AfterImageMatcher, MinMaxFacts

Watched(i) == i \in Intentions /\ i <= watched

Seen(i) == Abstract!ImagesOf(i) # {}

Primary(i) == images[Min(Abstract!ImagesOf(i))].pos

(* The entry of i that its history calls for. *)
EntryFor(i) ==
    IF Watched(i) THEN IF Seen(i) THEN Matched ELSE WatchOnly
    ELSE ImageOnly(Primary(i))

GoodIndex ==
    /\ DOMAIN afterimages = {i \in Intentions \cup Unwatched :
                              matched_watermark < i /\ (Watched(i) \/ Seen(i))}
    /\ \A i \in DOMAIN afterimages : afterimages[i] = EntryFor(i)

GoodWatermark ==
    /\ matched_watermark <= watched
    /\ \A i \in Intentions : i <= matched_watermark => Seen(i)

(* Every match is made once, with the primary after-image. *)
GoodMatches ==
    /\ \A k \in DOMAIN matched :
          /\ Watched(matched[k].ipos) /\ Seen(matched[k].ipos)
          /\ matched[k].pos = Primary(matched[k].ipos)
          /\ matched[k].ipos \notin DOMAIN mapping
    /\ \A k, l \in DOMAIN matched : matched[k].ipos = matched[l].ipos => k = l
    /\ \A i \in DOMAIN mapping : Watched(i) /\ Seen(i)

IInv ==
    /\ TypeOK
    /\ GoodIndex
    /\ GoodWatermark
    /\ GoodMatches
    /\ NothingLost

-----------------------------------------------------------------------------
\* The primary after-image of an intention is a position of the log.
LEMMA PrimaryType ==
    ASSUME images \in Seq(Image), NEW i, Seen(i)
    PROVE  Primary(i) \in 1..MaxPos
<1>1. Abstract!ImagesOf(i) \in SUBSET Nat /\ Abstract!ImagesOf(i) # {}
  BY DEF Abstract!ImagesOf, Seen
<1>2. Min(Abstract!ImagesOf(i)) \in DOMAIN images
  BY <1>1, MinOfNats DEF Abstract!ImagesOf
<1>3. images[Min(Abstract!ImagesOf(i))] \in Image
  BY <1>2
<1>4. QED  BY <1>3 DEF Primary, Image

\* Another after-image changes nothing for the intentions that had one.
LEMMA AnotherImage ==
    ASSUME images \in Seq(Image), NEW e \in Image, images' = Append(images, e)
    PROVE  /\ images' \in Seq(Image)
           /\ \A i : Seen(i)' <=> (Seen(i) \/ i = e.ipos)
           /\ \A i : Seen(i) => Primary(i)' = Primary(i)
           /\ ~Seen(e.ipos) => Primary(e.ipos)' = e.pos
<1> DEFINE n == Len(images) + 1
<1>1. /\ images' \in Seq(Image) /\ Len(images) \in Nat
      /\ DOMAIN images = 1..Len(images) /\ DOMAIN images' = 1..n
      /\ \A k \in DOMAIN images : images'[k] = images[k]
      /\ images'[n] = e
  BY AppendFacts
<1>2. DOMAIN images' = DOMAIN images \cup {n} /\ n \notin DOMAIN images
  BY <1>1
<1>3. ASSUME NEW i
      PROVE  /\ i # e.ipos => Abstract!ImagesOf(i)' = Abstract!ImagesOf(i)
             /\ i = e.ipos => Abstract!ImagesOf(i)' = Abstract!ImagesOf(i) \cup {n}
  <2> HIDE DEF n
  <2>1. QED  BY <1>1, <1>2 DEF Abstract!ImagesOf
<1>4. \A i : Seen(i)' <=> (Seen(i) \/ i = e.ipos)
  BY <1>3 DEF Seen
<1>5. ASSUME NEW i, Seen(i)
      PROVE  Primary(i)' = Primary(i)
  <2> DEFINE S == Abstract!ImagesOf(i)
             T == Abstract!ImagesOf(i)'
  <2>1. S \in SUBSET Nat /\ S # {} /\ S \subseteq DOMAIN images
    BY <1>1, <1>5 DEF Abstract!ImagesOf, Seen
  <2>2. Min(S) \in S /\ \A y \in S : Min(S) <= y
    BY <2>1, MinOfNats
  <2>3. T = S \/ T = S \cup {n}
    BY <1>3
  <2>4. T \in SUBSET Nat /\ T # {}
    BY <1>1, <2>1, <2>3
  <2>5. Min(T) \in T /\ \A y \in T : Min(T) <= y
    BY <2>4, MinOfNats
  <2>6. Min(T) = Min(S)
    BY <1>1, <2>1, <2>2, <2>3, <2>5
  <2>7. QED  BY <1>1, <2>1, <2>2, <2>6 DEF Primary
<1>6. ASSUME ~Seen(e.ipos)
      PROVE  Primary(e.ipos)' = e.pos
  <2>1. Abstract!ImagesOf(e.ipos)' = {n}
    BY <1>3, <1>6 DEF Seen
  <2>2. n \in Nat
    BY <1>1
  <2>3. Min({n}) = n
    <3>1. {n} \in SUBSET Nat /\ {n} # {}
      BY <2>2
    <3>2. Min({n}) \in {n}
      BY <3>1, MinOfNats
    <3>3. QED  BY <3>2
  <2>4. QED  BY <1>1, <2>1, <2>3 DEF Primary
<1>7. QED  BY <1>1, <1>4, <1>5, <1>6

\* Collecting an index that is what its history calls for leaves one that is,
\* and the watermark passes no intention that still waits.
LEMMA GcStep ==
    ASSUME NEW g, gc(g),
           matched_watermark \in Nat, watched' \in Nat,
           matched_watermark <= watched',
           \A i \in Intentions : i <= matched_watermark => Seen(i)',
           \A i : Seen(i)' => Primary(i)' # 0,
           DOMAIN g = {i \in Intentions \cup Unwatched :
                          matched_watermark < i /\ (Watched(i)' \/ Seen(i)')},
           \A i \in DOMAIN g : g[i] = EntryFor(i)'
    PROVE  GoodIndex' /\ GoodWatermark' /\ matched_watermark' \in Nat
<1> DEFINE gone == Collectable(g)
<1>1. /\ afterimages' = [i \in DOMAIN g \ gone |-> g[i]]
      /\ matched_watermark' = IF gone = {} THEN matched_watermark ELSE Max(gone)
  BY DEF gc
<1>2. \A i \in DOMAIN g : g[i] = Matched <=> (Watched(i)' /\ Seen(i)')
  <2>1. TAKE i \in DOMAIN g
  <2>2. WatchOnly # Matched /\ (Seen(i)' => ImageOnly(Primary(i)') # Matched)
    BY DEF WatchOnly, ImageOnly, Matched
  <2>3. Watched(i)' \/ Seen(i)'
    OBVIOUS
  <2>4. QED  BY <2>2, <2>3 DEF EntryFor
<1>3. /\ gone \subseteq DOMAIN g
      /\ \A i \in gone : Watched(i)' /\ Seen(i)'
      /\ \A i \in gone, j \in DOMAIN g : j <= i => j \in gone
  <2>1. DOMAIN g \subseteq Nat
    BY IntentionsAssumption
  <2>2. \A i \in gone : i \in DOMAIN g /\ \A j \in DOMAIN g : j <= i => g[j] = Matched
    BY DEF Collectable
  <2>3. \A i \in gone : Watched(i)' /\ Seen(i)'
    BY <1>2, <2>1, <2>2
  <2>4. \A i \in gone, j \in DOMAIN g : j <= i => j \in gone
    BY <2>1, <2>2 DEF Collectable
  <2>5. QED  BY <2>2, <2>3, <2>4
<1>4. CASE gone = {}
  <2>1. matched_watermark' = matched_watermark /\ DOMAIN afterimages' = DOMAIN g
        /\ \A i \in DOMAIN g : afterimages'[i] = g[i]
    BY <1>1, <1>4
  <2>2. QED  BY <2>1 DEF GoodIndex, GoodWatermark
<1>5. CASE gone # {}
  <2>0. DOMAIN g \subseteq Nat
    BY IntentionsAssumption
  <2>1. gone \in SUBSET (0..watched')
    BY <1>3, <2>0 DEF Watched
  <2>2. Max(gone) \in gone /\ \A y \in gone : y <= Max(gone)
    BY <1>5, <2>1, MaxOfBounded
  <2> DEFINE w == Max(gone)
  <2>3. matched_watermark' = w /\ w \in Nat /\ w \in DOMAIN g /\ Watched(w)' /\ matched_watermark < w
    BY <1>1, <1>3, <1>5, <2>0, <2>1, <2>2
  <2> HIDE DEF w
  <2>4. \A i \in DOMAIN g : i \in gone <=> i <= w
    BY <1>3, <2>0, <2>1, <2>2 DEF w
  <2>5. DOMAIN afterimages' = {i \in DOMAIN g : ~(i <= w)}
    BY <1>1, <2>4
  <2>6. DOMAIN afterimages' = {i \in Intentions \cup Unwatched : w < i /\ (Watched(i)' \/ Seen(i)')}
    <3>1. \A i \in Intentions \cup Unwatched :
             (matched_watermark < i /\ ~(i <= w)) <=> w < i
      BY <2>3, IntentionsAssumption
    <3>2. QED  BY <2>5, <3>1
  <2>7. GoodIndex'
    BY <1>1, <2>3, <2>5, <2>6 DEF GoodIndex
  <2>8. w <= watched'
    BY <2>3 DEF Watched
  <2>9. ASSUME NEW i \in Intentions, i <= w
        PROVE  Seen(i)'
    <3>1. CASE i <= matched_watermark
      BY <3>1
    <3>2. CASE ~(i <= matched_watermark)
      <4>1. Watched(i)' /\ matched_watermark < i
        BY <2>3, <2>8, <2>9, <3>2, IntentionsAssumption DEF Watched
      <4>2. i \in DOMAIN g
        BY <4>1
      <4>3. i \in gone
        BY <2>4, <2>9, <4>2
      <4>4. QED  BY <1>3, <4>3
    <3>3. QED  BY <3>1, <3>2
  <2>10. QED  BY <2>3, <2>7, <2>8, <2>9 DEF GoodWatermark
<1>6. QED  BY <1>4, <1>5

\* The queue of matches keeps what is said of it when nothing is added although
\* no new match is due, or when the one match that is due is added.
LEMMA MatchesStep ==
    ASSUME IInv, mapping' = mapping,
           \A i : Watched(i) => Watched(i)',
           \A i : Seen(i) => Seen(i)' /\ Primary(i)' = Primary(i),
           \/ /\ matched' = matched
              /\ \A i \in Intentions : (Watched(i)' /\ Seen(i)') => (Watched(i) /\ Seen(i))
           \/ \E e \in Image :
                 /\ matched' = Append(matched, e)
                 /\ Watched(e.ipos)' /\ Seen(e.ipos)' /\ e.pos = Primary(e.ipos)'
                 /\ ~(Watched(e.ipos) /\ Seen(e.ipos))
                 /\ \A i \in Intentions : (Watched(i)' /\ Seen(i)') =>
                                             ((Watched(i) /\ Seen(i)) \/ i = e.ipos)
    PROVE  matched' \in Seq(Image) /\ GoodMatches' /\ NothingLost'
<1> USE DEF IInv
<1>0. matched \in Seq(Image)
  BY DEF TypeOK
<1>1. CASE /\ matched' = matched
           /\ \A i \in Intentions : (Watched(i)' /\ Seen(i)') => (Watched(i) /\ Seen(i))
  <2>1. GoodMatches'
    BY <1>1 DEF GoodMatches
  <2>2. NothingLost'
    BY <1>1 DEF NothingLost, MatchedInTime, Watched, Seen
  <2>3. QED  BY <1>0, <1>1, <2>1, <2>2
<1>2. ASSUME NEW e \in Image,
             matched' = Append(matched, e),
             Watched(e.ipos)', Seen(e.ipos)', e.pos = Primary(e.ipos)',
             ~(Watched(e.ipos) /\ Seen(e.ipos)),
             \A i \in Intentions : (Watched(i)' /\ Seen(i)') =>
                                      ((Watched(i) /\ Seen(i)) \/ i = e.ipos)
      PROVE  matched' \in Seq(Image) /\ GoodMatches' /\ NothingLost'
  <2> DEFINE n == Len(matched) + 1
  <2>1. /\ matched' \in Seq(Image) /\ Len(matched) \in Nat
        /\ DOMAIN matched = 1..Len(matched) /\ DOMAIN matched' = 1..n
        /\ \A k \in DOMAIN matched : matched'[k] = matched[k]
        /\ matched'[n] = e
    BY <1>0, <1>2, AppendFacts
  <2>2. DOMAIN matched' = DOMAIN matched \cup {n} /\ n \notin DOMAIN matched
    BY <2>1
  <2> HIDE DEF n
  <2>3. ASSUME NEW k \in DOMAIN matched', NEW i, i = matched'[k].ipos
        PROVE  /\ Watched(i)' /\ Seen(i)'
               /\ matched'[k].pos = Primary(i)'
               /\ i \notin DOMAIN mapping'
    <3>1. CASE k \in DOMAIN matched
      <4>1. i = matched[k].ipos /\ matched'[k] = matched[k]
        BY <2>1, <2>3, <3>1
      <4>2. Watched(i) /\ Seen(i) /\ matched[k].pos = Primary(i) /\ i \notin DOMAIN mapping
        BY <3>1, <4>1 DEF GoodMatches
      <4>3. QED  BY <4>1, <4>2
    <3>2. CASE k = n
      <4>1. i = e.ipos /\ matched'[k] = e
        BY <2>1, <2>3, <3>2
      <4>2. e.ipos \notin DOMAIN mapping
        BY <1>2 DEF GoodMatches
      <4>3. QED  BY <1>2, <4>1, <4>2
    <3>3. QED  BY <2>2, <3>1, <3>2
  <2>4. \A k \in DOMAIN matched : matched[k].ipos # e.ipos
    BY <1>2 DEF GoodMatches
  <2>5. \A k, l \in DOMAIN matched' : matched'[k].ipos = matched'[l].ipos => k = l
    BY <2>1, <2>2, <2>4 DEF GoodMatches
  <2>6. \A i \in DOMAIN mapping' : Watched(i)' /\ Seen(i)'
    BY DEF GoodMatches
  <2>7. GoodMatches'
    BY <2>3, <2>5, <2>6 DEF GoodMatches, Watched, Seen, Primary
  <2>8. ASSUME NEW i \in Intentions, Watched(i)', Seen(i)'
        PROVE  MatchedInTime(i)' \/ i \in DOMAIN mapping'
    <3>1. CASE Watched(i) /\ Seen(i)
      <4>1. MatchedInTime(i) \/ i \in DOMAIN mapping
        BY <3>1 DEF NothingLost, Watched, Seen
      <4>2. QED  BY <2>1, <2>2, <4>1 DEF MatchedInTime
    <3>2. CASE i = e.ipos
      BY <2>1, <2>2, <3>2 DEF MatchedInTime
    <3>3. QED  BY <1>2, <2>8, <3>1, <3>2
  <2>9. NothingLost'
    BY <2>8 DEF NothingLost, Watched, Seen
  <2>10. QED  BY <2>1, <2>7, <2>9
<1>3. QED  BY <1>1, <1>2

\* The positions kept by the matcher are natural numbers.
LEMMA NatTypes ==
    ASSUME TypeOK
    PROVE  watched \in Nat /\ matched_watermark \in Nat /\ ToWatch \in SUBSET Nat
<1>1. watched \in Intentions \cup {0} /\ matched_watermark \in Nat
  BY DEF TypeOK
<1>2. Intentions \subseteq Nat
  BY IntentionsAssumption
<1>3. ToWatch \in SUBSET Nat
  BY <1>2 DEF ToWatch
<1>4. QED  BY <1>1, <1>2, <1>3

\* The next intention to watch is above the watermark, is not among those
\* watched, and has at most an after-image in the index.
LEMMA NextWatch ==
    ASSUME IInv, ToWatch # {}
    PROVE  /\ Min(ToWatch) \in Intentions /\ Min(ToWatch) \in Nat
           /\ watched < Min(ToWatch) /\ matched_watermark < Min(ToWatch)
           /\ ~Watched(Min(ToWatch))
           /\ \A i \in Intentions : i <= Min(ToWatch) <=> (i <= watched \/ i = Min(ToWatch))
           /\ Min(ToWatch) \in DOMAIN afterimages <=> Seen(Min(ToWatch))
           /\ Min(ToWatch) \in DOMAIN afterimages =>
                 afterimages[Min(ToWatch)] = ImageOnly(Primary(Min(ToWatch)))
<1> USE DEF IInv
<1> DEFINE ipos == Min(ToWatch)
<1>0. Intentions \subseteq Nat
  BY IntentionsAssumption
<1>1. /\ ToWatch \in SUBSET Nat /\ watched \in Nat /\ matched_watermark \in Nat
      /\ Intentions \subseteq Nat
  BY <1>0, NatTypes
<1>2. ipos \in ToWatch /\ \A y \in ToWatch : ipos <= y
  BY <1>1, MinOfNats
<1> HIDE DEF ipos
<1>3. ipos \in Intentions /\ watched < ipos /\ ipos \in Nat
  BY <1>1, <1>2 DEF ToWatch
<1>4. \A i \in Intentions : i <= ipos <=> (i <= watched \/ i = ipos)
  BY <1>1, <1>2, <1>3 DEF ToWatch
<1>5. matched_watermark < ipos /\ ~Watched(ipos)
  BY <1>1, <1>3 DEF GoodWatermark, Watched
<1>6. ipos \in DOMAIN afterimages <=> Seen(ipos)
  BY <1>3, <1>5 DEF GoodIndex
<1>7. ipos \in DOMAIN afterimages => afterimages[ipos] = ImageOnly(Primary(ipos))
  BY <1>5 DEF GoodIndex, EntryFor
<1>8. QED  BY <1>3, <1>4, <1>5, <1>6, <1>7 DEF ipos

\* The parts of the type invariant that no step but its own changes.
LEMMA RestOfTypes ==
    ASSUME TypeOK, images' \in Seq(Image), matched' \in Seq(Image),
           watched' \in Intentions \cup {0}, matched_watermark' \in Nat, GoodIndex',
           UNCHANGED <<stop, finalizer, mapping>>
    PROVE  TypeOK'
<1>1. /\ DOMAIN afterimages' \subseteq Intentions \cup Unwatched
      /\ \A i \in DOMAIN afterimages' :
            /\ afterimages'[i] \in [pos : Nat, tree : BOOLEAN]
            /\ afterimages'[i].tree => afterimages'[i].pos = 0
  <2>1. ASSUME NEW i \in DOMAIN afterimages'
        PROVE  /\ afterimages'[i] \in [pos : Nat, tree : BOOLEAN]
               /\ afterimages'[i].tree => afterimages'[i].pos = 0
    <3>1. afterimages'[i] = EntryFor(i)' /\ (Watched(i)' \/ Seen(i)')
      BY DEF GoodIndex
    <3>2. Seen(i)' => Primary(i)' \in Nat
      <4>1. SUFFICES ASSUME Seen(i)' PROVE Primary(i)' \in Nat
        OBVIOUS
      <4>2. Abstract!ImagesOf(i)' \in SUBSET Nat /\ Abstract!ImagesOf(i)' # {}
        BY <4>1 DEF Abstract!ImagesOf, Seen
      <4>3. Min(Abstract!ImagesOf(i)') \in DOMAIN images'
        BY <4>2, MinOfNats DEF Abstract!ImagesOf
      <4>4. images'[Min(Abstract!ImagesOf(i)')] \in Image
        BY <4>3
      <4>5. QED  BY <4>4, IntentionsAssumption DEF Primary, Image
    <3>3. QED  BY <3>1, <3>2 DEF EntryFor, Matched, WatchOnly, ImageOnly
  <2>2. QED  BY <2>1 DEF GoodIndex
<1>2. QED  BY <1>1 DEF TypeOK

\* watch() keeps the invariant.
LEMMA WatchStep ==
    ASSUME IInv, watch
    PROVE  IInv'
<1> USE DEF IInv
<1>1. ToWatch # {}
  BY DEF watch
<1>p. PICK ipos \in Intentions : ipos = Min(ToWatch)
  BY <1>1, NextWatch
<1>2. /\ ipos \in Intentions /\ ipos \in Nat
      /\ watched < ipos /\ matched_watermark < ipos
      /\ ~Watched(ipos)
      /\ \A i \in Intentions : i <= ipos <=> (i <= watched \/ i = ipos)
      /\ ipos \in DOMAIN afterimages <=> Seen(ipos)
      /\ ipos \in DOMAIN afterimages => afterimages[ipos] = ImageOnly(Primary(ipos))
  BY <1>1, <1>p, NextWatch
<1>3. /\ watched' = ipos
      /\ ipos \notin DOMAIN afterimages =>
            gc(With(afterimages, ipos, WatchOnly)) /\ matched' = matched
      /\ ipos \in DOMAIN afterimages =>
            /\ gc(With(afterimages, ipos, Matched))
            /\ matched' = Append(matched, [ipos |-> ipos, pos |-> afterimages[ipos].pos])
      /\ UNCHANGED <<images, stop, finalizer, mapping>>
  BY <1>p DEF watch
<1>4. /\ images \in Seq(Image) /\ matched_watermark \in Nat /\ watched \in Nat
      /\ matched_watermark <= watched
  BY NatTypes DEF TypeOK, GoodWatermark
<1>5. \A i : /\ Seen(i)' <=> Seen(i)
             /\ Primary(i)' = Primary(i)
             /\ Watched(i)' <=> (Watched(i) \/ i = ipos)
  <2>1. \A i : Abstract!ImagesOf(i)' = Abstract!ImagesOf(i)
    BY <1>3 DEF Abstract!ImagesOf
  <2>2. \A i : Seen(i)' <=> Seen(i)
    BY <2>1 DEF Seen
  <2>3. \A i : Primary(i)' = Primary(i)
    BY <1>3, <2>1 DEF Primary
  <2>4. \A i : Watched(i)' <=> (Watched(i) \/ i = ipos)
    BY <1>2, <1>3 DEF Watched
  <2>5. QED  BY <2>2, <2>3, <2>4
<1>6. \A i : i # ipos => EntryFor(i)' = EntryFor(i)
  BY <1>5 DEF EntryFor
<1>7. EntryFor(ipos)' = IF Seen(ipos) THEN Matched ELSE WatchOnly
  BY <1>5 DEF EntryFor
<1> DEFINE g == IF Seen(ipos) THEN With(afterimages, ipos, Matched)
                              ELSE With(afterimages, ipos, WatchOnly)
<1>8. /\ gc(g)
      /\ DOMAIN g = DOMAIN afterimages \cup {ipos}
      /\ \A i \in DOMAIN g : g[i] = EntryFor(i)'
  <2>1. gc(g)
    BY <1>2, <1>3
  <2>2. DOMAIN g = DOMAIN afterimages \cup {ipos}
    BY DEF With
  <2>3. \A i \in DOMAIN g : g[i] = IF i = ipos THEN EntryFor(ipos)' ELSE afterimages[i]
    BY <1>7, <2>2 DEF With
  <2>4. \A i \in DOMAIN afterimages : afterimages[i] = EntryFor(i)
    BY DEF GoodIndex
  <2>5. QED  BY <1>6, <2>1, <2>2, <2>3, <2>4
<1>9. DOMAIN g = {i \in Intentions \cup Unwatched :
                     matched_watermark < i /\ (Watched(i)' \/ Seen(i)')}
  BY <1>2, <1>5, <1>8 DEF GoodIndex
<1>10. \A i : Seen(i)' => Primary(i)' # 0
  BY <1>4, <1>5, PrimaryType
<1>11. \A i \in Intentions : i <= matched_watermark => Seen(i)'
  BY <1>5 DEF GoodWatermark
<1> HIDE DEF g
<1>12. GoodIndex' /\ GoodWatermark' /\ matched_watermark' \in Nat
  <2>1. watched' \in Nat /\ matched_watermark <= watched'
    BY <1>2, <1>3, <1>4
  <2>2. QED  BY <1>4, <1>8, <1>9, <1>10, <1>11, <2>1, GcStep
<1>13. matched' \in Seq(Image) /\ GoodMatches' /\ NothingLost'
  <2>1. CASE ~Seen(ipos)
    <3>1. \A i \in Intentions : (Watched(i)' /\ Seen(i)') => (Watched(i) /\ Seen(i))
      BY <1>5, <2>1
    <3>2. matched' = matched
      BY <1>2, <1>3, <2>1
    <3>3. QED  BY <1>3, <1>5, <3>1, <3>2, MatchesStep
  <2>2. CASE Seen(ipos)
    <3>2. [ipos |-> ipos, pos |-> Primary(ipos)] \in Image
      <4>1. ipos \in 0..MaxPos
        <5>1. PICK k \in DOMAIN images : images[k].ipos = ipos
          BY <2>2 DEF Seen, Abstract!ImagesOf
        <5>2. images[k] \in Image
          BY <1>4, <5>1
        <5>3. QED  BY <5>1, <5>2 DEF Image
      <4>2. Primary(ipos) \in 1..MaxPos
        BY <1>4, <2>2, PrimaryType
      <4>3. QED  BY <4>1, <4>2 DEF Image
    <3>p. PICK e \in Image : e = [ipos |-> ipos, pos |-> Primary(ipos)]
      BY <3>2
    <3>1. matched' = Append(matched, e)
      BY <1>2, <1>3, <2>2, <3>p DEF ImageOnly
    <3>3. e.ipos = ipos /\ e.pos = Primary(ipos)'
      BY <1>5, <3>p
    <3>4. /\ Watched(ipos)' /\ Seen(ipos)' /\ ~(Watched(ipos) /\ Seen(ipos))
          /\ \A i \in Intentions : (Watched(i)' /\ Seen(i)') =>
                                      ((Watched(i) /\ Seen(i)) \/ i = ipos)
      BY <1>2, <1>5, <2>2
    <3>5. QED  BY <1>3, <1>5, <3>1, <3>3, <3>4, MatchesStep
  <2>3. QED  BY <2>1, <2>2
<1>14. TypeOK'
  BY <1>2, <1>3, <1>4, <1>12, <1>13, RestOfTypes
<1>15. QED  BY <1>12, <1>13, <1>14

\* push() keeps the invariant.
LEMMA PushStep ==
    ASSUME IInv, NEW ipos \in Intentions \cup Unwatched, NEW pos \in 1..MaxPos,
           ipos < pos, push(ipos, pos)
    PROVE  IInv'
<1> USE DEF IInv
<1>0. /\ images \in Seq(Image) /\ matched_watermark \in Nat /\ watched \in Nat
      /\ matched_watermark <= watched /\ ipos \in Nat
  BY NatTypes, IntentionsAssumption DEF TypeOK, GoodWatermark
<1>p. PICK e \in Image : e = [ipos |-> ipos, pos |-> pos]
  <2>1. ipos \in 0..MaxPos
    BY <1>0, IntentionsAssumption
  <2>2. QED  BY <2>1 DEF Image
<1>1. e.ipos = ipos /\ e.pos = pos /\ images' = Append(images, e) /\ watched' = watched
      /\ UNCHANGED <<stop, finalizer, mapping>>
  BY <1>p DEF push
<1>2. /\ images' \in Seq(Image)
      /\ \A i : Seen(i)' <=> (Seen(i) \/ i = ipos)
      /\ \A i : Seen(i) => Primary(i)' = Primary(i)
      /\ ~Seen(ipos) => Primary(ipos)' = pos
  BY <1>0, <1>1, AnotherImage
<1>3. \A i : Watched(i)' <=> Watched(i)
  BY <1>1 DEF Watched
<1>4. \A i : (i # ipos \/ Seen(i)) /\ (Watched(i) \/ Seen(i)) => EntryFor(i)' = EntryFor(i)
  BY <1>2, <1>3 DEF EntryFor
<1>5. CASE ipos <= matched_watermark
  <2>1. UNCHANGED <<afterimages, matched_watermark, matched>>
    BY <1>5 DEF push
  <2>2. Watched(ipos) => Seen(ipos)
    BY <1>5 DEF GoodWatermark, Watched
  <2>3. GoodIndex'
    <3>1. ~(matched_watermark < ipos)
      BY <1>0, <1>5
    <3>2. \A i \in DOMAIN afterimages : i # ipos /\ EntryFor(i)' = EntryFor(i)
      BY <1>4, <3>1 DEF GoodIndex
    <3>3. \A i \in DOMAIN afterimages : afterimages'[i] = EntryFor(i)'
      BY <2>1, <3>2 DEF GoodIndex
    <3>4. DOMAIN afterimages' = {i \in Intentions \cup Unwatched :
                                    matched_watermark' < i /\ (Watched(i)' \/ Seen(i)')}
      BY <1>2, <1>3, <2>1, <3>1 DEF GoodIndex
    <3>5. QED  BY <2>1, <3>3, <3>4 DEF GoodIndex
  <2>4. GoodWatermark'
    BY <1>1, <1>2, <2>1 DEF GoodWatermark
  <2>5. matched' \in Seq(Image) /\ GoodMatches' /\ NothingLost'
    <3>1. \A i \in Intentions : (Watched(i)' /\ Seen(i)') => (Watched(i) /\ Seen(i))
      BY <1>2, <1>3, <2>2
    <3>2. QED  BY <1>1, <1>2, <1>3, <2>1, <3>1, MatchesStep
  <2>6. watched' \in Intentions \cup {0} /\ matched_watermark' \in Nat
    BY <1>0, <1>1, <2>1 DEF TypeOK
  <2>7. TypeOK'
    BY <1>1, <1>2, <2>3, <2>5, <2>6, RestOfTypes
  <2>8. QED  BY <2>3, <2>4, <2>5, <2>7
<1>6. CASE ~(ipos <= matched_watermark)
  <2>1. /\ gc(Indexed(ipos, pos))
        /\ matched' = IF Waiting(ipos) THEN Append(matched, e) ELSE matched
    BY <1>6, <1>p DEF push
  <2>2. matched_watermark < ipos
    BY <1>0, <1>6
  <2>3. ipos \in DOMAIN afterimages <=> (Watched(ipos) \/ Seen(ipos))
    BY <2>2 DEF GoodIndex
  <2>4. Waiting(ipos) <=> (Watched(ipos) /\ ~Seen(ipos))
    <3>1. WatchOnly # Matched /\ WatchOnly # ImageOnly(Primary(ipos))
      BY DEF WatchOnly, Matched, ImageOnly
    <3>2. ipos \in DOMAIN afterimages => afterimages[ipos] = EntryFor(ipos)
      BY DEF GoodIndex
    <3>3. QED  BY <2>3, <3>1, <3>2 DEF Waiting, EntryFor
  <2> DEFINE g == Indexed(ipos, pos)
  <2>5. DOMAIN g = DOMAIN afterimages \cup {ipos} /\ \A i \in DOMAIN g : g[i] = EntryFor(i)'
    <3>0. \A i \in DOMAIN afterimages :
             afterimages[i] = EntryFor(i) /\ (Watched(i) \/ Seen(i))
      BY DEF GoodIndex
    <3>1. CASE ipos \notin DOMAIN afterimages
      <4>1. g = With(afterimages, ipos, ImageOnly(pos))
        BY <3>1 DEF Indexed, Waiting
      <4>2. EntryFor(ipos)' = ImageOnly(pos)
        BY <1>2, <1>3, <2>3, <3>1 DEF EntryFor
      <4>3. QED  BY <1>4, <3>0, <4>1, <4>2 DEF With
    <3>2. CASE Waiting(ipos)
      <4>1. g = With(afterimages, ipos, Matched)
        BY <3>2 DEF Indexed, Waiting
      <4>2. EntryFor(ipos)' = Matched
        BY <1>2, <1>3, <2>4, <3>2 DEF EntryFor
      <4>3. QED  BY <1>4, <3>0, <4>1, <4>2 DEF With
    <3>3. CASE ipos \in DOMAIN afterimages /\ ~Waiting(ipos)
      <4>1. g = afterimages
        BY <3>3 DEF Indexed
      <4>2. Seen(ipos)
        BY <2>3, <2>4, <3>3
      <4>3. QED  BY <1>4, <3>0, <3>3, <4>1, <4>2
    <3>4. QED  BY <3>1, <3>2, <3>3
  <2>6. DOMAIN g = {i \in Intentions \cup Unwatched :
                       matched_watermark < i /\ (Watched(i)' \/ Seen(i)')}
    BY <1>2, <1>3, <2>2, <2>5 DEF GoodIndex
  <2>7. \A i : Seen(i)' => Primary(i)' # 0
    <3>1. \A i : Seen(i) => Primary(i) # 0
      BY <1>0, PrimaryType
    <3>2. pos # 0
      OBVIOUS
    <3>3. QED  BY <1>2, <3>1, <3>2
  <2>8. \A i \in Intentions : i <= matched_watermark => Seen(i)'
    BY <1>2 DEF GoodWatermark
  <2>9. watched' \in Nat /\ matched_watermark <= watched'
    BY <1>0, <1>1
  <2>10. gc(g)
    BY <2>1
  <2> HIDE DEF g
  <2>11. GoodIndex' /\ GoodWatermark' /\ matched_watermark' \in Nat
    BY <1>0, <2>5, <2>6, <2>7, <2>8, <2>9, <2>10, GcStep
  <2>12. matched' \in Seq(Image) /\ GoodMatches' /\ NothingLost'
    <3>1. CASE Waiting(ipos)
      <4>1. /\ Watched(ipos)' /\ Seen(ipos)' /\ ~(Watched(ipos) /\ Seen(ipos))
            /\ pos = Primary(ipos)'
            /\ \A i \in Intentions : (Watched(i)' /\ Seen(i)') =>
                                        ((Watched(i) /\ Seen(i)) \/ i = ipos)
        BY <1>2, <1>3, <2>4, <3>1
      <4>2. matched' = Append(matched, e)
        BY <2>1, <3>1
      <4>3. QED  BY <1>1, <1>2, <1>3, <4>1, <4>2, MatchesStep
    <3>2. CASE ~Waiting(ipos)
      <4>1. \A i \in Intentions : (Watched(i)' /\ Seen(i)') => (Watched(i) /\ Seen(i))
        BY <1>2, <1>3, <2>4, <3>2
      <4>2. matched' = matched
        BY <2>1, <3>2
      <4>3. QED  BY <1>1, <1>2, <1>3, <4>1, <4>2, MatchesStep
    <3>3. QED  BY <3>1, <3>2
  <2>13. watched' \in Intentions \cup {0}
    BY <1>1 DEF TypeOK
  <2>14. TypeOK'
    BY <1>1, <1>2, <2>11, <2>12, <2>13, RestOfTypes
  <2>15. QED  BY <2>11, <2>12, <2>14
<1>7. QED  BY <1>5, <1>6

\* A step that leaves the log, the watches and the index alone keeps what is
\* said of them.
LEMMA SameHistory ==
    ASSUME IInv, UNCHANGED <<images, watched, afterimages, matched_watermark>>
    PROVE  /\ \A i : Watched(i)' <=> Watched(i)
           /\ \A i : Seen(i)' <=> Seen(i)
           /\ \A i : Primary(i)' = Primary(i)
           /\ GoodIndex' /\ GoodWatermark'
<1>1. \A i : Abstract!ImagesOf(i)' = Abstract!ImagesOf(i)
  BY DEF Abstract!ImagesOf
<1>2. \A i : Seen(i)' <=> Seen(i)
  BY <1>1 DEF Seen
<1>3. \A i : Primary(i)' = Primary(i)
  BY <1>1 DEF Primary
<1>4. \A i : Watched(i)' <=> Watched(i)
  BY DEF Watched
<1>5. \A i : EntryFor(i)' = EntryFor(i)
  BY <1>2, <1>3, <1>4 DEF EntryFor
<1>6. GoodIndex'
  BY <1>2, <1>4, <1>5 DEF IInv, GoodIndex
<1>7. GoodWatermark'
  BY <1>2 DEF IInv, GoodWatermark
<1>8. QED  BY <1>2, <1>3, <1>4, <1>6, <1>7

\* The match that the finalizer takes: an intention that is not mapped yet, with
\* its primary after-image.
LEMMA TakenMatch ==
    ASSUME IInv, matched # <<>>
    PROVE  /\ Head(matched) = matched[1] /\ Head(matched) \in Image
           /\ Watched(Head(matched).ipos) /\ Seen(Head(matched).ipos)
           /\ Head(matched).pos = Primary(Head(matched).ipos)
           /\ Head(matched).ipos \notin DOMAIN mapping
           /\ Tail(matched) \in Seq(Image)
           /\ \A k \in DOMAIN Tail(matched) :
                 /\ k + 1 \in DOMAIN matched /\ Tail(matched)[k] = matched[k + 1]
                 /\ matched[k + 1].ipos # Head(matched).ipos
           /\ \A k \in DOMAIN matched :
                 k = 1 \/ (k - 1 \in DOMAIN Tail(matched) /\ Tail(matched)[k - 1] = matched[k])
<1>1. matched \in Seq(Image)
  BY DEF IInv, TypeOK
<1>2. /\ Tail(matched) \in Seq(Image) /\ Head(matched) \in Image
      /\ Head(matched) = matched[1] /\ 1 \in DOMAIN matched
      /\ \A k \in DOMAIN Tail(matched) :
            k + 1 \in DOMAIN matched /\ Tail(matched)[k] = matched[k + 1]
  BY <1>1, TailFacts
<1>3. \A k \in DOMAIN matched :
         k = 1 \/ (k - 1 \in DOMAIN Tail(matched) /\ Tail(matched)[k - 1] = matched[k])
  BY <1>1
<1>4. /\ Watched(matched[1].ipos) /\ Seen(matched[1].ipos)
      /\ matched[1].pos = Primary(matched[1].ipos)
      /\ matched[1].ipos \notin DOMAIN mapping
  BY <1>2 DEF IInv, GoodMatches
<1>5. ASSUME NEW k \in DOMAIN Tail(matched)
      PROVE  matched[k + 1].ipos # matched[1].ipos
  <2>1. k + 1 \in DOMAIN matched /\ k + 1 # 1
    BY <1>2
  <2>2. QED  BY <1>2, <2>1 DEF IInv, GoodMatches
<1>6. QED  BY <1>2, <1>3, <1>4, <1>5

\* Taking a match keeps the invariant.
LEMMA FinalizeStep ==
    ASSUME IInv, Finalize
    PROVE  IInv'
<1>1. PICK e \in Image : e = Head(matched)
  BY TakenMatch DEF Finalize
<1>2. /\ mapping' = With(mapping, e.ipos, e.pos) /\ matched' = Tail(matched)
      /\ finalizer' \in {"run", "stopped"} /\ matched # <<>>
      /\ UNCHANGED <<images, watched, afterimages, matched_watermark, stop>>
  BY <1>1 DEF Finalize
<1>3. /\ e = matched[1] /\ Watched(e.ipos) /\ Seen(e.ipos) /\ e.pos = Primary(e.ipos)
      /\ e.ipos \notin DOMAIN mapping
      /\ matched' \in Seq(Image)
      /\ \A k \in DOMAIN matched' :
            /\ k + 1 \in DOMAIN matched /\ matched'[k] = matched[k + 1]
            /\ matched'[k].ipos # e.ipos
      /\ \A k \in DOMAIN matched :
            k = 1 \/ (k - 1 \in DOMAIN matched' /\ matched'[k - 1] = matched[k])
  BY <1>1, <1>2, TakenMatch
<1>4. /\ \A i : Watched(i)' <=> Watched(i)
      /\ \A i : Seen(i)' <=> Seen(i)
      /\ \A i : Primary(i)' = Primary(i)
      /\ GoodIndex' /\ GoodWatermark'
  BY <1>2, SameHistory
<1>5. /\ DOMAIN mapping' = DOMAIN mapping \cup {e.ipos}
      /\ \A i \in DOMAIN mapping' : mapping'[i] = IF i = e.ipos THEN e.pos ELSE mapping[i]
  BY <1>2 DEF With
<1>6. TypeOK'
  <2>1. e.ipos \in Nat /\ e.pos \in Nat
    BY IntentionsAssumption DEF Image
  <2>2. DOMAIN mapping' \subseteq Nat /\ \A i \in DOMAIN mapping' : mapping'[i] \in Nat
    BY <1>5, <2>1 DEF IInv, TypeOK
  <2>3. QED  BY <1>2, <1>3, <2>2 DEF IInv, TypeOK
<1>7. GoodMatches'
  <2>1. ASSUME NEW k \in DOMAIN matched', NEW i, i = matched'[k].ipos
        PROVE  /\ Watched(i)' /\ Seen(i)'
               /\ matched'[k].pos = Primary(i)'
               /\ i \notin DOMAIN mapping'
    <3>1. k + 1 \in DOMAIN matched /\ matched'[k] = matched[k + 1] /\ i # e.ipos
      BY <1>3, <2>1
    <3>2. /\ Watched(i) /\ Seen(i) /\ matched[k + 1].pos = Primary(i)
          /\ i \notin DOMAIN mapping
      BY <2>1, <3>1 DEF IInv, GoodMatches
    <3>3. QED  BY <1>4, <1>5, <3>1, <3>2
  <2>2. ASSUME NEW k \in DOMAIN matched', NEW l \in DOMAIN matched',
               matched'[k].ipos = matched'[l].ipos
        PROVE  k = l
    <3>1. k + 1 = l + 1
      BY <1>3, <2>2 DEF IInv, GoodMatches
    <3>2. k \in Nat /\ l \in Nat
      BY <1>3
    <3>3. QED  BY <3>1, <3>2
  <2>3. \A i \in DOMAIN mapping' : Watched(i)' /\ Seen(i)'
    BY <1>3, <1>4, <1>5 DEF IInv, GoodMatches
  <2>4. QED  BY <2>1, <2>2, <2>3 DEF GoodMatches, Watched, Seen, Primary
<1>8. NothingLost'
  <2>1. ASSUME NEW i \in Intentions, Watched(i)', Seen(i)'
        PROVE  MatchedInTime(i)' \/ i \in DOMAIN mapping'
    <3>1. MatchedInTime(i) \/ i \in DOMAIN mapping
      BY <1>4, <2>1 DEF IInv, NothingLost, Watched, Seen
    <3>2. CASE i \in DOMAIN mapping
      BY <1>5, <3>2
    <3>3. CASE MatchedInTime(i)
      <4>1. PICK k \in DOMAIN matched : matched[k].ipos = i
        BY <3>3 DEF MatchedInTime
      <4>2. k = 1 => i \in DOMAIN mapping'
        BY <1>3, <1>5, <4>1
      <4>3. k # 1 => MatchedInTime(i)'
        BY <1>3, <4>1 DEF MatchedInTime
      <4>4. QED  BY <4>2, <4>3
    <3>4. QED  BY <3>1, <3>2, <3>3
  <2>2. QED  BY <2>1 DEF NothingLost, Watched, Seen
<1>9. QED  BY <1>4, <1>6, <1>7, <1>8 DEF IInv

\* Stopping keeps the invariant, and so does a step that changes nothing.
LEMMA QuietStep ==
    ASSUME IInv, FinalizerStops \/ Stop \/ UNCHANGED vars
    PROVE  IInv'
<1>1. /\ UNCHANGED <<images, watched, afterimages, matched_watermark, matched, mapping>>
      /\ stop' \in {"no", "stop", "shutdown"} /\ finalizer' \in {"run", "stopped"}
  BY DEF FinalizerStops, Stop, vars, IInv, TypeOK
<1>2. /\ \A i : Watched(i)' <=> Watched(i)
      /\ \A i : Seen(i)' <=> Seen(i)
      /\ \A i : Primary(i)' = Primary(i)
      /\ GoodIndex' /\ GoodWatermark'
  BY <1>1, SameHistory
<1>3. TypeOK'
  BY <1>1 DEF IInv, TypeOK
<1>4. GoodMatches' /\ NothingLost'
  BY <1>1, <1>2, MatchesStep
<1>5. QED  BY <1>2, <1>3, <1>4 DEF IInv

\* Every step keeps the invariant.
LEMMA NextStep ==
    ASSUME IInv, [Next]_vars
    PROVE  IInv'
<1>1. CASE watch
  BY <1>1, WatchStep
<1>2. ASSUME NEW i \in Intentions \cup Unwatched, NEW p \in 1..MaxPos, Scan(i, p)
      PROVE  IInv'
  BY <1>2, PushStep DEF Scan
<1>3. CASE Finalize
  BY <1>3, FinalizeStep
<1>4. CASE FinalizerStops \/ Stop \/ UNCHANGED vars
  BY <1>4, QuietStep
<1>5. QED  BY <1>1, <1>2, <1>3, <1>4 DEF Next

\* The invariant holds at the start.
LEMMA InitHolds ==
    ASSUME Init
    PROVE  IInv
<1> USE DEF Init
<1>1. images \in Seq(Image) /\ matched \in Seq(Image) /\ DOMAIN images = {} /\ DOMAIN matched = {}
  BY ShortSeqs
<1>2. \A i : ~Seen(i)
  BY <1>1 DEF Seen, Abstract!ImagesOf
<1>3. \A i : ~Watched(i)
  <2>1. \A i \in Intentions : i \in Nat \ {0}
    BY IntentionsAssumption
  <2>2. \A i \in Intentions : ~(i <= watched)
    BY <2>1
  <2>3. QED  BY <2>2 DEF Watched
<1>4. DOMAIN afterimages = {} /\ DOMAIN mapping = {}
  OBVIOUS
<1>5. TypeOK
  BY <1>1, <1>4 DEF TypeOK
<1>6. GoodIndex
  BY <1>2, <1>3, <1>4 DEF GoodIndex
<1>7. GoodWatermark
  BY <1>3, IntentionsAssumption DEF GoodWatermark, Watched
<1>8. GoodMatches
  BY <1>1, <1>4 DEF GoodMatches
<1>9. NothingLost
  BY <1>2 DEF NothingLost, Seen
<1>10. QED  BY <1>5, <1>6, <1>7, <1>8, <1>9 DEF IInv

-----------------------------------------------------------------------------
\* The index, the watermark and the queue are at all times what the watches and
\* the after-images met so far make them, in watch(), push(), match() and gc().
THEOREM MatcherInvariance == Spec => []IInv
<1>1. Init => IInv
  BY InitHolds
<1>2. IInv /\ [Next]_vars => IInv'
  BY NextStep
<1>3. QED  BY <1>1, <1>2, PTL DEF Spec

\* No after-image is lost between watch(), push() and gc().
THEOREM NoImageLost == Spec => []NothingLost
<1>1. IInv => NothingLost
  BY DEF IInv
<1>2. QED  BY <1>1, MatcherInvariance, PTL

\* The assertions of watch() and gc() never fail.
THEOREM MatcherAsserts == Spec => []AssertsHold
<1>1. ASSUME IInv
      PROVE  AssertsHold
  <2>1. \A i \in DOMAIN afterimages : matched_watermark < i
    BY <1>1 DEF IInv, GoodIndex
  <2>2. ASSUME ToWatch # {}, NEW ipos, ipos = Min(ToWatch)
        PROVE  /\ matched_watermark < ipos
               /\ ipos \in DOMAIN afterimages =>
                     afterimages[ipos].pos # 0 /\ ~afterimages[ipos].tree
    <3>1. /\ matched_watermark < ipos
          /\ ipos \in DOMAIN afterimages => Seen(ipos)
          /\ ipos \in DOMAIN afterimages => afterimages[ipos] = ImageOnly(Primary(ipos))
      BY <1>1, <2>2, NextWatch
    <3>2. Seen(ipos) => Primary(ipos) # 0
      BY <1>1, PrimaryType DEF IInv, TypeOK
    <3>3. QED  BY <3>1, <3>2 DEF ImageOnly
  <2>3. QED  BY <2>1, <2>2 DEF AssertsHold
<1>2. QED  BY <1>1, MatcherInvariance, PTL

\* The matcher implements what matching promises: the finalizer gives the node
\* cache each intention at most once, with the primary after-image.
THEOREM Matching == Spec => MapsToPrimary
<1>1. Init => Abstract!AbsInit
  BY DEF Init, Abstract!AbsInit
<1>2. ASSUME IInv, [Next]_vars
      PROVE  [Abstract!AbsNext]_<<images, mapping>>
  <2>1. ASSUME NEW i \in Intentions \cup Unwatched, NEW p \in 1..MaxPos, Scan(i, p)
        PROVE  Abstract!NewImage
    <3>1. /\ images' = Append(images, [ipos |-> i, pos |-> p]) /\ mapping' = mapping
          /\ i < p
      BY <2>1 DEF Scan, push
    <3>2. i \in 0..MaxPos /\ p \in 0..MaxPos
      BY <3>1, IntentionsAssumption
    <3>3. QED  BY <3>1, <3>2 DEF Abstract!NewImage
  <2>2. CASE Finalize
    <3>1. PICK e \in Image : e = Head(matched)
      BY <1>2, <2>2, TakenMatch DEF Finalize
    <3>2. /\ mapping' = With(mapping, e.ipos, e.pos) /\ UNCHANGED images
          /\ matched # <<>>
      BY <2>2, <3>1 DEF Finalize
    <3>3. /\ Seen(e.ipos) /\ e.pos = Primary(e.ipos) /\ e.ipos \notin DOMAIN mapping
      BY <1>2, <3>1, <3>2, TakenMatch
    <3>4. Abstract!IsPrimary(e.ipos, e.pos)
      <4>1. Abstract!ImagesOf(e.ipos) \in SUBSET Nat /\ Abstract!ImagesOf(e.ipos) # {}
        BY <1>2, <3>3 DEF IInv, TypeOK, Seen, Abstract!ImagesOf
      <4>2. /\ Min(Abstract!ImagesOf(e.ipos)) \in Abstract!ImagesOf(e.ipos)
            /\ \A j \in Abstract!ImagesOf(e.ipos) : Min(Abstract!ImagesOf(e.ipos)) <= j
        BY <4>1, MinOfNats
      <4>3. QED  BY <3>3, <4>2 DEF Primary, Abstract!IsPrimary
    <3>5. e.ipos \in 0..MaxPos /\ e.pos \in 0..MaxPos
      BY IntentionsAssumption DEF Image
    <3>6. QED  BY <3>2, <3>3, <3>4, <3>5 DEF With, Abstract!MapIntention, Abstract!AbsNext
  <2>3. CASE watch \/ FinalizerStops \/ Stop \/ UNCHANGED vars
    BY <2>3 DEF watch, FinalizerStops, Stop, vars
  <2>4. QED  BY <1>2, <2>1, <2>2, <2>3 DEF Next, Abstract!AbsNext
<1>3. QED
  BY <1>1, <1>2, MatcherInvariance, PTL
     DEF Spec, MapsToPrimary, Abstract!AbsSpec, Abstract!absvars
=============================================================================
