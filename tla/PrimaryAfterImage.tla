-------------------------- MODULE PrimaryAfterImage --------------------------
(***************************************************************************)
(* What matching promises: the after-images of an intention are copies, of *)
(* which the first in the log is the primary one; an intention is mapped   *)
(* at most once, and only to its primary after-image.                      *)
(***************************************************************************)
EXTENDS Integers, Sequences

CONSTANT Positions   \* positions of the log

VARIABLES images,    \* after-images in the order of the log: intention, position
          mapping    \* intention -> position of its after-image

absvars == <<images, mapping>>

\* The after-images of an intention, by index; the primary one is the first.
ImagesOf(i) == {k \in DOMAIN images : images[k].ipos = i}

IsPrimary(i, pos) ==
    \E k \in ImagesOf(i) : images[k].pos = pos /\ \A j \in ImagesOf(i) : k <= j

AbsInit == images = <<>> /\ mapping = [i \in {} |-> 0]

NewImage ==
    /\ \E i, pos \in Positions : images' = Append(images, [ipos |-> i, pos |-> pos])
    /\ UNCHANGED mapping

MapIntention ==
    \E i \in Positions \ DOMAIN mapping, pos \in Positions :
        /\ IsPrimary(i, pos)
        /\ mapping' = [j \in DOMAIN mapping \cup {i} |->
                          IF j = i THEN pos ELSE mapping[j]]
        /\ UNCHANGED images

AbsNext == NewImage \/ MapIntention

AbsSpec == AbsInit /\ [][AbsNext]_absvars
=============================================================================
