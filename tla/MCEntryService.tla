--------------------------- MODULE MCEntryService ---------------------------
(* The entry service on small instances. *)
EXTENDS EntryService, TLC

\* A log that two earlier instances left: two intentions with their after-images
\* and the tails that the second instance and this one filled.
ClosedLog == <<Intention, AfterImage(1), Filled, Intention, AfterImage(4), Filled>>

\* A log that was created and is opened for the first time.
NewLog == <<Intention, AfterImage(1), Filled>>

\* The clients do the same.
ClientSymmetry == Permutations(Clients)
=============================================================================
