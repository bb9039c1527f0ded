------------------------- MODULE MCTransactionFinder -------------------------
(* The rendezvous on a small instance. *)
EXTENDS TransactionFinder

\* All clients of this instance but one drew the same token; the last one and the
\* other instances drew tokens of their own.
SharedTokens ==
    LET alone == CHOOSE c \in Clients : TRUE
    IN  [x \in Clients \cup Others |-> IF x \in Clients \ {alone} THEN "token" ELSE x]
=============================================================================
