------------------------------ MODULE MCCruzDB ------------------------------
(* CruzDB on small instances. *)
EXTENDS CruzDB, TLC

KeyTxnSymmetry == Permutations(Txns) \cup Permutations(Keys)

(* A script for a long history with one crash, for Txns = 1..n: the clients   *)
(* come one after the other, the first with any operations and the others     *)
(* with a put; gc() runs while transaction 2 is active; the crash comes when  *)
(* every client has its answer.                                               *)
Done(t) == txn[t].st \in {"committed", "aborted"}

Script ==
    /\ \A i, j \in Txns : (i < j /\ txn[j].st # "idle") => Done(i)
    /\ \A t \in Txns \ {1} : Len(txn[t].ops) <= 1 /\ \A i \in DOMAIN txn[t].ops : txn[t].ops[i].op = "PUT"
    /\ gcs = 1 => txn[2].st # "idle"
    /\ txn[2].st \notin {"idle", "active"} => gcs = 1
    /\ (opens = 1 /\ phase = "closed") => \A t \in Txns : Done(t)
=============================================================================
