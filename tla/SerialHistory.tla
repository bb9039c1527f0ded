--------------------------- MODULE SerialHistory ---------------------------
(***************************************************************************)
(* What the database promises its clients: one serial history of           *)
(* transactions.  A transaction works on the contents that the history had *)
(* left at some time, and its fate is settled at the moment it is          *)
(* submitted: it takes its place at the end of the history, unless one     *)
(* that did so after its snapshot updated a key that it has recorded.      *)
(* Whatever happens later, crashes included, the history stays as it is    *)
(* and the client, if it is told anything, is told just that.              *)
(*                                                                         *)
(* There is one exception.  If a transaction has recorded a key that was   *)
(* updated by the very transaction its snapshot ends with, nothing is      *)
(* promised from then on.                                                  *)
(***************************************************************************)
EXTENDS Intention

CONSTANT Txns   \* transactions, one client each

VARIABLES
    now,           \* the present
    history,       \* the committed transactions: time -> operations
    client,        \* what each client does and has been told
    self_conflict  \* the exception has occurred

vars == <<now, history, client, self_conflict>>

\* The contents at time v: for each key, what the last transaction to update it
\* wrote last.
State(v) ==
    [pk \in UserKeys |->
        LET writers == {p \in DOMAIN history : p <= v /\ UpdatesTo(history[p], pk) # {}}
            last    == history[Max(writers)]
        IN  IF writers = {} THEN NoValue ELSE last[Max(UpdatesTo(last, pk))].val]

Active(v, view, ops) == [st |-> "active", at |-> v, view |-> view, ops |-> ops]

Become(t, c) == client' = [client EXCEPT ![t] = c]

\* The history begins with the creation of the database, which leaves it empty.
Creation == <<PutOp(prefix_string(PREFIX_COMMITTED_INTENTION, 1), "")>>

Init ==
    /\ now \in Nat /\ now > 0
    /\ history = [p \in {1} |-> Creation]
    /\ client = [t \in Txns |-> [st |-> "idle"]]
    /\ self_conflict = FALSE

-----------------------------------------------------------------------------
\* The snapshot has everything that anybody was told is committed.
Begin(t) ==
    /\ client[t].st = "idle"
    /\ \E v \in 0..now :
          /\ \A u \in Txns : client[u].st = "committed" => client[u].at <= v
          /\ Become(t, Active(v, State(v), <<>>))
    /\ UNCHANGED <<now, history>>

Ops == {GetOp(k) : k \in Keys} \cup {DeleteOp(k) : k \in Keys}
       \cup {PutOp(pk, v) : pk \in UserKeys, v \in Values}

Operate(t, op) ==
    /\ client[t].st = "active"
    /\ Become(t, Active(client[t].at, ReplayIntention(client[t].view, <<op>>),
                        Append(client[t].ops, op)))
    /\ UNCHANGED <<now, history>>

\* A transaction that has changed nothing may end without a place in the history.
EndReadOnly(t) ==
    /\ client[t].st = "active"
    /\ client[t].view = State(client[t].at)
    /\ Become(t, [st |-> "readonly"])
    /\ UNCHANGED <<now, history>>

Keyed(t) == OpKeys(client[t].ops)

SelfConflict(t) ==
    client[t].at \in DOMAIN history /\ Keyed(t) \cap UpdateOpKeys(history[client[t].at]) # {}

Conflict(t) ==
    \E q \in DOMAIN history : client[t].at < q /\ Keyed(t) \cap UpdateOpKeys(history[q]) # {}

Submit(t) ==
    /\ client[t].st = "active"
    /\ ~SelfConflict(t)
    /\ now' \in Nat /\ now' > now
    /\ history' =
          IF Conflict(t) THEN history
          ELSE [p \in DOMAIN history \cup {now'} |->
                   IF p = now' THEN client[t].ops ELSE history[p]]
    /\ Become(t, [st |-> "submitted", at |-> now'])

Return(t) ==
    /\ client[t].st = "submitted"
    /\ Become(t, [st |-> IF client[t].at \in DOMAIN history THEN "committed" ELSE "aborted",
                  at |-> client[t].at])
    /\ UNCHANGED <<now, history>>

\* Clients inside a transaction are lost, the history is not.
Crash ==
    /\ client' = [t \in Txns |-> IF client[t].st \in {"active", "submitted"}
                                 THEN [st |-> "lost"] ELSE client[t]]
    /\ UNCHANGED <<now, history>>

Tick ==
    /\ now' \in Nat /\ now' > now
    /\ UNCHANGED <<history, client>>

-----------------------------------------------------------------------------
\* Each of its actions changes what a client does; to say so first spares TLC the others.
ClientStep(t) ==
    /\ client'[t] # client[t]
    /\ \/ Begin(t) \/ EndReadOnly(t) \/ Submit(t) \/ Return(t)
       \/ \E op \in Ops : Operate(t, op)

Step ==
    \/ \E t \in Txns : ClientStep(t)
    \/ Crash
    \/ Tick

\* The exception occurs, or has occurred before.
Exception ==
    /\ self_conflict'
    /\ self_conflict \/ \E t \in Txns : client[t].st = "active" /\ SelfConflict(t)

Next == (Step /\ UNCHANGED self_conflict) \/ Exception

Spec == Init /\ [][Next]_vars
=============================================================================
