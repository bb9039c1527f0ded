-------------------------- MODULE TransactionFinder --------------------------
(***************************************************************************)
(* DBImpl::TransactionFinder (src/db/db_impl.cc): the rendezvous between   *)
(* the clients that wait for the outcome of their transaction and the      *)
(* transaction processor.  A client registers under a token before it      *)
(* appends its intention and learns the position only from the append; the *)
(* processor knows the token and the position, and may be first.           *)
(***************************************************************************)
EXTENDS Integers, Sequences, SequencesExt

CONSTANTS Clients,   \* clients of this instance, one transaction each
          Others,    \* intentions of other instances on the same log
          Token      \* the random token of each of them

VARIABLES
    log,            \* the intentions, by who appended them
    decisions,      \* the processor's decisions so far, TRUE for commit
    token_waiters,  \* token_waiters_: token -> rendezvous
    pc,             \* where each client is
    at,             \* the position that Append returned, 0 before
    waiter,         \* Waiter: complete, committed, pos (0 for boost::none)
    token_it,       \* WaiterHandle::token_it: the client that made the entry
    signalled,      \* clients whose condition variable was notified
    answer          \* what WaitOnTransaction returned

vars == <<log, decisions, token_waiters, pc, at, waiter, token_it, signalled, answer>>

NewWaiter == [complete |-> FALSE, committed |-> FALSE, pos |-> 0]
NoResults == [p \in {} |-> FALSE]

Init ==
    /\ log = <<>>
    /\ decisions = <<>>
    /\ token_waiters = [t \in {} |-> NoResults]
    /\ pc = [c \in Clients |-> "begin"]
    /\ at = [c \in Clients |-> 0]
    /\ waiter = [c \in Clients |-> NewWaiter]
    /\ token_it = [c \in Clients |-> c]
    /\ signalled = {}
    /\ answer = [c \in Clients |-> FALSE]

\* The entry that token_it refers to exists.
Alive(c) ==
    Token[c] \in DOMAIN token_waiters /\ token_waiters[Token[c]].by = token_it[c]

With(f, x, v) == [y \in DOMAIN f \cup {x} |-> IF y = x THEN v ELSE f[y]]
Without(f, x) == [y \in DOMAIN f \ {x} |-> f[y]]

-----------------------------------------------------------------------------
\* Mutant of AddTokenWaiter: a waiter is registered only with a new entry.
AddTokenWaiter_NewOnly(c) ==
    /\ pc[c] = "begin"
    /\ pc' = [pc EXCEPT ![c] = "registered"]
    /\ LET t == Token[c]
           entry == IF t \in DOMAIN token_waiters THEN token_waiters[t]
                    ELSE [by |-> c, waiters |-> <<c>>, results |-> NoResults]
       IN  /\ token_waiters' = With(token_waiters, t, entry)
           /\ token_it' = [token_it EXCEPT ![c] = entry.by]
    /\ UNCHANGED <<log, decisions, at, waiter, signalled, answer>>

AddTokenWaiter(c) ==
    /\ pc[c] = "begin"
    /\ pc' = [pc EXCEPT ![c] = "registered"]
    /\ LET t == Token[c]
           entry == IF t \in DOMAIN token_waiters
                    THEN [token_waiters[t] EXCEPT !.waiters = Append(@, c)]
                    ELSE [by |-> c, waiters |-> <<c>>, results |-> NoResults]
       IN  /\ token_waiters' = With(token_waiters, t, entry)
           /\ token_it' = [token_it EXCEPT ![c] = entry.by]
    /\ UNCHANGED <<log, decisions, at, waiter, signalled, answer>>

AppendIntention(c) ==
    /\ pc[c] = "registered"
    /\ pc' = [pc EXCEPT ![c] = "appended"]
    /\ log' = Append(log, c)
    /\ at' = [at EXCEPT ![c] = Len(log) + 1]
    /\ UNCHANGED <<decisions, token_waiters, waiter, token_it, signalled, answer>>

\* Another instance appends.
AppendOther(o) ==
    /\ \A p \in DOMAIN log : log[p] # o
    /\ log' = Append(log, o)
    /\ UNCHANGED <<decisions, token_waiters, pc, at, waiter, token_it, signalled, answer>>

\* The table after a client is done with its entry.
Released(t, entry) ==
    IF entry.waiters = <<>> /\ entry.results = NoResults
    THEN Without(token_waiters, t)
    ELSE With(token_waiters, t, entry)

Return(c, committed, entry) ==
    /\ pc' = [pc EXCEPT ![c] = "returned"]
    /\ answer' = [answer EXCEPT ![c] = committed]
    /\ token_waiters' = Released(Token[c], entry)

\* What follows a use of token_it after its entry was erased is undefined, and
\* nothing is said about it.
Undefined(c) ==
    /\ pc' = [pc EXCEPT ![c] = "undefined"]
    /\ UNCHANGED <<token_waiters, answer>>

\* One turn of the loop of WaitOnTransaction, up to the return or to the wait.
Look(c) ==
    LET entry == token_waiters[Token[c]]
    IN  \/ ~Alive(c) /\ Undefined(c)
        \/ Alive(c) /\ waiter[c].complete /\ Return(c, waiter[c].committed, entry)
        \/ /\ Alive(c)
           /\ ~waiter[c].complete
           /\ at[c] \in DOMAIN entry.results
           /\ \E waiter_it \in DOMAIN entry.waiters :
                 /\ entry.waiters[waiter_it] = c
                 /\ Return(c, entry.results[at[c]],
                           [by |-> entry.by,
                            waiters |-> RemoveAt(entry.waiters, waiter_it),
                            results |-> Without(entry.results, at[c])])
        \/ /\ Alive(c)
           /\ ~waiter[c].complete
           /\ at[c] \notin DOMAIN entry.results
           /\ pc' = [pc EXCEPT ![c] = "waiting"]
           /\ UNCHANGED <<token_waiters, answer>>

\* Mutant of WaitOnTransaction: wait first, then look.
WaitOnTransaction_WaitFirst(c) ==
    /\ pc[c] = "appended"
    /\ waiter' = [waiter EXCEPT ![c].pos = at[c]]
    /\ pc' = [pc EXCEPT ![c] = "waiting"]
    /\ UNCHANGED <<log, decisions, token_waiters, at, token_it, signalled, answer>>

WaitOnTransaction(c) ==
    /\ pc[c] = "appended"
    /\ waiter' = [waiter EXCEPT ![c].pos = at[c]]
    /\ Look(c)
    /\ UNCHANGED <<log, decisions, at, token_it, signalled>>

\* The wait returns, because of a notification or spuriously.
Wakes(c) ==
    /\ pc[c] = "waiting"
    /\ Look(c)
    /\ signalled' = signalled \ {c}
    /\ UNCHANGED <<log, decisions, at, waiter, token_it>>

-----------------------------------------------------------------------------
(* The transaction processor. *)

Here == Len(decisions) + 1

\* The assertions of Notify.
NotifyAsserts(t, pos) ==
    t \in DOMAIN token_waiters =>
        token_waiters[t].waiters # <<>> /\ pos \notin DOMAIN token_waiters[t].results

\* notify_one() on the condition variables of some clients: one that is not
\* waiting misses it.
Signal(cs) == signalled' = signalled \cup {c \in cs : pc[c] = "waiting"}

\* Mutant of IsFirst: whoever is first in line is taken to be the right one.
IsFirst_Any(entry, pos) == TRUE

\* The first waiter has set this position.
IsFirst(entry, pos) == waiter[Head(entry.waiters)].pos = pos

\* Nobody of this instance waits under the token.
NotifyNobody(pos, committed) ==
    /\ Token[log[pos]] \notin DOMAIN token_waiters
    /\ UNCHANGED <<token_waiters, waiter, signalled>>

\* Mutant of NotifyFirst: the waiter stays in line.
NotifyFirst_Stays(pos, committed) ==
    LET t     == Token[log[pos]]
        entry == token_waiters[t]
        fw    == Head(entry.waiters)
    IN  /\ t \in DOMAIN token_waiters
        /\ IsFirst(entry, pos)
        /\ waiter' = [waiter EXCEPT ![fw].complete = TRUE, ![fw].committed = committed]
        /\ Signal({fw})
        /\ UNCHANGED token_waiters

\* Mutant of NotifyFirst: the entry of the last waiter is erased right away.
NotifyFirst_Erases(pos, committed) ==
    LET t     == Token[log[pos]]
        entry == token_waiters[t]
        fw    == Head(entry.waiters)
    IN  /\ t \in DOMAIN token_waiters
        /\ IsFirst(entry, pos)
        /\ token_waiters' = Released(t, [entry EXCEPT !.waiters = Tail(@)])
        /\ waiter' = [waiter EXCEPT ![fw].complete = TRUE, ![fw].committed = committed]
        /\ Signal({fw})

NotifyFirst(pos, committed) ==
    LET t     == Token[log[pos]]
        entry == token_waiters[t]
        fw    == Head(entry.waiters)
    IN  /\ t \in DOMAIN token_waiters
        /\ IsFirst(entry, pos)
        /\ token_waiters' = With(token_waiters, t, [entry EXCEPT !.waiters = Tail(@)])
        /\ waiter' = [waiter EXCEPT ![fw].complete = TRUE, ![fw].committed = committed]
        /\ Signal({fw})

NotifyAll(pos, committed) ==
    LET t     == Token[log[pos]]
        entry == token_waiters[t]
    IN  /\ t \in DOMAIN token_waiters
        /\ ~IsFirst(entry, pos)
        /\ token_waiters' = With(token_waiters, t,
               [entry EXCEPT !.results = With(@, pos, committed)])
        /\ Signal(Range(entry.waiters))
        /\ UNCHANGED waiter

\* The processor decides the next intention of the log.
Notify(committed) ==
    /\ Here <= Len(log)
    /\ NotifyAsserts(Token[log[Here]], Here)
    /\ \/ NotifyNobody(Here, committed)
       \/ NotifyFirst(Here, committed)
       \/ NotifyAll(Here, committed)
    /\ decisions' = Append(decisions, committed)
    /\ UNCHANGED <<log, pc, at, token_it, answer>>

-----------------------------------------------------------------------------
Next ==
    \/ \E c \in Clients : \/ AddTokenWaiter(c)
                          \/ AppendIntention(c)
                          \/ WaitOnTransaction(c)
                          \/ Wakes(c)
    \/ \E o \in Others : AppendOther(o)
    \/ \E committed \in BOOLEAN : Notify(committed)

Spec == Init /\ [][Next]_vars

\* The processor runs, clients finish what they began, and a notified condition
\* variable wakes its waiter.  Nothing depends on a spurious wake-up.
FairSpec ==
    /\ Spec
    /\ WF_vars(\E committed \in BOOLEAN : Notify(committed))
    /\ \A c \in Clients : /\ WF_vars(AppendIntention(c))
                          /\ WF_vars(WaitOnTransaction(c))
                          /\ WF_vars(c \in signalled /\ Wakes(c))

-----------------------------------------------------------------------------
\* "if a token is not found, then a different instance of the database produced the
\* transaction": no other instance drew a token of this one's.
TokensApart == \A c \in Clients, o \in Others : Token[c] # Token[o]

Rendezvous(r, positions) ==
    /\ r = [by |-> r.by, waiters |-> r.waiters, results |-> r.results]
    /\ r.by \in Clients
    /\ r.waiters \in Seq(Clients)
    /\ DOMAIN r.results \subseteq positions
    /\ \A p \in DOMAIN r.results : r.results[p] \in BOOLEAN

\* Every variable has its type.
TypeOK ==
    /\ log \in Seq(Clients \cup Others)
    /\ decisions \in Seq(BOOLEAN) /\ Len(decisions) <= Len(log)
    /\ \A t \in DOMAIN token_waiters : Rendezvous(token_waiters[t], DOMAIN decisions)
    /\ pc \in [Clients -> {"begin", "registered", "appended", "waiting", "returned", "undefined"}]
    /\ at \in [Clients -> Nat]
    /\ waiter \in [Clients -> [complete : BOOLEAN, committed : BOOLEAN, pos : Nat]]
    /\ token_it \in [Clients -> Clients]
    /\ signalled \subseteq Clients
    /\ answer \in [Clients -> BOOLEAN]

\* A client is told the decision on its own intention, whether the processor
\* was before or after it, and whoever else waits under the same token.
OwnDecision ==
    \A c \in Clients :
        pc[c] = "returned" => at[c] \in DOMAIN decisions /\ answer[c] = decisions[at[c]]

\* The assertions of Notify hold for the next intention.
NotifyAssertsHold == Here <= Len(log) => NotifyAsserts(Token[log[Here]], Here)

\* An entry of the table is gone when its last client has returned.
NothingLeftBehind ==
    \A t \in DOMAIN token_waiters :
        \E c \in Clients : Token[c] = t /\ pc[c] \notin {"begin", "returned"}

\* "erase token entry if there are no associations": a client with a token of its
\* own never uses the entry after it was erased.  Clients that share a token can:
\* once both are notified, the first to return erases the entry.
HandlesStayValid ==
    \A c \in Clients : pc[c] = "undefined" => \E d \in Clients \ {c} : Token[d] = Token[c]

\* Every client that has appended its intention gets its answer, unless it uses
\* an erased entry, after which nothing is said.
EveryWaiterReturns ==
    \A c \in Clients : (pc[c] = "appended") ~> (pc[c] \in {"returned", "undefined"})
=============================================================================
