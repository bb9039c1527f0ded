----------------------- MODULE TransactionFinderProofs -----------------------
(***************************************************************************)
(* A client of the rendezvous is told the decision on its own intention,   *)
(* for any number of clients and any assignment of tokens.                 *)
(***************************************************************************)
EXTENDS TransactionFinder, SequenceTheorems, TLAPS

\* A result left behind under a token is the decision on its position.
ResultsAreDecisions ==
    \A t \in DOMAIN token_waiters : \A p \in DOMAIN token_waiters[t].results :
        token_waiters[t].results[p] = decisions[p]

\* A waiter knows no position, or its own; before its append it knows none.
WaiterPositions ==
    \A c \in Clients :
        /\ waiter[c].pos \in {0, at[c]}
        /\ pc[c] \in {"begin", "registered"} => at[c] = 0 /\ ~waiter[c].complete

\* A completed waiter holds the decision on its own position.
WaitersHoldDecisions ==
    \A c \in Clients :
        waiter[c].complete =>
            at[c] \in DOMAIN decisions /\ waiter[c].committed = decisions[at[c]]

IInv == TypeOK /\ ResultsAreDecisions /\ WaiterPositions /\ WaitersHoldDecisions /\ OwnDecision

\* The table is empty and nobody waits.
LEMMA InitIInv == Init => IInv
PROOF
  <1> SUFFICES ASSUME Init PROVE IInv
    OBVIOUS
  <1>1. TypeOK
    BY DEF Init, TypeOK, NewWaiter, NoResults
  <1>2. ResultsAreDecisions /\ WaiterPositions
    BY DEF Init, ResultsAreDecisions, WaiterPositions, NewWaiter, NoResults
  <1>3. WaitersHoldDecisions /\ OwnDecision
    BY DEF Init, WaitersHoldDecisions, OwnDecision, NewWaiter
  <1> QED BY <1>1, <1>2, <1>3 DEF IInv

\* An entry put into the table, or one taken out, keeps the table right.
LEMMA TableWith ==
  ASSUME TypeOK, ResultsAreDecisions, NEW t, NEW e,
         token_waiters' = With(token_waiters, t, e) \/ token_waiters' = Without(token_waiters, t),
         (\/ UNCHANGED decisions
          \/ \E b \in BOOLEAN : decisions' = Append(decisions, b)),
         Rendezvous(e, DOMAIN decisions'),
         \A p \in DOMAIN e.results : e.results[p] = decisions'[p]
  PROVE  /\ \A u \in DOMAIN token_waiters' : Rendezvous(token_waiters'[u], DOMAIN decisions')
         /\ ResultsAreDecisions'
PROOF
  <1>1. /\ DOMAIN decisions \subseteq DOMAIN decisions'
        /\ \A p \in DOMAIN decisions : decisions'[p] = decisions[p]
    <2>1. CASE UNCHANGED decisions
      BY <2>1
    <2>2. ASSUME NEW b \in BOOLEAN, decisions' = Append(decisions, b)
          PROVE  /\ DOMAIN decisions \subseteq DOMAIN decisions'
                 /\ \A p \in DOMAIN decisions : decisions'[p] = decisions[p]
      <3>1. decisions \in Seq(BOOLEAN)
        BY DEF TypeOK
      <3> QED BY <3>1, <2>2, AppendProperties, LenProperties
    <2> QED BY <2>1, <2>2
  <1>2. \A u \in DOMAIN token_waiters' :
           \/ u = t /\ token_waiters'[u] = e
           \/ u \in DOMAIN token_waiters /\ token_waiters'[u] = token_waiters[u]
    BY DEF With, Without
  <1>3. ASSUME NEW u \in DOMAIN token_waiters'
        PROVE  /\ Rendezvous(token_waiters'[u], DOMAIN decisions')
               /\ \A p \in DOMAIN token_waiters'[u].results :
                     token_waiters'[u].results[p] = decisions'[p]
    <2>1. CASE u = t /\ token_waiters'[u] = e
      BY <2>1 DEF Rendezvous
    <2>2. CASE u \in DOMAIN token_waiters /\ token_waiters'[u] = token_waiters[u]
      <3> DEFINE r == token_waiters[u]
      <3>1. Rendezvous(r, DOMAIN decisions)
        BY <2>2 DEF TypeOK
      <3>2. \A p \in DOMAIN r.results : r.results[p] = decisions[p]
        BY <2>2 DEF ResultsAreDecisions
      <3> HIDE DEF r
      <3>3. Rendezvous(r, DOMAIN decisions')
        BY <3>1, <2>2, <1>1 DEF Rendezvous, r
      <3> QED BY <2>2, <3>1, <3>2, <3>3, <1>1 DEF Rendezvous, r
    <2> QED BY <1>2, <2>1, <2>2
  <1> QED BY <1>3 DEF ResultsAreDecisions

\* A client registers its token.
LEMMA AddTokenWaiterStep ==
  ASSUME IInv, NEW c \in Clients, AddTokenWaiter(c)  PROVE IInv'
PROOF
  <1> DEFINE t == Token[c]
             e == IF t \in DOMAIN token_waiters
                  THEN [token_waiters[t] EXCEPT !.waiters = Append(@, c)]
                  ELSE [by |-> c, waiters |-> <<c>>, results |-> NoResults]
  <1>1. /\ token_waiters' = With(token_waiters, t, e)
        /\ token_it' = [token_it EXCEPT ![c] = e.by]
        /\ pc' = [pc EXCEPT ![c] = "registered"] /\ pc[c] = "begin"
        /\ UNCHANGED <<log, decisions, at, waiter, signalled, answer>>
    BY DEF AddTokenWaiter
  <1>2. Rendezvous(e, DOMAIN decisions) /\ \A p \in DOMAIN e.results : e.results[p] = decisions[p]
    <2>1. CASE t \in DOMAIN token_waiters
      <3> DEFINE r == token_waiters[t]
      <3>1. Rendezvous(r, DOMAIN decisions) /\ \A p \in DOMAIN r.results : r.results[p] = decisions[p]
        BY <2>1 DEF IInv, TypeOK, ResultsAreDecisions
      <3>2. e = [by |-> r.by, waiters |-> Append(r.waiters, c), results |-> r.results]
        BY <2>1, <3>1 DEF Rendezvous
      <3> HIDE DEF r, e
      <3> QED BY <3>1, <3>2 DEF Rendezvous
    <2>2. CASE t \notin DOMAIN token_waiters
      BY <2>2 DEF Rendezvous, NoResults
    <2> QED BY <2>1, <2>2
  <1> HIDE DEF e, t
  <1>3. /\ \A u \in DOMAIN token_waiters' : Rendezvous(token_waiters'[u], DOMAIN decisions')
        /\ ResultsAreDecisions'
    BY <1>1, <1>2, TableWith DEF IInv
  <1>4. e.by \in Clients
    BY <1>2 DEF Rendezvous
  <1>5. TypeOK'
    BY <1>1, <1>3, <1>4 DEF IInv, TypeOK
  <1>6. WaiterPositions' /\ WaitersHoldDecisions' /\ OwnDecision'
    BY <1>1 DEF IInv, TypeOK, WaiterPositions, WaitersHoldDecisions, OwnDecision
  <1> QED BY <1>3, <1>5, <1>6 DEF IInv

\* A client appends its intention.
LEMMA AppendStep ==
  ASSUME IInv,
         \/ \E c \in Clients : AppendIntention(c)
         \/ \E o \in Others : AppendOther(o)
  PROVE  IInv'
PROOF
  <1>1. CASE \E o \in Others : AppendOther(o)
    <2>1. /\ TypeOK'
          /\ UNCHANGED <<decisions, token_waiters, pc, at, waiter, token_it, signalled, answer>>
      BY <1>1 DEF AppendOther, IInv, TypeOK
    <2> QED BY <2>1 DEF IInv, ResultsAreDecisions, WaiterPositions, WaitersHoldDecisions, OwnDecision
  <1>2. ASSUME NEW c \in Clients, AppendIntention(c)  PROVE IInv'
    <2>1. /\ pc[c] = "registered" /\ pc' = [pc EXCEPT ![c] = "appended"]
          /\ at' = [at EXCEPT ![c] = Len(log) + 1]
          /\ log' = Append(log, c)
          /\ UNCHANGED <<decisions, token_waiters, waiter, token_it, signalled, answer>>
      BY <1>2 DEF AppendIntention
    <2>2. TypeOK'
      BY <2>1 DEF IInv, TypeOK
    <2>3. at[c] = 0 /\ waiter[c].pos = 0 /\ ~waiter[c].complete
      BY <2>1 DEF IInv, WaiterPositions
    <2>4. WaiterPositions' /\ WaitersHoldDecisions' /\ OwnDecision'
      BY <2>1, <2>3 DEF IInv, TypeOK, WaiterPositions, WaitersHoldDecisions, OwnDecision
    <2> QED BY <2>1, <2>2, <2>4 DEF IInv, ResultsAreDecisions
  <1> QED BY <1>1, <1>2

\* What a turn of the loop of WaitOnTransaction does to the table and the answers.
Looked(c) ==
    /\ \A u \in DOMAIN token_waiters' : Rendezvous(token_waiters'[u], DOMAIN decisions')
    /\ ResultsAreDecisions'
    /\ pc' \in {[pc EXCEPT ![c] = x] : x \in {"returned", "waiting", "undefined"}}
    /\ \/ UNCHANGED answer /\ pc'[c] # "returned"
       \/ at[c] \in DOMAIN decisions /\ answer' = [answer EXCEPT ![c] = decisions[at[c]]]

\* A client looks for a result under its token.
LEMMA LookStep ==
  ASSUME IInv, NEW c \in Clients, Look(c), UNCHANGED decisions
  PROVE  Looked(c)
PROOF
  <1> DEFINE t == Token[c]
             r == token_waiters[t]
             rest(i) == [by |-> r.by, waiters |-> RemoveAt(r.waiters, i),
                         results |-> Without(r.results, at[c])]
  <1>1. ASSUME UNCHANGED <<token_waiters, answer>>,
               NEW x \in {"waiting", "undefined"}, pc' = [pc EXCEPT ![c] = x]
        PROVE  Looked(c)
    BY <1>1 DEF Looked, IInv, TypeOK, ResultsAreDecisions
  <1>2. ASSUME Alive(c)
        PROVE  Rendezvous(r, DOMAIN decisions) /\ \A p \in DOMAIN r.results : r.results[p] = decisions[p]
    BY <1>2 DEF Alive, IInv, TypeOK, ResultsAreDecisions
  <1>3. ASSUME NEW b, NEW e, Return(c, b, e), Rendezvous(e, DOMAIN decisions),
               \A p \in DOMAIN e.results : e.results[p] = decisions[p],
               at[c] \in DOMAIN decisions, b = decisions[at[c]]
        PROVE  Looked(c)
    <2>1. token_waiters' = With(token_waiters, t, e) \/ token_waiters' = Without(token_waiters, t)
      BY <1>3 DEF Return, Released
    <2>2. /\ \A u \in DOMAIN token_waiters' : Rendezvous(token_waiters'[u], DOMAIN decisions')
          /\ ResultsAreDecisions'
      <3> HIDE DEF t
      <3> QED BY <2>1, <1>3, TableWith DEF IInv
    <2> QED BY <2>2, <1>3 DEF Looked, Return
  <1>4. CASE ~Alive(c) /\ Undefined(c)
    BY <1>1, <1>4 DEF Undefined
  <1>5. CASE Alive(c) /\ waiter[c].complete /\ Return(c, waiter[c].committed, r)
    <2>1. at[c] \in DOMAIN decisions /\ waiter[c].committed = decisions[at[c]]
      BY <1>5 DEF IInv, WaitersHoldDecisions
    <2> HIDE DEF r
    <2> QED BY <1>2, <1>3, <1>5, <2>1
  <1>6. ASSUME Alive(c), at[c] \in DOMAIN r.results,
               NEW i \in DOMAIN r.waiters, Return(c, r.results[at[c]], rest(i))
        PROVE  Looked(c)
    <2>1. Rendezvous(r, DOMAIN decisions) /\ \A p \in DOMAIN r.results : r.results[p] = decisions[p]
      BY <1>2, <1>6
    <2>3. RemoveAt(r.waiters, i) \in Seq(Clients)
      <3>1. r.waiters \in Seq(Clients)
        BY <2>1 DEF Rendezvous
      <3> HIDE DEF r
      <3> QED BY <3>1, <1>6 DEF RemoveAt
    <2>4. Rendezvous(rest(i), DOMAIN decisions) /\ \A p \in DOMAIN rest(i).results : rest(i).results[p] = decisions[p]
      <3> DEFINE e == rest(i)
      <3>1. e = [by |-> r.by, waiters |-> RemoveAt(r.waiters, i), results |-> Without(r.results, at[c])]
        OBVIOUS
      <3> HIDE DEF e, r
      <3>2. Rendezvous(e, DOMAIN decisions) /\ \A p \in DOMAIN e.results : e.results[p] = decisions[p]
        BY <2>1, <2>3, <3>1 DEF Rendezvous, Without
      <3> QED BY <3>2 DEF e
    <2>5. at[c] \in DOMAIN decisions /\ r.results[at[c]] = decisions[at[c]]
      BY <2>1, <1>6 DEF Rendezvous
    <2> HIDE DEF rest, r
    <2> QED BY <1>3, <1>6, <2>4, <2>5
  <1>7. CASE pc' = [pc EXCEPT ![c] = "waiting"] /\ UNCHANGED <<token_waiters, answer>>
    BY <1>1, <1>7
  <1> HIDE DEF rest, r
  <1> QED BY <1>4, <1>5, <1>6, <1>7 DEF Look, rest, r

\* What a waiter becomes that is given its position.
LEMMA SetPos ==
  ASSUME NEW n \in Nat, NEW w \in [complete : BOOLEAN, committed : BOOLEAN, pos : Nat]
  PROVE  [w EXCEPT !.pos = n] \in [complete : BOOLEAN, committed : BOOLEAN, pos : Nat]
PROOF OBVIOUS

\* A client waits, or finds itself notified.
LEMMA WaitStep ==
  ASSUME IInv, NEW c \in Clients, WaitOnTransaction(c) \/ Wakes(c)  PROVE IInv'
PROOF
  <1>1. /\ pc[c] \in {"appended", "waiting"}
        /\ Look(c)
        /\ UNCHANGED <<log, decisions, at, token_it>>
        /\ waiter' = waiter \/ waiter' = [waiter EXCEPT ![c].pos = at[c]]
        /\ signalled' \subseteq signalled
    BY DEF WaitOnTransaction, Wakes
  <1>2. Looked(c)
    BY <1>1, LookStep
  <1>3. TypeOK'
    <2>1. waiter' \in [Clients -> [complete : BOOLEAN, committed : BOOLEAN, pos : Nat]]
      <3>1. at[c] \in Nat /\ waiter \in [Clients -> [complete : BOOLEAN, committed : BOOLEAN, pos : Nat]]
        BY DEF IInv, TypeOK
      <3>2. [waiter[c] EXCEPT !.pos = at[c]] \in [complete : BOOLEAN, committed : BOOLEAN, pos : Nat]
        BY <3>1, SetPos
      <3> QED BY <1>1, <3>1, <3>2
    <2>2. answer' \in [Clients -> BOOLEAN]
      <3>1. answer \in [Clients -> BOOLEAN] /\ decisions \in Seq(BOOLEAN)
        BY DEF IInv, TypeOK
      <3>2. at[c] \in DOMAIN decisions => decisions[at[c]] \in BOOLEAN
        BY <3>1, ElementOfSeq
      <3>3. CASE UNCHANGED answer
        BY <3>1, <3>3
      <3>4. CASE at[c] \in DOMAIN decisions /\ answer' = [answer EXCEPT ![c] = decisions[at[c]]]
        BY <3>1, <3>2, <3>4, Zenon
      <3> QED BY <3>3, <3>4, <1>2 DEF Looked
    <2>3. pc' \in [Clients -> {"begin", "registered", "appended", "waiting", "returned", "undefined"}]
      BY <1>2 DEF IInv, TypeOK, Looked
    <2> QED BY <1>1, <1>2, <2>1, <2>2, <2>3 DEF IInv, TypeOK, Looked
  <1>4. WaiterPositions'
    BY <1>1, <1>2 DEF IInv, TypeOK, Looked, WaiterPositions
  <1>5. WaitersHoldDecisions'
    BY <1>1 DEF IInv, TypeOK, WaitersHoldDecisions
  <1>6. OwnDecision'
    <2> SUFFICES ASSUME NEW d \in Clients, pc'[d] = "returned"
                 PROVE  at'[d] \in DOMAIN decisions' /\ answer'[d] = decisions'[at'[d]]
      BY DEF OwnDecision
    <2>0. pc \in [Clients -> {"begin", "registered", "appended", "waiting", "returned", "undefined"}]
          /\ answer \in [Clients -> BOOLEAN]
      BY DEF IInv, TypeOK
    <2>1. CASE d # c
      <3>1. pc'[d] = pc[d] /\ answer'[d] = answer[d]
        BY <1>2, <2>0, <2>1 DEF Looked
      <3> QED BY <1>1, <3>1 DEF IInv, OwnDecision
    <2>2. CASE d = c
      <3>1. at[c] \in DOMAIN decisions /\ answer' = [answer EXCEPT ![c] = decisions[at[c]]]
        BY <1>2, <2>2 DEF Looked
      <3> QED BY <1>1, <2>0, <2>2, <3>1
    <2> QED BY <2>1, <2>2
  <1> QED BY <1>2, <1>3, <1>4, <1>5, <1>6 DEF IInv, Looked

\* The waiter records after the processor completed one of them.
LEMMA SetComplete ==
  ASSUME NEW b \in BOOLEAN, NEW w \in [complete : BOOLEAN, committed : BOOLEAN, pos : Nat]
  PROVE  /\ [w EXCEPT !.complete = TRUE, !.committed = b]
               \in [complete : BOOLEAN, committed : BOOLEAN, pos : Nat]
         /\ [w EXCEPT !.complete = TRUE, !.committed = b].complete
         /\ [w EXCEPT !.complete = TRUE, !.committed = b].committed = b
         /\ [w EXCEPT !.complete = TRUE, !.committed = b].pos = w.pos
PROOF OBVIOUS

\* The processor announces a decision.
LEMMA NotifyStep ==
  ASSUME IInv, NEW b \in BOOLEAN, Notify(b)  PROVE IInv'
PROOF
  <1> DEFINE t == Token[log[Here]]
             r == token_waiters[t]
             fw == Head(r.waiters)
             Waiters == [complete : BOOLEAN, committed : BOOLEAN, pos : Nat]
  <1>1. /\ Here <= Len(log)
        /\ decisions' = Append(decisions, b)
        /\ UNCHANGED <<log, pc, at, token_it, answer>>
    BY DEF Notify
  <1>2. decisions \in Seq(BOOLEAN) /\ log \in Seq(Clients \cup Others) /\ Len(decisions) \in Nat
    BY LenProperties DEF IInv, TypeOK
  <1>3. /\ decisions' \in Seq(BOOLEAN) /\ Len(decisions') = Here
        /\ DOMAIN decisions = 1..(Here - 1) /\ DOMAIN decisions' = 1..Here
        /\ \A p \in DOMAIN decisions : decisions'[p] = decisions[p]
        /\ decisions'[Here] = b
        /\ Here \in Nat \ {0}
    BY <1>1, <1>2, AppendProperties, LenProperties DEF Here
  <1> HIDE DEF t
  <1>4. ASSUME t \in DOMAIN token_waiters
        PROVE  /\ Rendezvous(r, DOMAIN decisions)
               /\ \A p \in DOMAIN r.results : r.results[p] = decisions[p]
               /\ fw \in Clients /\ Tail(r.waiters) \in Seq(Clients)
    <2>1. /\ Rendezvous(r, DOMAIN decisions)
          /\ \A p \in DOMAIN r.results : r.results[p] = decisions[p]
      BY <1>4 DEF IInv, TypeOK, ResultsAreDecisions
    <2>2. r.waiters \in Seq(Clients) /\ r.waiters # <<>>
      BY <1>4, <2>1 DEF Rendezvous, Notify, NotifyAsserts, t
    <2> HIDE DEF r
    <2> QED BY <2>1, <2>2, HeadTailProperties
  <1>5. /\ waiter' \in [Clients -> Waiters]
        /\ \A c \in Clients : waiter'[c].pos = waiter[c].pos
        /\ \A c \in Clients :
              \/ waiter'[c] = waiter[c]
              \/ at[c] = Here /\ waiter[c].pos = Here /\ waiter'[c].committed = b
    <2>1. waiter \in [Clients -> Waiters]
      BY DEF IInv, TypeOK
    <2>2. CASE NotifyNobody(Here, b) \/ NotifyAll(Here, b)
      BY <2>1, <2>2 DEF NotifyNobody, NotifyAll
    <2>3. CASE NotifyFirst(Here, b)
      <3>1. /\ t \in DOMAIN token_waiters
            /\ waiter[fw].pos = Here
            /\ waiter' = [waiter EXCEPT ![fw].complete = TRUE, ![fw].committed = b]
        BY <2>3 DEF NotifyFirst, IsFirst, t
      <3>2. fw \in Clients /\ waiter[fw] \in Waiters
        BY <1>4, <2>1, <3>1
      <3> HIDE DEF fw
      <3>3. at[fw] = Here
        BY <3>1, <3>2, <1>3 DEF IInv, WaiterPositions
      <3> DEFINE w == [waiter[fw] EXCEPT !.complete = TRUE, !.committed = b]
      <3>4. w \in Waiters /\ w.committed = b /\ w.pos = waiter[fw].pos
        BY <3>2, SetComplete
      <3>5. waiter' = [waiter EXCEPT ![fw] = w]
        BY <3>1, <3>2, <2>1
      <3> HIDE DEF w, Waiters
      <3> QED BY <2>1, <3>1, <3>2, <3>3, <3>4, <3>5
    <2> QED BY <2>2, <2>3 DEF Notify
  <1>6. /\ \A u \in DOMAIN token_waiters' : Rendezvous(token_waiters'[u], DOMAIN decisions')
        /\ ResultsAreDecisions'
    <2>1. CASE NotifyNobody(Here, b)
      <3>1. UNCHANGED token_waiters
        BY <2>1 DEF NotifyNobody
      <3>2. ASSUME NEW u \in DOMAIN token_waiters'
            PROVE  /\ Rendezvous(token_waiters'[u], DOMAIN decisions')
                   /\ \A p \in DOMAIN token_waiters'[u].results :
                         token_waiters'[u].results[p] = decisions'[p]
        <4>1. /\ Rendezvous(token_waiters[u], DOMAIN decisions)
              /\ \A p \in DOMAIN token_waiters[u].results :
                    token_waiters[u].results[p] = decisions[p]
          BY <3>1, <3>2 DEF IInv, TypeOK, ResultsAreDecisions
        <4> QED BY <4>1, <3>1, <1>3 DEF Rendezvous
      <3> QED BY <3>2 DEF ResultsAreDecisions
    <2>2. ASSUME NEW e, token_waiters' = With(token_waiters, t, e),
                 Rendezvous(e, DOMAIN decisions'),
                 \A p \in DOMAIN e.results : e.results[p] = decisions'[p]
          PROVE  /\ \A u \in DOMAIN token_waiters' : Rendezvous(token_waiters'[u], DOMAIN decisions')
                 /\ ResultsAreDecisions'
      BY <2>2, <1>1, TableWith DEF IInv
    <2>3. CASE NotifyFirst(Here, b)
      <3> DEFINE e == [r EXCEPT !.waiters = Tail(@)]
      <3>1. t \in DOMAIN token_waiters /\ token_waiters' = With(token_waiters, t, e)
        BY <2>3 DEF NotifyFirst, t
      <3>2. e = [by |-> r.by, waiters |-> Tail(r.waiters), results |-> r.results]
        BY <1>4, <3>1 DEF Rendezvous
      <3>3. Rendezvous(e, DOMAIN decisions') /\ \A p \in DOMAIN e.results : e.results[p] = decisions'[p]
        <4> HIDE DEF e, r
        <4> QED BY <1>3, <1>4, <3>1, <3>2 DEF Rendezvous
      <3> HIDE DEF e
      <3> QED BY <2>2, <3>1, <3>3
    <2>4. CASE NotifyAll(Here, b)
      <3> DEFINE e == [r EXCEPT !.results = With(@, Here, b)]
      <3>1. t \in DOMAIN token_waiters /\ token_waiters' = With(token_waiters, t, e)
        BY <2>4 DEF NotifyAll, t
      <3>2. e = [by |-> r.by, waiters |-> r.waiters, results |-> With(r.results, Here, b)]
        BY <1>4, <3>1 DEF Rendezvous
      <3>3. Rendezvous(e, DOMAIN decisions') /\ \A p \in DOMAIN e.results : e.results[p] = decisions'[p]
        <4> HIDE DEF e, r
        <4> QED BY <1>3, <1>4, <3>1, <3>2 DEF Rendezvous, With
      <3> HIDE DEF e
      <3> QED BY <2>2, <3>1, <3>3
    <2> QED BY <2>1, <2>3, <2>4 DEF Notify
  <1>7. signalled' \subseteq Clients
    <2>1. CASE NotifyNobody(Here, b)
      BY <2>1 DEF NotifyNobody, IInv, TypeOK
    <2>2. CASE NotifyFirst(Here, b)
      BY <2>2, <1>4 DEF NotifyFirst, Signal, IInv, TypeOK, t
    <2>3. CASE NotifyAll(Here, b)
      <3>1. t \in DOMAIN token_waiters /\ signalled' = signalled \cup {c \in Range(r.waiters) : pc[c] = "waiting"}
        BY <2>3 DEF NotifyAll, Signal, t
      <3>2. Range(r.waiters) \subseteq Clients
        BY <1>4, <3>1 DEF Rendezvous, Range
      <3> QED BY <3>1, <3>2 DEF IInv, TypeOK
    <2> QED BY <2>1, <2>2, <2>3 DEF Notify
  <1>8. TypeOK'
    BY <1>1, <1>3, <1>5, <1>6, <1>7 DEF IInv, TypeOK
  <1>9. WaiterPositions'
    <2>1. ASSUME NEW c \in Clients, pc[c] \in {"begin", "registered"}  PROVE ~waiter'[c].complete
      BY <1>3, <1>5, <2>1 DEF IInv, WaiterPositions
    <2> QED BY <1>1, <1>5, <2>1 DEF IInv, WaiterPositions
  <1>10. WaitersHoldDecisions'
    BY <1>1, <1>3, <1>5 DEF IInv, WaitersHoldDecisions
  <1>11. OwnDecision'
    BY <1>1, <1>3 DEF IInv, OwnDecision
  <1> QED BY <1>6, <1>8, <1>9, <1>10, <1>11 DEF IInv

\* The invariant behind OwnDecision: what the table and the waiters hold is what
\* the processor decided on their positions.
THEOREM FinderInvariance == Spec => []IInv
PROOF
  <1>1. Init => IInv
    BY InitIInv
  <1>2. IInv /\ [Next]_vars => IInv'
    <2> SUFFICES ASSUME IInv, [Next]_vars PROVE IInv'
      OBVIOUS
    <2>1. CASE UNCHANGED vars
      BY <2>1 DEF vars, IInv, TypeOK, ResultsAreDecisions, WaiterPositions,
                  WaitersHoldDecisions, OwnDecision
    <2>2. CASE Next
      BY <2>2, AddTokenWaiterStep, AppendStep, WaitStep, NotifyStep DEF Next
    <2> QED BY <2>1, <2>2
  <1> QED BY <1>1, <1>2, PTL DEF Spec

\* TransactionFinder tells each client the decision on its own intention: on the
\* fast path through the Waiter, on the slow path through the results, for any
\* number of clients, any tokens and any order of append, wait and notification.
THEOREM ToldOwnDecision == Spec => []OwnDecision
PROOF
  <1>1. IInv => OwnDecision
    BY DEF IInv
  <1> QED BY <1>1, FinderInvariance, PTL

-----------------------------------------------------------------------------
(* Who is in line, and what is left in the table. *)

\* The client is between registering and returning.
ActiveStates == {"registered", "appended", "waiting"}
Active(c) == pc[c] \in ActiveStates

LineOf(t) == token_waiters[t].waiters

\* The log and the clients agree on who appended where.
AppendedAt ==
    /\ \A p \in DOMAIN log : log[p] \in Clients =>
           at[log[p]] = p /\ pc[log[p]] \notin {"begin", "registered"}
    /\ \A c \in Clients : pc[c] \notin {"begin", "registered"} =>
           at[c] \in DOMAIN log /\ log[at[c]] = c

\* Only clients of the token that are active and have not been completed are in
\* line, each of them once.
LineIsRight ==
    \A t \in DOMAIN token_waiters :
        /\ \A i \in DOMAIN LineOf(t) :
               /\ Token[LineOf(t)[i]] = t
               /\ Active(LineOf(t)[i]) /\ ~waiter[LineOf(t)[i]].complete
        /\ \A i, j \in DOMAIN LineOf(t) : LineOf(t)[i] = LineOf(t)[j] => i = j

\* And all of them are.
StandInLine ==
    \A c \in Clients : Active(c) /\ ~waiter[c].complete =>
        Alive(c) /\ \E i \in DOMAIN LineOf(Token[c]) : LineOf(Token[c])[i] = c

\* A result in the table is for a client in line.
ResultsAreAwaited ==
    \A t \in DOMAIN token_waiters : \A p \in DOMAIN token_waiters[t].results :
        \E i \in DOMAIN LineOf(t) : at[LineOf(t)[i]] = p

\* The results are a map.
ResultsAreMaps ==
    \A t \in DOMAIN token_waiters :
        LET results == token_waiters[t].results
        IN  results = [p \in DOMAIN results |-> results[p]]

\* A handle is lost only after the answer, and to a client with the same token.
HandlesAreHeld ==
    \A c \in Clients :
        \/ pc[c] # "undefined" /\ (Active(c) => Alive(c))
        \/ waiter[c].complete /\ \E d \in Clients \ {c} : Token[d] = Token[c]

Line ==
    /\ AppendedAt
    /\ LineIsRight
    /\ StandInLine
    /\ ResultsAreAwaited
    /\ ResultsAreMaps
    /\ HandlesAreHeld
    /\ NothingLeftBehind

\* Initially the log and the table are empty and nobody is active.
LEMMA InitLine == Init => Line
PROOF
  <1> SUFFICES ASSUME Init PROVE Line
    OBVIOUS
  <1>1. DOMAIN token_waiters = {} /\ DOMAIN log = {} /\ \A c \in Clients : pc[c] = "begin"
    BY DEF Init
  <1> QED BY <1>1 DEF Line, AppendedAt, LineIsRight, StandInLine, ResultsAreAwaited,
                      ResultsAreMaps, HandlesAreHeld, NothingLeftBehind, Active, ActiveStates

\* list::erase takes out one place and leaves the others in order.
LEMMA RemoveFacts ==
  ASSUME NEW S, NEW s \in Seq(S), NEW i \in DOMAIN s,
         \A j, k \in DOMAIN s : s[j] = s[k] => j = k
  PROVE  /\ RemoveAt(s, i) \in Seq(S)
         /\ \A k \in DOMAIN RemoveAt(s, i) :
                RemoveAt(s, i)[k] # s[i] /\ \E j \in DOMAIN s : s[j] = RemoveAt(s, i)[k]
         /\ \A j \in DOMAIN s : s[j] # s[i] =>
                \E k \in DOMAIN RemoveAt(s, i) : RemoveAt(s, i)[k] = s[j]
         /\ \A j, k \in DOMAIN RemoveAt(s, i) :
                RemoveAt(s, i)[j] = RemoveAt(s, i)[k] => j = k
PROOF
  <1> DEFINE r == RemoveAt(s, i)
             place(k) == IF k < i THEN k ELSE k + 1
             a == SubSeq(s, 1, i - 1)
             b == SubSeq(s, i + 1, Len(s))
  <1>a. Len(s) \in Nat /\ DOMAIN s = 1..Len(s) /\ i \in 1..Len(s)
    OBVIOUS
  <1>b. /\ a \in Seq(S) /\ Len(a) = i - 1 /\ \A k \in 1..(i - 1) : a[k] = s[k]
    BY <1>a
  <1>c. /\ b \in Seq(S) /\ Len(b) = Len(s) - i /\ \A k \in 1..(Len(s) - i) : b[k] = s[k + i]
    BY <1>a
  <1>d. r = a \o b
    BY DEF RemoveAt
  <1> HIDE DEF a, b
  <1>e. /\ a \o b \in Seq(S) /\ Len(a \o b) = Len(a) + Len(b)
        /\ \A k \in 1..(Len(a) + Len(b)) :
               (a \o b)[k] = IF k <= Len(a) THEN a[k] ELSE b[k - Len(a)]
    BY <1>b, <1>c, ConcatProperties
  <1>1. r \in Seq(S) /\ Len(r) = Len(s) - 1
    <2>1. r \in Seq(S) /\ Len(r) = Len(a) + Len(b)
      BY <1>d, <1>e, Zenon
    <2> HIDE DEF r
    <2> QED BY <1>a, <1>b, <1>c, <2>1
  <1>2. \A k \in DOMAIN r : r[k] = s[place(k)] /\ place(k) \in DOMAIN s /\ place(k) # i
    <2>1. \A k \in 1..(Len(a) + Len(b)) :
              r[k] = IF k <= Len(a) THEN a[k] ELSE b[k - Len(a)]
      BY <1>d, <1>e, Zenon
    <2> HIDE DEF r
    <2>2. TAKE k \in DOMAIN r
    <2>3. k \in 1..(Len(s) - 1) /\ Len(a) = i - 1 /\ Len(b) = Len(s) - i
      BY <1>b, <1>c, <1>1
    <2>4. r[k] = IF k <= Len(a) THEN a[k] ELSE b[k - Len(a)]
      BY <1>a, <2>1, <2>3
    <2>5. CASE k < i
      BY <1>a, <1>b, <2>3, <2>4, <2>5
    <2>6. CASE ~(k < i)
      <3>1. r[k] = b[k - (i - 1)] /\ k - (i - 1) \in 1..(Len(s) - i)
        BY <1>a, <2>3, <2>4, <2>6
      <3>2. r[k] = s[k - (i - 1) + i]
        BY <1>c, <3>1
      <3> QED BY <1>a, <2>3, <2>6, <3>2
    <2> QED BY <2>5, <2>6
  <1>3. \A j \in DOMAIN s : j # i => \E k \in DOMAIN r : place(k) = j
    <2>1. TAKE j \in DOMAIN s
    <2>2. CASE j < i
      <3>1. j \in DOMAIN r /\ place(j) = j
        BY <1>1, <2>2
      <3> QED BY <3>1
    <2>3. CASE j > i
      <3>1. j - 1 \in DOMAIN r /\ place(j - 1) = j
        BY <1>1, <2>3
      <3> QED BY <3>1
    <2> QED BY <2>2, <2>3
  <1>4. \A j, k \in DOMAIN r : place(j) = place(k) => j = k
    BY <1>1
  <1> HIDE DEF r, place
  <1>5. QED BY <1>1, <1>2, <1>3, <1>4 DEF r

\* A client registers at the end of the line of its token.
LEMMA AddLine ==
  ASSUME IInv, Line, NEW c \in Clients, AddTokenWaiter(c)
  PROVE  Line'
PROOF
  <1> DEFINE t == Token[c]
             w == LineOf(t)
             e == IF t \in DOMAIN token_waiters
                  THEN [token_waiters[t] EXCEPT !.waiters = Append(@, c)]
                  ELSE [by |-> c, waiters |-> <<c>>, results |-> NoResults]
  <1>1. /\ pc[c] = "begin" /\ pc' = [pc EXCEPT ![c] = "registered"]
        /\ token_waiters' = With(token_waiters, t, e)
        /\ token_it' = [token_it EXCEPT ![c] = e.by]
        /\ UNCHANGED <<log, decisions, at, waiter, signalled, answer>>
    BY DEF AddTokenWaiter
  <1>2. /\ pc \in [Clients -> {"begin", "registered", "appended", "waiting", "returned", "undefined"}]
        /\ token_it \in [Clients -> Clients]
    BY DEF IInv, TypeOK
  <1>3. /\ pc'[c] = "registered" /\ token_it'[c] = e.by
        /\ \A d \in Clients \ {c} : pc'[d] = pc[d] /\ token_it'[d] = token_it[d]
    BY <1>1, <1>2
  <1>4. ~waiter[c].complete
    BY <1>1 DEF IInv, WaiterPositions
  <1>5. CASE t \in DOMAIN token_waiters
    <2>1. Rendezvous(token_waiters[t], DOMAIN decisions)
      BY <1>5 DEF IInv, TypeOK
    <2>2. /\ e.by = token_waiters[t].by /\ e.waiters = Append(w, c)
          /\ e.results = token_waiters[t].results
      BY <1>5, <2>1 DEF Rendezvous, LineOf
    <2>3. w \in Seq(Clients)
      BY <2>1 DEF Rendezvous, LineOf
    <2> HIDE DEF e, w
    <2>4. /\ Len(w) \in Nat /\ DOMAIN w = 1..Len(w) /\ DOMAIN e.waiters = 1..(Len(w) + 1)
          /\ e.waiters[Len(w) + 1] = c
          /\ \A i \in DOMAIN w : e.waiters[i] = w[i]
      BY <2>2, <2>3, AppendProperties
    <2>5. DOMAIN token_waiters' = DOMAIN token_waiters /\ token_waiters'[t] = e
      BY <1>1, <1>5 DEF With
    <2>6. \A u \in DOMAIN token_waiters \ {t} : token_waiters'[u] = token_waiters[u]
      BY <1>1, <1>5 DEF With
    <2>7. \A u \in DOMAIN token_waiters : \A i \in DOMAIN LineOf(u) : LineOf(u)[i] # c
      BY <1>1 DEF Line, LineIsRight, Active, ActiveStates
    <2>8. \A u \in DOMAIN token_waiters : \A i \in DOMAIN LineOf(u) :
              /\ LineOf(u)[i] \in Clients \ {c} /\ Token[LineOf(u)[i]] = u
              /\ pc'[LineOf(u)[i]] \in ActiveStates /\ ~waiter'[LineOf(u)[i]].complete
      <3>1. TAKE u \in DOMAIN token_waiters
      <3>2. LineOf(u) \in Seq(Clients)
        BY DEF IInv, TypeOK, Rendezvous, LineOf
      <3>3. TAKE i \in DOMAIN LineOf(u)
      <3>4. LineOf(u)[i] \in Clients
        BY <3>2, ElementOfSeq
      <3>5. /\ Token[LineOf(u)[i]] = u /\ LineOf(u)[i] # c
            /\ Active(LineOf(u)[i]) /\ ~waiter[LineOf(u)[i]].complete
        BY <2>7 DEF Line, LineIsRight
      <3> QED BY <1>1, <1>3, <3>4, <3>5 DEF Active, ActiveStates
    <2>9. \A i, j \in DOMAIN w : w[i] = w[j] => i = j
      BY <1>5 DEF Line, LineIsRight, w
    <2>10. LineIsRight'
      <3>1. SUFFICES ASSUME NEW u \in DOMAIN token_waiters'
                     PROVE  /\ \A i \in DOMAIN token_waiters'[u].waiters :
                                   /\ Token[token_waiters'[u].waiters[i]] = u
                                   /\ pc'[token_waiters'[u].waiters[i]] \in ActiveStates
                                   /\ ~waiter'[token_waiters'[u].waiters[i]].complete
                            /\ \A i, j \in DOMAIN token_waiters'[u].waiters :
                                   token_waiters'[u].waiters[i] = token_waiters'[u].waiters[j] => i = j
        BY DEF LineIsRight, LineOf, Active, ActiveStates
      <3>2. CASE u = t
        <4>1. \A i \in DOMAIN e.waiters : i = Len(w) + 1 \/ (i \in DOMAIN w /\ e.waiters[i] = w[i])
          BY <2>4
        <4>2. \A i \in DOMAIN w : w[i] # c /\ Token[w[i]] = t /\ pc'[w[i]] \in ActiveStates /\ ~waiter'[w[i]].complete
          BY <1>5, <2>8 DEF w
        <4>3. Token[c] = t /\ pc'[c] \in ActiveStates /\ ~waiter'[c].complete
          BY <1>1, <1>3, <1>4 DEF ActiveStates
        <4>4. \A i, j \in DOMAIN e.waiters : e.waiters[i] = e.waiters[j] => i = j
          BY <2>4, <2>9, <4>1, <4>2
        <4> HIDE DEF t
        <4> QED BY <2>4, <2>5, <3>2, <4>1, <4>2, <4>3, <4>4
      <3>3. CASE u # t
        BY <2>5, <2>6, <2>8, <3>3 DEF Line, LineIsRight, LineOf
      <3> QED BY <3>2, <3>3
    <2>11. StandInLine' /\ HandlesAreHeld'
      <3>1. \A d \in Clients : Alive(d) => Alive(d)' \/ d = c
        BY <1>3, <2>2, <2>5, <2>6 DEF Alive
      <3>2. Alive(c)'
        BY <1>3, <1>5, <2>5 DEF Alive
      <3>3. \A d \in Clients \ {c} : \A i \in DOMAIN LineOf(Token[d]) :
                Alive(d) => i \in DOMAIN token_waiters'[Token[d]].waiters
                            /\ token_waiters'[Token[d]].waiters[i] = LineOf(Token[d])[i]
        BY <2>4, <2>5, <2>6 DEF Alive, LineOf, w
      <3>4. \E i \in DOMAIN token_waiters'[Token[c]].waiters : token_waiters'[Token[c]].waiters[i] = c
        BY <2>4, <2>5
      <3>5. \A d \in Clients \ {c} : Active(d)' = Active(d)
        BY <1>3 DEF Active, ActiveStates
      <3>6. StandInLine'
        <4>1. SUFFICES ASSUME NEW d \in Clients, Active(d)', ~waiter'[d].complete
                       PROVE  Alive(d)' /\ \E i \in DOMAIN token_waiters'[Token[d]].waiters :
                                               token_waiters'[Token[d]].waiters[i] = d
          BY DEF StandInLine, LineOf
        <4>2. CASE d = c
          BY <3>2, <3>4, <4>2
        <4>3. CASE d # c
          <5>1. Alive(d) /\ \E i \in DOMAIN LineOf(Token[d]) : LineOf(Token[d])[i] = d
            BY <1>1, <3>5, <4>1, <4>3 DEF Line, StandInLine
          <5> QED BY <3>1, <3>3, <4>3, <5>1
        <4> QED BY <4>2, <4>3
      <3>7. HandlesAreHeld'
        BY <1>1, <1>3, <3>1, <3>2, <3>5 DEF Line, HandlesAreHeld
      <3> QED BY <3>6, <3>7
    <2>12. ResultsAreAwaited' /\ ResultsAreMaps' /\ NothingLeftBehind'
      <3>1. ResultsAreMaps'
        BY <1>5, <2>2, <2>5, <2>6 DEF Line, ResultsAreMaps
      <3>2. NothingLeftBehind'
        BY <1>3, <2>5 DEF Line, NothingLeftBehind
      <3>3. ResultsAreAwaited'
        <4>1. \A u \in DOMAIN token_waiters :
                  /\ token_waiters'[u].results = token_waiters[u].results
                  /\ \A i \in DOMAIN LineOf(u) : i \in DOMAIN token_waiters'[u].waiters
                                                  /\ token_waiters'[u].waiters[i] = LineOf(u)[i]
          BY <2>2, <2>4, <2>5, <2>6 DEF LineOf, w
        <4> QED BY <1>1, <2>5, <4>1 DEF Line, ResultsAreAwaited, LineOf
      <3> QED BY <3>1, <3>2, <3>3
    <2>13. AppendedAt'
      BY <1>1, <1>3 DEF Line, AppendedAt
    <2> QED BY <2>10, <2>11, <2>12, <2>13 DEF Line
  <1>6. CASE t \notin DOMAIN token_waiters
    <2>1. e.by = c /\ e.waiters = <<c>> /\ DOMAIN e.results = {} /\ e.results = NoResults
      BY <1>6 DEF NoResults
    <2> HIDE DEF e
    <2>2. DOMAIN e.waiters = {1} /\ e.waiters[1] = c
      BY <2>1
    <2>3. /\ DOMAIN token_waiters' = DOMAIN token_waiters \cup {t} /\ token_waiters'[t] = e
          /\ \A u \in DOMAIN token_waiters : u # t /\ token_waiters'[u] = token_waiters[u]
      BY <1>1, <1>6 DEF With
    <2>4. \A d \in Clients \ {c} : Active(d)' = Active(d) /\ (Alive(d) => Alive(d)' /\ Token[d] # t)
      BY <1>3, <1>6, <2>3 DEF Active, ActiveStates, Alive
    <2>5. Active(c)' /\ Alive(c)'
      BY <1>3, <2>3 DEF Active, ActiveStates, Alive
    <2>6. \A u \in DOMAIN token_waiters : \A i \in DOMAIN LineOf(u) :
              Active(LineOf(u)[i]) => LineOf(u)[i] # c /\ pc'[LineOf(u)[i]] \in ActiveStates
      <3>1. TAKE u \in DOMAIN token_waiters
      <3>2. LineOf(u) \in Seq(Clients)
        BY DEF IInv, TypeOK, Rendezvous, LineOf
      <3>3. TAKE i \in DOMAIN LineOf(u)
      <3>4. LineOf(u)[i] \in Clients
        BY <3>2, ElementOfSeq
      <3> QED BY <1>1, <2>4, <3>4 DEF Active, ActiveStates
    <2>7. LineIsRight'
      <3>1. \A u \in DOMAIN token_waiters : \A i \in DOMAIN LineOf(u) :
                Token[LineOf(u)[i]] = u /\ pc'[LineOf(u)[i]] \in ActiveStates /\ ~waiter'[LineOf(u)[i]].complete
        BY <1>1, <2>6 DEF Line, LineIsRight
      <3> QED BY <1>1, <1>4, <2>2, <2>3, <2>5, <3>1 DEF Line, LineIsRight, LineOf, Active
    <2>8. StandInLine'
      <3>1. SUFFICES ASSUME NEW d \in Clients, Active(d)', ~waiter'[d].complete
                     PROVE  Alive(d)' /\ \E i \in DOMAIN token_waiters'[Token[d]].waiters :
                                             token_waiters'[Token[d]].waiters[i] = d
        BY DEF StandInLine, LineOf
      <3>2. CASE d = c
        BY <2>2, <2>3, <2>5, <3>2
      <3>3. CASE d # c
        <4>1. Alive(d) /\ \E i \in DOMAIN LineOf(Token[d]) : LineOf(Token[d])[i] = d
          BY <1>1, <2>4, <3>1, <3>3 DEF Line, StandInLine
        <4>2. Alive(d)' /\ token_waiters'[Token[d]] = token_waiters[Token[d]]
          BY <2>3, <2>4, <3>3, <4>1 DEF Alive
        <4> QED BY <4>1, <4>2 DEF LineOf
      <3> QED BY <3>2, <3>3
    <2>9. HandlesAreHeld'
      BY <1>1, <1>3, <2>4, <2>5 DEF Line, HandlesAreHeld
    <2>10. ResultsAreAwaited'
      BY <1>1, <2>1, <2>3 DEF Line, ResultsAreAwaited, LineOf
    <2>11. ResultsAreMaps'
      <3>1. NoResults = [p \in DOMAIN NoResults |-> NoResults[p]]
        BY DEF NoResults
      <3> QED BY <2>1, <2>3, <3>1 DEF Line, ResultsAreMaps
    <2>12. NothingLeftBehind'
      BY <1>3, <2>3 DEF Line, NothingLeftBehind
    <2>13. AppendedAt'
      BY <1>1, <1>3 DEF Line, AppendedAt
    <2> QED BY <2>7, <2>8, <2>9, <2>10, <2>11, <2>12, <2>13 DEF Line
  <1> QED BY <1>5, <1>6

\* An append tells the log and the client the same position.
LEMMA AppendLine ==
  ASSUME IInv, Line,
         (\E c \in Clients : AppendIntention(c)) \/ (\E o \in Others : AppendOther(o)),
         TokensApart
  PROVE  Line'
PROOF
  <1>0. /\ log \in Seq(Clients \cup Others) /\ Len(log) \in Nat
        /\ pc \in [Clients -> {"begin", "registered", "appended", "waiting", "returned", "undefined"}]
        /\ at \in [Clients -> Nat]
    BY DEF IInv, TypeOK
  <1>1. CASE \E o \in Others : AppendOther(o)
    <2>1. PICK o \in Others : AppendOther(o)
      BY <1>1
    <2>2. /\ log' = Append(log, o)
          /\ UNCHANGED <<decisions, token_waiters, pc, at, waiter, token_it, signalled, answer>>
      BY <2>1 DEF AppendOther
    <2>3. o \notin Clients
      BY DEF TokensApart
    <2>4. /\ DOMAIN log' = DOMAIN log \cup {Len(log) + 1} /\ log'[Len(log) + 1] = o
          /\ \A p \in DOMAIN log : log'[p] = log[p]
      BY <1>0, <2>2, AppendProperties
    <2>5. AppendedAt'
      BY <2>2, <2>3, <2>4 DEF Line, AppendedAt
    <2>6. LineIsRight' /\ StandInLine' /\ ResultsAreAwaited' /\ ResultsAreMaps'
      BY <2>2 DEF Line, LineIsRight, StandInLine, ResultsAreAwaited, ResultsAreMaps,
                  LineOf, Active, Alive
    <2>7. HandlesAreHeld' /\ NothingLeftBehind'
      BY <2>2 DEF Line, HandlesAreHeld, NothingLeftBehind, Active, Alive
    <2> QED BY <2>5, <2>6, <2>7 DEF Line
  <1>2. ASSUME NEW c \in Clients, AppendIntention(c)  PROVE Line'
    <2>1. /\ pc[c] = "registered" /\ pc' = [pc EXCEPT ![c] = "appended"]
          /\ at' = [at EXCEPT ![c] = Len(log) + 1]
          /\ log' = Append(log, c)
          /\ UNCHANGED <<decisions, token_waiters, waiter, token_it, signalled, answer>>
      BY <1>2 DEF AppendIntention
    <2>2. /\ DOMAIN log' = DOMAIN log \cup {Len(log) + 1} /\ log'[Len(log) + 1] = c
          /\ \A p \in DOMAIN log : log'[p] = log[p]
      BY <1>0, <2>1, AppendProperties
    <2>3. /\ pc'[c] = "appended" /\ at'[c] = Len(log) + 1
          /\ \A d \in Clients \ {c} : pc'[d] = pc[d] /\ at'[d] = at[d]
      BY <1>0, <2>1
    <2>4. AppendedAt'
      BY <2>1, <2>2, <2>3 DEF Line, AppendedAt
    <2>5. \A d \in Clients : Active(d)' = Active(d) /\ Alive(d)' = Alive(d)
      BY <2>1, <2>3 DEF Active, ActiveStates, Alive
    <2>6. \A u \in DOMAIN token_waiters : LineOf(u)' = LineOf(u)
      BY <2>1 DEF LineOf
    <2>7. \A u \in DOMAIN token_waiters : \A i \in DOMAIN LineOf(u) : LineOf(u)[i] \in Clients
      <3>1. TAKE u \in DOMAIN token_waiters
      <3>2. LineOf(u) \in Seq(Clients)
        BY DEF IInv, TypeOK, Rendezvous, LineOf
      <3> QED BY <3>2, ElementOfSeq
    <2>8. LineIsRight'
      <3>1. \A u \in DOMAIN token_waiters : \A i \in DOMAIN LineOf(u) : pc'[LineOf(u)[i]] \in ActiveStates
        BY <2>3, <2>7 DEF Line, LineIsRight, Active, ActiveStates
      <3> QED BY <2>1, <2>6, <3>1 DEF Line, LineIsRight, Active
    <2>9. StandInLine' /\ HandlesAreHeld'
      <3>1. StandInLine'
        BY <2>1, <2>5 DEF Line, StandInLine, LineOf
      <3>2. HandlesAreHeld'
        BY <2>1, <2>3, <2>5 DEF Line, HandlesAreHeld
      <3> QED BY <3>1, <3>2
    <2>10. ResultsAreAwaited'
      <3>1. \A u \in DOMAIN token_waiters : \A p \in DOMAIN token_waiters[u].results : p \in DOMAIN decisions /\ p # 0
        <4>1. decisions \in Seq(BOOLEAN)
          BY DEF IInv, TypeOK
        <4> QED BY <4>1 DEF IInv, TypeOK, Rendezvous
      <3>2. at[c] = 0
        BY <2>1 DEF IInv, WaiterPositions
      <3>3. SUFFICES ASSUME NEW u \in DOMAIN token_waiters, NEW p \in DOMAIN token_waiters[u].results
                     PROVE  \E i \in DOMAIN LineOf(u) : at'[LineOf(u)[i]] = p
        BY <2>1, <2>6 DEF ResultsAreAwaited
      <3>4. PICK i \in DOMAIN LineOf(u) : at[LineOf(u)[i]] = p
        BY DEF Line, ResultsAreAwaited
      <3>5. at'[LineOf(u)[i]] = p
        BY <2>3, <2>7, <3>1, <3>2, <3>4
      <3> QED BY <3>5
    <2>11. ResultsAreMaps' /\ NothingLeftBehind'
      <3>1. ResultsAreMaps'
        BY <2>1 DEF Line, ResultsAreMaps
      <3>2. NothingLeftBehind'
        BY <2>1, <2>3 DEF Line, NothingLeftBehind
      <3> QED BY <3>1, <3>2
    <2> QED BY <2>4, <2>8, <2>9, <2>10, <2>11 DEF Line
  <1> QED BY <1>1, <1>2

\* The lines hold clients.
LEMMA LineOfClients ==
  ASSUME TypeOK, NEW t \in DOMAIN token_waiters
  PROVE  LineOf(t) \in Seq(Clients) /\ \A i \in DOMAIN LineOf(t) : LineOf(t)[i] \in Clients
PROOF
  <1>1. LineOf(t) \in Seq(Clients)
    BY DEF TypeOK, Rendezvous, LineOf
  <1> QED BY <1>1, ElementOfSeq

\* What a client that returns leaves in the table: the line without itself, and the
\* results without its own.
LeftBy(c, e) ==
    LET t == Token[c]
    IN  /\ e.by = token_waiters[t].by
        /\ e.waiters \in Seq(Clients)
        /\ \A k \in DOMAIN e.waiters :
               e.waiters[k] # c /\ \E i \in DOMAIN LineOf(t) : LineOf(t)[i] = e.waiters[k]
        /\ \A i \in DOMAIN LineOf(t) : LineOf(t)[i] # c =>
               \E k \in DOMAIN e.waiters : e.waiters[k] = LineOf(t)[i]
        /\ \A j, k \in DOMAIN e.waiters : e.waiters[j] = e.waiters[k] => j = k
        /\ e.results = [p \in DOMAIN e.results |-> e.results[p]]
        /\ DOMAIN e.results \subseteq DOMAIN token_waiters[t].results \ {at[c]}

\* The last client in line erases the entry; before that, somebody is in line.
LEMMA ReturnLine ==
  ASSUME IInv, Line, NEW c \in Clients, pc[c] \in {"appended", "waiting"}, Alive(c),
         NEW b, NEW e, LeftBy(c, e), Return(c, b, e),
         \A d \in Clients : waiter'[d].complete = waiter[d].complete,
         UNCHANGED <<log, at, token_it>>
  PROVE  Line'
PROOF
  <1> DEFINE t == Token[c]
             w == LineOf(t)
  <1>1. /\ t \in DOMAIN token_waiters /\ token_waiters[t].by = token_it[c]
        /\ w = token_waiters[t].waiters
    BY DEF Alive, LineOf
  <1>2. /\ e.by = token_waiters[t].by
        /\ e.waiters \in Seq(Clients)
        /\ \A k \in DOMAIN e.waiters : e.waiters[k] # c /\ \E i \in DOMAIN w : w[i] = e.waiters[k]
        /\ \A i \in DOMAIN w : w[i] # c => \E k \in DOMAIN e.waiters : e.waiters[k] = w[i]
        /\ \A j, k \in DOMAIN e.waiters : e.waiters[j] = e.waiters[k] => j = k
        /\ e.results = [p \in DOMAIN e.results |-> e.results[p]]
        /\ DOMAIN e.results \subseteq DOMAIN token_waiters[t].results \ {at[c]}
    BY DEF LeftBy
  <1>3. pc \in [Clients -> {"begin", "registered", "appended", "waiting", "returned", "undefined"}]
    BY DEF IInv, TypeOK
  <1>4. /\ pc'[c] = "returned" /\ \A d \in Clients \ {c} : pc'[d] = pc[d]
        /\ Active(c)
    BY <1>3 DEF Return, Active, ActiveStates
  <1>5. /\ ~Active(c)'
        /\ \A d \in Clients \ {c} : Active(d)' = Active(d)
    BY <1>4 DEF Active, ActiveStates
  <1>6. \A u \in DOMAIN token_waiters : \A i \in DOMAIN LineOf(u) :
            /\ LineOf(u)[i] \in Clients /\ Token[LineOf(u)[i]] = u
            /\ Active(LineOf(u)[i]) /\ ~waiter[LineOf(u)[i]].complete
    BY LineOfClients DEF IInv, Line, LineIsRight
  <1>7. AppendedAt'
    BY <1>4 DEF Line, AppendedAt
  <1>8. \A u \in DOMAIN token_waiters \ {t} : \A i \in DOMAIN LineOf(u) :
            pc'[LineOf(u)[i]] \in ActiveStates /\ ~waiter'[LineOf(u)[i]].complete
    BY <1>4, <1>6 DEF Active
  <1>9. CASE e.waiters = <<>> /\ e.results = NoResults
    <2>1. token_waiters' = Without(token_waiters, t)
      BY <1>9 DEF Return, Released
    <2>2. /\ DOMAIN token_waiters' = DOMAIN token_waiters \ {t}
          /\ \A u \in DOMAIN token_waiters' : token_waiters'[u] = token_waiters[u]
      BY <2>1 DEF Without
    <2>3. \A i \in DOMAIN w : w[i] = c
      BY <1>2, <1>9
    <2>4. \A d \in Clients \ {c} : Active(d) /\ ~waiter[d].complete => Token[d] # t
      BY <2>3 DEF Line, StandInLine
    <2>5. \A d \in Clients : Alive(d) => Alive(d)' \/ Token[d] = t
      BY <2>2 DEF Alive
    <2>6. LineIsRight'
      BY <1>6, <1>8, <2>2 DEF Line, LineIsRight, LineOf, Active
    <2>7. StandInLine'
      <3>1. SUFFICES ASSUME NEW d \in Clients, Active(d)', ~waiter'[d].complete
                     PROVE  Alive(d)' /\ \E i \in DOMAIN token_waiters'[Token[d]].waiters :
                                             token_waiters'[Token[d]].waiters[i] = d
        BY DEF StandInLine, LineOf
      <3>2. d # c /\ Active(d) /\ ~waiter[d].complete
        BY <1>5, <3>1
      <3>3. Alive(d) /\ \E i \in DOMAIN LineOf(Token[d]) : LineOf(Token[d])[i] = d
        BY <3>2 DEF Line, StandInLine
      <3>4. Alive(d)' /\ token_waiters'[Token[d]] = token_waiters[Token[d]]
        BY <2>2, <2>4, <2>5, <3>2, <3>3 DEF Alive
      <3> QED BY <3>3, <3>4 DEF LineOf
    <2>8. HandlesAreHeld'
      <3>1. SUFFICES ASSUME NEW d \in Clients
                     PROVE  \/ pc'[d] # "undefined" /\ (Active(d)' => Alive(d)')
                            \/ waiter'[d].complete /\ \E x \in Clients \ {d} : Token[x] = Token[d]
        BY DEF HandlesAreHeld
      <3>2. CASE d = c
        BY <1>4, <1>5, <3>2
      <3>3. CASE d # c /\ Token[d] = t
        <4>1. waiter[d].complete => waiter'[d].complete /\ \E x \in Clients \ {d} : Token[x] = Token[d]
          BY <3>3
        <4>2. Active(d) => waiter[d].complete
          BY <2>4, <3>3
        <4> QED BY <1>4, <1>5, <3>3, <4>1, <4>2 DEF Line, HandlesAreHeld
      <3>4. CASE d # c /\ Token[d] # t
        BY <1>4, <1>5, <2>5, <3>4 DEF Line, HandlesAreHeld
      <3> QED BY <3>2, <3>3, <3>4
    <2>9. ResultsAreAwaited' /\ ResultsAreMaps'
      BY <2>2 DEF Line, ResultsAreAwaited, ResultsAreMaps, LineOf
    <2>10. NothingLeftBehind'
      BY <1>4, <2>2 DEF Line, NothingLeftBehind
    <2> QED BY <1>7, <2>6, <2>7, <2>8, <2>9, <2>10 DEF Line
  <1>10. CASE ~(e.waiters = <<>> /\ e.results = NoResults)
    <2>1. token_waiters' = With(token_waiters, t, e)
      BY <1>10 DEF Return, Released
    <2>2. /\ DOMAIN token_waiters' = DOMAIN token_waiters /\ token_waiters'[t] = e
          /\ \A u \in DOMAIN token_waiters \ {t} : token_waiters'[u] = token_waiters[u]
      BY <1>1, <2>1 DEF With
    <2>3. \A p \in DOMAIN e.results : \E k \in DOMAIN e.waiters : at[e.waiters[k]] = p
      <3>1. TAKE p \in DOMAIN e.results
      <3>2. p \in DOMAIN token_waiters[t].results /\ p # at[c]
        BY <1>2
      <3>3. PICK i \in DOMAIN w : at[w[i]] = p
        BY <1>1, <3>2 DEF Line, ResultsAreAwaited
      <3>4. PICK k \in DOMAIN e.waiters : e.waiters[k] = w[i]
        BY <1>2, <3>2, <3>3
      <3> QED BY <3>3, <3>4
    <2>4. \E k \in DOMAIN e.waiters : TRUE
      <3>1. CASE e.waiters = <<>>
        <4>1. DOMAIN e.results # {}
          BY <1>2, <1>10, <3>1 DEF NoResults
        <4> QED BY <2>3, <4>1
      <3>2. CASE e.waiters # <<>>
        <4>1. 1 \in DOMAIN e.waiters
          BY <1>2, <3>2
        <4> QED BY <4>1
      <3> QED BY <3>1, <3>2
    <2>5. \A k \in DOMAIN e.waiters :
              /\ e.waiters[k] \in Clients \ {c} /\ Token[e.waiters[k]] = t
              /\ pc'[e.waiters[k]] \in ActiveStates /\ ~waiter'[e.waiters[k]].complete
      <3>1. TAKE k \in DOMAIN e.waiters
      <3>2. PICK i \in DOMAIN w : w[i] = e.waiters[k]
        BY <1>2
      <3>3. /\ w[i] \in Clients /\ w[i] # c /\ Token[w[i]] = t
            /\ Active(w[i]) /\ ~waiter[w[i]].complete
        BY <1>1, <1>2, <1>6, <3>2
      <3> QED BY <1>4, <3>2, <3>3 DEF Active
    <2>6. \A d \in Clients : Alive(d) => Alive(d)'
      BY <1>2, <2>2 DEF Alive
    <2>7. LineIsRight'
      <3>1. SUFFICES ASSUME NEW u \in DOMAIN token_waiters'
                     PROVE  /\ \A i \in DOMAIN token_waiters'[u].waiters :
                                   /\ Token[token_waiters'[u].waiters[i]] = u
                                   /\ pc'[token_waiters'[u].waiters[i]] \in ActiveStates
                                   /\ ~waiter'[token_waiters'[u].waiters[i]].complete
                            /\ \A i, j \in DOMAIN token_waiters'[u].waiters :
                                   token_waiters'[u].waiters[i] = token_waiters'[u].waiters[j] => i = j
        BY DEF LineIsRight, LineOf, Active
      <3>2. CASE u = t
        <4> HIDE DEF t
        <4> QED BY <1>2, <2>2, <2>5, <3>2
      <3>3. CASE u # t
        <4>1. token_waiters'[u] = token_waiters[u] /\ u \in DOMAIN token_waiters \ {t}
          BY <2>2, <3>3
        <4> QED BY <1>6, <1>8, <4>1 DEF Line, LineIsRight, LineOf
      <3> QED BY <3>2, <3>3
    <2>8. StandInLine'
      <3>1. SUFFICES ASSUME NEW d \in Clients, Active(d)', ~waiter'[d].complete
                     PROVE  Alive(d)' /\ \E i \in DOMAIN token_waiters'[Token[d]].waiters :
                                             token_waiters'[Token[d]].waiters[i] = d
        BY DEF StandInLine, LineOf
      <3>2. d # c /\ Active(d) /\ ~waiter[d].complete
        BY <1>5, <3>1
      <3>3. Alive(d) /\ \E i \in DOMAIN LineOf(Token[d]) : LineOf(Token[d])[i] = d
        BY <3>2 DEF Line, StandInLine
      <3>4. CASE Token[d] = t
        BY <1>2, <2>2, <2>6, <3>2, <3>3, <3>4
      <3>5. CASE Token[d] # t
        <4>1. token_waiters'[Token[d]] = token_waiters[Token[d]]
          BY <2>2, <3>3, <3>5 DEF Alive
        <4> QED BY <2>6, <3>3, <4>1 DEF LineOf
      <3> QED BY <3>4, <3>5
    <2>9. HandlesAreHeld'
      BY <1>4, <1>5, <2>6 DEF Line, HandlesAreHeld
    <2>10. ResultsAreAwaited'
      <3>1. \A u \in DOMAIN token_waiters \ {t} : \A p \in DOMAIN token_waiters'[u].results :
                \E i \in DOMAIN token_waiters'[u].waiters : at'[token_waiters'[u].waiters[i]] = p
        BY <2>2 DEF Line, ResultsAreAwaited, LineOf
      <3>2. \A p \in DOMAIN token_waiters'[t].results :
                \E i \in DOMAIN token_waiters'[t].waiters : at'[token_waiters'[t].waiters[i]] = p
        BY <2>2, <2>3
      <3> QED BY <2>2, <3>1, <3>2 DEF ResultsAreAwaited, LineOf
    <2>11. ResultsAreMaps'
      <3>1. token_waiters'[t].results =
                [p \in DOMAIN token_waiters'[t].results |-> token_waiters'[t].results[p]]
        BY <1>2, <2>2
      <3>2. \A u \in DOMAIN token_waiters \ {t} : token_waiters'[u].results =
                [p \in DOMAIN token_waiters'[u].results |-> token_waiters'[u].results[p]]
        BY <2>2 DEF Line, ResultsAreMaps
      <3> QED BY <2>2, <3>1, <3>2 DEF ResultsAreMaps
    <2>12. NothingLeftBehind'
      <3>1. SUFFICES ASSUME NEW u \in DOMAIN token_waiters'
                     PROVE  \E d \in Clients : Token[d] = u /\ pc'[d] \notin {"begin", "returned"}
        BY DEF NothingLeftBehind
      <3>2. CASE u = t
        <4>1. PICK k \in DOMAIN e.waiters : TRUE
          BY <2>4
        <4>2. /\ e.waiters[k] \in Clients /\ Token[e.waiters[k]] = u
              /\ pc'[e.waiters[k]] \notin {"begin", "returned"}
          BY <2>5, <3>2 DEF ActiveStates
        <4> QED BY <4>2
      <3>3. CASE u # t
        BY <1>4, <2>2, <3>3 DEF Line, NothingLeftBehind
      <3> QED BY <3>2, <3>3
    <2> QED BY <1>7, <2>7, <2>8, <2>9, <2>10, <2>11, <2>12 DEF Line
  <1> QED BY <1>9, <1>10

\* A turn of the loop of WaitOnTransaction.
LEMMA WaitLine ==
  ASSUME IInv, Line, NEW c \in Clients, WaitOnTransaction(c) \/ Wakes(c)
  PROVE  Line'
PROOF
  <1> DEFINE t == Token[c]
             r == token_waiters[t]
             rest(i) == [by |-> r.by, waiters |-> RemoveAt(r.waiters, i),
                         results |-> Without(r.results, at[c])]
  <1>1. /\ pc[c] \in {"appended", "waiting"}
        /\ Look(c)
        /\ UNCHANGED <<log, decisions, at, token_it>>
        /\ waiter' = waiter \/ waiter' = [waiter EXCEPT ![c].pos = at[c]]
    BY DEF WaitOnTransaction, Wakes
  <1>2. /\ pc \in [Clients -> {"begin", "registered", "appended", "waiting", "returned", "undefined"}]
        /\ waiter \in [Clients -> [complete : BOOLEAN, committed : BOOLEAN, pos : Nat]]
    BY DEF IInv, TypeOK
  <1>3. \A d \in Clients : waiter'[d].complete = waiter[d].complete
    BY <1>1, <1>2
  <1>4. Active(c)
    BY <1>1 DEF Active, ActiveStates
  <1>5. ASSUME UNCHANGED token_waiters, NEW x \in {"waiting", "undefined"},
               pc' = [pc EXCEPT ![c] = x],
               x = "undefined" => ~Alive(c), x = "waiting" => Alive(c)
        PROVE  Line'
    <2>1. pc'[c] = x /\ \A d \in Clients \ {c} : pc'[d] = pc[d]
      BY <1>2, <1>5
    <2>2. \A d \in Clients : Alive(d)' = Alive(d)
      BY <1>1, <1>5 DEF Alive
    <2>3. x = "undefined" => waiter[c].complete
      BY <1>4, <1>5 DEF Line, StandInLine
    <2>4. \A u \in DOMAIN token_waiters : \A i \in DOMAIN LineOf(u) :
              /\ LineOf(u)[i] \in Clients /\ Token[LineOf(u)[i]] = u
              /\ Active(LineOf(u)[i]) /\ ~waiter[LineOf(u)[i]].complete
      BY LineOfClients DEF IInv, Line, LineIsRight
    <2>5. \A u \in DOMAIN token_waiters : \A i \in DOMAIN LineOf(u) :
              pc'[LineOf(u)[i]] \in ActiveStates /\ ~waiter'[LineOf(u)[i]].complete
      BY <1>3, <2>1, <2>3, <2>4 DEF Active, ActiveStates
    <2>6. \A u \in DOMAIN token_waiters : LineOf(u)' = LineOf(u)
      BY <1>5 DEF LineOf
    <2>7. LineIsRight'
      BY <1>5, <2>4, <2>5, <2>6 DEF Line, LineIsRight, Active
    <2>8. \A d \in Clients : Active(d)' => Active(d)
      BY <1>4, <2>1 DEF Active
    <2>9. StandInLine'
      BY <1>3, <1>5, <2>2, <2>8 DEF Line, StandInLine, LineOf
    <2>10. HandlesAreHeld'
      BY <1>3, <1>4, <1>5, <2>1, <2>2, <2>8 DEF Line, HandlesAreHeld
    <2>11. ResultsAreAwaited' /\ ResultsAreMaps'
      BY <1>1, <1>5 DEF Line, ResultsAreAwaited, ResultsAreMaps, LineOf
    <2>12. NothingLeftBehind'
      BY <1>5, <2>1 DEF Line, NothingLeftBehind
    <2>13. AppendedAt'
      BY <1>1, <2>1 DEF Line, AppendedAt
    <2> QED BY <2>7, <2>9, <2>10, <2>11, <2>12, <2>13 DEF Line
  <1>6. ASSUME Alive(c)
        PROVE  /\ t \in DOMAIN token_waiters /\ r.waiters = LineOf(t) /\ LineOf(t) \in Seq(Clients)
               /\ \A j, k \in DOMAIN LineOf(t) : LineOf(t)[j] = LineOf(t)[k] => j = k
    <2>1. t \in DOMAIN token_waiters /\ r.waiters = LineOf(t)
      BY <1>6 DEF Alive, LineOf
    <2>2. LineOf(t) \in Seq(Clients)
      BY <2>1, LineOfClients DEF IInv
    <2> QED BY <2>1, <2>2 DEF Line, LineIsRight
  <1>7. CASE ~Alive(c) /\ Undefined(c)
    BY <1>5, <1>7 DEF Undefined
  <1>8. CASE Alive(c) /\ waiter[c].complete /\ Return(c, waiter[c].committed, r)
    <2>1. \A i \in DOMAIN LineOf(t) : LineOf(t)[i] # c
      BY <1>6, <1>8 DEF Line, LineIsRight
    <2>2. at[c] \notin DOMAIN r.results
      <3>1. SUFFICES ASSUME at[c] \in DOMAIN r.results PROVE FALSE
        OBVIOUS
      <3>2. PICK i \in DOMAIN LineOf(t) : at[LineOf(t)[i]] = at[c]
        BY <1>6, <1>8, <3>1 DEF Line, ResultsAreAwaited
      <3>3. LineOf(t)[i] \in Clients
        BY <1>6, <1>8, LineOfClients DEF IInv
      <3>4. pc[LineOf(t)[i]] \notin {"begin", "registered"}
        <4>1. at[c] # 0
          <5>1. at[c] \in DOMAIN log /\ log \in Seq(Clients \cup Others)
            BY <1>1 DEF Line, AppendedAt, IInv, TypeOK
          <5> QED BY <5>1
        <4> QED BY <3>2, <3>3, <4>1 DEF IInv, WaiterPositions
      <3>5. log[at[c]] = c /\ log[at[LineOf(t)[i]]] = LineOf(t)[i]
        BY <1>1, <3>3, <3>4 DEF Line, AppendedAt
      <3> QED BY <2>1, <3>2, <3>5
    <2>3. r.results = [p \in DOMAIN r.results |-> r.results[p]]
      BY <1>6, <1>8 DEF Line, ResultsAreMaps
    <2>4. LeftBy(c, r)
      BY <1>6, <1>8, <2>1, <2>2, <2>3 DEF LeftBy
    <2> HIDE DEF r
    <2> QED BY <1>1, <1>3, <1>8, <2>4, ReturnLine
  <1>9. ASSUME Alive(c), NEW i \in DOMAIN r.waiters, r.waiters[i] = c,
               Return(c, r.results[at[c]], rest(i))
        PROVE  Line'
    <2> DEFINE q == RemoveAt(LineOf(t), i)
               e == rest(i)
    <2>1. /\ q \in Seq(Clients)
          /\ \A k \in DOMAIN q : q[k] # c /\ \E j \in DOMAIN LineOf(t) : LineOf(t)[j] = q[k]
          /\ \A j \in DOMAIN LineOf(t) : LineOf(t)[j] # c =>
                \E k \in DOMAIN q : q[k] = LineOf(t)[j]
          /\ \A j, k \in DOMAIN q : q[j] = q[k] => j = k
      <3> HIDE DEF t
      <3>1. i \in DOMAIN LineOf(t) /\ LineOf(t)[i] = c
        BY <1>6, <1>9
      <3>2. LineOf(t) \in Seq(Clients) /\ \A j, k \in DOMAIN LineOf(t) : LineOf(t)[j] = LineOf(t)[k] => j = k
        BY <1>6, <1>9
      <3> DEFINE s == LineOf(t)
      <3> HIDE DEF s
      <3>3. /\ RemoveAt(s, i) \in Seq(Clients)
            /\ \A k \in DOMAIN RemoveAt(s, i) :
                   RemoveAt(s, i)[k] # s[i] /\ \E j \in DOMAIN s : s[j] = RemoveAt(s, i)[k]
            /\ \A j \in DOMAIN s : s[j] # s[i] =>
                   \E k \in DOMAIN RemoveAt(s, i) : RemoveAt(s, i)[k] = s[j]
            /\ \A j, k \in DOMAIN RemoveAt(s, i) :
                   RemoveAt(s, i)[j] = RemoveAt(s, i)[k] => j = k
        BY <3>1, <3>2, RemoveFacts DEF s
      <3> QED BY <3>1, <3>3 DEF s
    <2>2. e.by = r.by /\ e.waiters = q /\ e.results = Without(r.results, at[c])
      BY <1>6, <1>9
    <2>3. /\ DOMAIN e.results = DOMAIN r.results \ {at[c]}
          /\ e.results = [p \in DOMAIN e.results |-> e.results[p]]
      BY <2>2 DEF Without
    <2>4. LeftBy(c, e)
      <3> HIDE DEF e, q
      <3> QED BY <2>1, <2>2, <2>3 DEF LeftBy
    <2> HIDE DEF e
    <2>5. Return(c, r.results[at[c]], e)
      BY <1>9 DEF e
    <2> QED BY <1>1, <1>3, <1>9, <2>4, <2>5, ReturnLine
  <1>10. CASE Alive(c) /\ pc' = [pc EXCEPT ![c] = "waiting"] /\ UNCHANGED token_waiters
    BY <1>5, <1>10
  <1> HIDE DEF rest, r
  <1> QED BY <1>1, <1>7, <1>8, <1>9, <1>10 DEF Look, rest, r

\* Whose intention is decided next under a token in the table is in line.
LEMMA NextInLine ==
  ASSUME IInv, Line, TokensApart, Here <= Len(log),
         Token[log[Here]] \in DOMAIN token_waiters
  PROVE  /\ Here \notin DOMAIN decisions
         /\ log[Here] \in Clients /\ at[log[Here]] = Here
         /\ \E i \in DOMAIN LineOf(Token[log[Here]]) : LineOf(Token[log[Here]])[i] = log[Here]
PROOF
  <1> DEFINE d == log[Here]
  <1>1. /\ decisions \in Seq(BOOLEAN) /\ log \in Seq(Clients \cup Others)
        /\ Here \in 1..Len(log) /\ Here \notin DOMAIN decisions
    BY DEF IInv, TypeOK, Here
  <1>2. d \in Clients \cup Others
    BY <1>1, ElementOfSeq
  <1> HIDE DEF d
  <1>3. d \in Clients
    <2>1. PICK c \in Clients : Token[c] = Token[d]
      BY DEF Line, NothingLeftBehind, d
    <2> QED BY <1>2, <2>1 DEF TokensApart
  <1>4. at[d] = Here /\ pc[d] \notin {"begin", "registered"}
    BY <1>1, <1>3 DEF Line, AppendedAt, d
  <1>5. ~waiter[d].complete /\ pc[d] # "returned"
    BY <1>1, <1>3, <1>4 DEF IInv, WaitersHoldDecisions, OwnDecision
  <1>6. pc[d] # "undefined"
    BY <1>3, <1>5 DEF Line, HandlesAreHeld
  <1>7. Active(d)
    BY <1>3, <1>4, <1>5, <1>6 DEF IInv, TypeOK, Active, ActiveStates
  <1>8. \E i \in DOMAIN LineOf(Token[d]) : LineOf(Token[d])[i] = d
    BY <1>3, <1>5, <1>7 DEF Line, StandInLine
  <1> QED BY <1>1, <1>3, <1>4, <1>8 DEF d

\* The processor completes the first in line or leaves a result for one in line.
LEMMA NotifyLine ==
  ASSUME IInv, Line, TokensApart, NEW b \in BOOLEAN, Notify(b)
  PROVE  Line'
PROOF
  <1> DEFINE t == Token[log[Here]]
             r == token_waiters[t]
             w == LineOf(t)
             fw == Head(w)
  <1>1. Here <= Len(log) /\ UNCHANGED <<log, pc, at, token_it, answer>>
    BY DEF Notify
  <1> HIDE DEF t
  <1>2. AppendedAt'
    BY <1>1 DEF Line, AppendedAt
  <1>3. \A d \in Clients : Active(d)' = Active(d)
    BY <1>1 DEF Active
  <1>4. CASE NotifyNobody(Here, b)
    <2>1. UNCHANGED <<token_waiters, waiter>>
      BY <1>4 DEF NotifyNobody
    <2>2. LineIsRight' /\ StandInLine' /\ ResultsAreAwaited' /\ ResultsAreMaps'
      BY <1>1, <2>1 DEF Line, LineIsRight, StandInLine, ResultsAreAwaited, ResultsAreMaps,
                        LineOf, Active, Alive
    <2>3. HandlesAreHeld' /\ NothingLeftBehind'
      BY <1>1, <2>1 DEF Line, HandlesAreHeld, NothingLeftBehind, Active, Alive
    <2> QED BY <1>2, <2>2, <2>3 DEF Line
  <1>5. ASSUME t \in DOMAIN token_waiters
        PROVE  /\ Rendezvous(r, DOMAIN decisions) /\ w = r.waiters /\ w \in Seq(Clients)
               /\ \A i \in DOMAIN w : w[i] \in Clients
               /\ w # <<>> /\ Here \notin DOMAIN decisions
               /\ \E i \in DOMAIN w : w[i] = log[Here]
               /\ at[log[Here]] = Here
               /\ \A i, j \in DOMAIN w : w[i] = w[j] => i = j
               /\ \A i \in DOMAIN w : Token[w[i]] = t /\ Active(w[i]) /\ ~waiter[w[i]].complete
    <2>1. Rendezvous(r, DOMAIN decisions) /\ w = r.waiters
      BY <1>5 DEF IInv, TypeOK, LineOf
    <2>2. w \in Seq(Clients) /\ \A i \in DOMAIN w : w[i] \in Clients
      BY <1>5, LineOfClients DEF IInv
    <2>3. /\ Here \notin DOMAIN decisions /\ at[log[Here]] = Here
          /\ \E i \in DOMAIN w : w[i] = log[Here]
      BY <1>1, <1>5, NextInLine DEF t
    <2>4. w # <<>>
      BY <2>3
    <2> QED BY <1>5, <2>1, <2>2, <2>3, <2>4 DEF Line, LineIsRight
  <1>6. CASE NotifyFirst(Here, b)
    <2> DEFINE e == [r EXCEPT !.waiters = Tail(@)]
               v == Tail(w)
    <2>1. /\ t \in DOMAIN token_waiters /\ token_waiters' = With(token_waiters, t, e)
          /\ waiter[Head(r.waiters)].pos = Here
          /\ waiter' = [waiter EXCEPT ![Head(r.waiters)].complete = TRUE,
                                      ![Head(r.waiters)].committed = b]
      BY <1>6 DEF NotifyFirst, IsFirst, t
    <2>2. e.by = r.by /\ e.waiters = v /\ e.results = r.results
      BY <1>5, <2>1 DEF Rendezvous
    <2> HIDE DEF e
    <2>3. /\ DOMAIN token_waiters' = DOMAIN token_waiters /\ token_waiters'[t] = e
          /\ \A u \in DOMAIN token_waiters \ {t} : token_waiters'[u] = token_waiters[u]
      BY <2>1 DEF With
    <2>4. fw = w[1] /\ 1 \in DOMAIN w /\ fw \in Clients /\ fw = Head(r.waiters)
      BY <1>5, <2>1
    <2>5. /\ \A k \in DOMAIN v : k + 1 \in DOMAIN w /\ v[k] = w[k + 1] /\ k \in Nat \ {0}
          /\ \A i \in DOMAIN w \ {1} : i - 1 \in DOMAIN v /\ v[i - 1] = w[i]
      BY <1>5, <2>1
    <2>6. /\ \A d \in Clients \ {fw} : waiter'[d] = waiter[d]
          /\ waiter'[fw].complete
      <3>1. waiter \in [Clients -> [complete : BOOLEAN, committed : BOOLEAN, pos : Nat]]
        BY DEF IInv, TypeOK
      <3> HIDE DEF fw
      <3>2. waiter' = [waiter EXCEPT ![fw].complete = TRUE, ![fw].committed = b]
        BY <2>1, <2>4
      <3> QED BY <2>4, <3>1, <3>2
    <2>7. at[fw] = Here
      BY <2>1, <2>4 DEF IInv, WaiterPositions, TypeOK, Here
    <2>8. Active(fw) /\ Token[fw] = t
      BY <1>5, <2>1, <2>4
    <2> HIDE DEF v, fw
    <2>9. \A k \in DOMAIN v : /\ v[k] \in Clients /\ v[k] # fw
                              /\ Token[v[k]] = t /\ pc'[v[k]] \in ActiveStates
                              /\ ~waiter'[v[k]].complete
      <3>1. TAKE k \in DOMAIN v
      <3>2. k + 1 \in DOMAIN w /\ v[k] = w[k + 1] /\ k + 1 # 1
        BY <2>5
      <3>3. v[k] \in Clients /\ v[k] # fw /\ Token[v[k]] = t /\ Active(v[k]) /\ ~waiter[v[k]].complete
        BY <1>5, <2>1, <2>4, <3>2
      <3> QED BY <1>1, <2>6, <3>3 DEF Active
    <2>10. \A j, k \in DOMAIN v : v[j] = v[k] => j = k
      <3>1. TAKE j, k \in DOMAIN v
      <3>2. v[j] = w[j + 1] /\ v[k] = w[k + 1] /\ j + 1 \in DOMAIN w /\ k + 1 \in DOMAIN w
        BY <2>5
      <3>3. v[j] = v[k] => j + 1 = k + 1
        BY <1>5, <2>1, <3>2
      <3>4. j \in Nat /\ k \in Nat
        BY <2>5
      <3> QED BY <3>3, <3>4
    <2>11. \A i \in DOMAIN w : w[i] # fw => \E k \in DOMAIN v : v[k] = w[i]
      <3>1. TAKE i \in DOMAIN w
      <3>2. CASE i = 1
        BY <2>4, <3>2
      <3>3. CASE i # 1
        BY <2>5, <3>3
      <3> QED BY <3>2, <3>3
    <2>12. \A d \in Clients : Alive(d)' = Alive(d)
      BY <1>1, <2>1, <2>2, <2>3 DEF Alive
    <2>13. \A u \in DOMAIN token_waiters \ {t} : \A i \in DOMAIN LineOf(u) :
               /\ Token[LineOf(u)[i]] = u /\ pc'[LineOf(u)[i]] \in ActiveStates
               /\ ~waiter'[LineOf(u)[i]].complete
      <3>1. TAKE u \in DOMAIN token_waiters \ {t}
      <3>2. TAKE i \in DOMAIN LineOf(u)
      <3>3. LineOf(u)[i] \in Clients
        BY LineOfClients DEF IInv
      <3>4. Token[LineOf(u)[i]] = u /\ Active(LineOf(u)[i]) /\ ~waiter[LineOf(u)[i]].complete
        BY DEF Line, LineIsRight
      <3>5. LineOf(u)[i] # fw
        BY <2>8, <3>4
      <3> QED BY <1>1, <2>6, <3>3, <3>4, <3>5 DEF Active
    <2>14. LineIsRight'
      <3>1. SUFFICES ASSUME NEW u \in DOMAIN token_waiters'
                     PROVE  /\ \A i \in DOMAIN token_waiters'[u].waiters :
                                   /\ Token[token_waiters'[u].waiters[i]] = u
                                   /\ pc'[token_waiters'[u].waiters[i]] \in ActiveStates
                                   /\ ~waiter'[token_waiters'[u].waiters[i]].complete
                            /\ \A i, j \in DOMAIN token_waiters'[u].waiters :
                                   token_waiters'[u].waiters[i] = token_waiters'[u].waiters[j] => i = j
        BY DEF LineIsRight, LineOf, Active
      <3>2. CASE u = t
        BY <2>2, <2>3, <2>9, <2>10, <3>2
      <3>3. CASE u # t
        <4>1. token_waiters'[u] = token_waiters[u] /\ u \in DOMAIN token_waiters \ {t}
          BY <2>3, <3>3
        <4> QED BY <2>13, <4>1 DEF Line, LineIsRight, LineOf
      <3> QED BY <3>2, <3>3
    <2>15. StandInLine'
      <3>1. SUFFICES ASSUME NEW d \in Clients, Active(d)', ~waiter'[d].complete
                     PROVE  Alive(d)' /\ \E i \in DOMAIN token_waiters'[Token[d]].waiters :
                                             token_waiters'[Token[d]].waiters[i] = d
        BY DEF StandInLine, LineOf
      <3>2. d # fw /\ Active(d) /\ ~waiter[d].complete
        BY <1>3, <2>6, <3>1
      <3>3. Alive(d) /\ \E i \in DOMAIN LineOf(Token[d]) : LineOf(Token[d])[i] = d
        BY <3>2 DEF Line, StandInLine
      <3>4. CASE Token[d] = t
        BY <2>2, <2>3, <2>11, <2>12, <3>2, <3>3, <3>4
      <3>5. CASE Token[d] # t
        <4>1. token_waiters'[Token[d]] = token_waiters[Token[d]]
          BY <2>3, <3>3, <3>5 DEF Alive
        <4> QED BY <2>12, <3>3, <4>1 DEF LineOf
      <3> QED BY <3>4, <3>5
    <2>16. HandlesAreHeld'
      <3>1. \A d \in Clients : waiter[d].complete => waiter'[d].complete
        BY <2>6
      <3> QED BY <1>1, <1>3, <2>12, <3>1 DEF Line, HandlesAreHeld
    <2>17. ResultsAreAwaited'
      <3>1. \A u \in DOMAIN token_waiters \ {t} : \A p \in DOMAIN token_waiters'[u].results :
                \E i \in DOMAIN token_waiters'[u].waiters : at'[token_waiters'[u].waiters[i]] = p
        BY <1>1, <2>3 DEF Line, ResultsAreAwaited, LineOf
      <3>2. \A p \in DOMAIN e.results : \E k \in DOMAIN v : at[v[k]] = p
        <4>1. TAKE p \in DOMAIN e.results
        <4>2. p # Here
          BY <1>5, <2>1, <2>2 DEF Rendezvous
        <4>3. PICK i \in DOMAIN w : at[w[i]] = p
          BY <2>1, <2>2 DEF Line, ResultsAreAwaited
        <4>4. PICK k \in DOMAIN v : v[k] = w[i]
          BY <2>7, <2>11, <4>2, <4>3
        <4> QED BY <4>3, <4>4
      <3> QED BY <1>1, <2>2, <2>3, <3>1, <3>2 DEF ResultsAreAwaited, LineOf
    <2>18. ResultsAreMaps'
      BY <2>1, <2>2, <2>3 DEF Line, ResultsAreMaps
    <2>19. NothingLeftBehind'
      BY <1>1, <2>3 DEF Line, NothingLeftBehind
    <2> QED BY <1>2, <2>14, <2>15, <2>16, <2>17, <2>18, <2>19 DEF Line
  <1>7. CASE NotifyAll(Here, b)
    <2> DEFINE e == [r EXCEPT !.results = With(@, Here, b)]
    <2>1. /\ t \in DOMAIN token_waiters /\ token_waiters' = With(token_waiters, t, e)
          /\ waiter' = waiter
      BY <1>7 DEF NotifyAll, t
    <2>2. e.by = r.by /\ e.waiters = w /\ e.results = With(r.results, Here, b)
      BY <1>5, <2>1 DEF Rendezvous
    <2> HIDE DEF e
    <2>3. /\ DOMAIN token_waiters' = DOMAIN token_waiters /\ token_waiters'[t] = e
          /\ \A u \in DOMAIN token_waiters \ {t} : token_waiters'[u] = token_waiters[u]
      BY <2>1 DEF With
    <2>4. \A u \in DOMAIN token_waiters : LineOf(u)' = LineOf(u)
      <3>1. TAKE u \in DOMAIN token_waiters
      <3>2. CASE u = t
        BY <2>2, <2>3, <3>2 DEF LineOf
      <3>3. CASE u # t
        BY <2>3, <3>3 DEF LineOf
      <3> QED BY <3>2, <3>3
    <2>5. \A d \in Clients : Alive(d)' = Alive(d)
      BY <1>1, <2>1, <2>2, <2>3 DEF Alive
    <2>6. LineIsRight'
      BY <1>1, <2>1, <2>3, <2>4 DEF Line, LineIsRight, Active
    <2>7. StandInLine'
      <3>1. \A d \in Clients : Alive(d) => LineOf(Token[d])' = LineOf(Token[d])
        BY <2>4 DEF Alive
      <3> QED BY <1>3, <2>1, <2>5, <3>1 DEF Line, StandInLine
    <2>8. HandlesAreHeld'
      BY <1>1, <1>3, <2>1, <2>5 DEF Line, HandlesAreHeld
    <2>9. ResultsAreAwaited'
      <3>1. \A u \in DOMAIN token_waiters \ {t} : \A p \in DOMAIN token_waiters'[u].results :
                \E i \in DOMAIN LineOf(u) : at[LineOf(u)[i]] = p
        BY <2>3 DEF Line, ResultsAreAwaited
      <3>2. \A p \in DOMAIN e.results : \E i \in DOMAIN LineOf(t) : at[LineOf(t)[i]] = p
        <4>1. DOMAIN e.results = DOMAIN r.results \cup {Here}
          BY <2>2 DEF With
        <4>2. \E i \in DOMAIN w : at[w[i]] = Here
          BY <1>5, <2>1
        <4>3. \A p \in DOMAIN r.results : \E i \in DOMAIN w : at[w[i]] = p
          BY <2>1 DEF Line, ResultsAreAwaited
        <4> QED BY <4>1, <4>2, <4>3
      <3>3. \A u \in DOMAIN token_waiters : \A p \in DOMAIN token_waiters'[u].results :
                \E i \in DOMAIN LineOf(u) : at[LineOf(u)[i]] = p
        BY <2>3, <3>1, <3>2
      <3> QED BY <1>1, <2>3, <2>4, <3>3 DEF ResultsAreAwaited
    <2>10. ResultsAreMaps'
      <3>1. e.results = [p \in DOMAIN e.results |-> e.results[p]]
        BY <2>2 DEF With
      <3>2. \A u \in DOMAIN token_waiters \ {t} : token_waiters'[u].results =
                [p \in DOMAIN token_waiters'[u].results |-> token_waiters'[u].results[p]]
        BY <2>3 DEF Line, ResultsAreMaps
      <3> QED BY <2>3, <3>1, <3>2 DEF ResultsAreMaps
    <2>11. NothingLeftBehind'
      BY <1>1, <2>3 DEF Line, NothingLeftBehind
    <2> QED BY <1>2, <2>6, <2>7, <2>8, <2>9, <2>10, <2>11 DEF Line
  <1> QED BY <1>4, <1>6, <1>7 DEF Notify

\* A step that changes nothing keeps everything.
LEMMA StutterLine ==
  ASSUME Line, UNCHANGED vars
  PROVE  Line'
PROOF
  <1>1. AppendedAt' /\ LineIsRight' /\ StandInLine' /\ ResultsAreAwaited' /\ ResultsAreMaps'
    BY DEF vars, Line, AppendedAt, LineIsRight, StandInLine, ResultsAreAwaited, ResultsAreMaps,
           LineOf, Active, Alive
  <1>2. HandlesAreHeld' /\ NothingLeftBehind'
    BY DEF vars, Line, HandlesAreHeld, NothingLeftBehind, Active, Alive
  <1> QED BY <1>1, <1>2 DEF Line

\* The lines, the results and the handles of the rendezvous stay in order when no
\* other instance draws a token of this one's.
THEOREM LineInvariance ==
  ASSUME TokensApart
  PROVE  Spec => []Line
PROOF
  <1>1. Init => Line
    BY InitLine
  <1>2. IInv /\ Line /\ [Next]_vars => Line'
    <2> SUFFICES ASSUME IInv, Line, [Next]_vars PROVE Line'
      OBVIOUS
    <2>1. CASE UNCHANGED vars
      BY <2>1, StutterLine
    <2>2. CASE Next
      BY <2>2, AddLine, AppendLine, WaitLine, NotifyLine DEF Next
    <2> QED BY <2>1, <2>2
  <1> QED BY <1>1, <1>2, FinderInvariance, PTL DEF Spec

\* The assertions of Notify hold: under a token in the table at least one waiter is
\* in line, and the position has no result yet.
THEOREM NotifyIsSafe ==
  ASSUME TokensApart
  PROVE  Spec => []NotifyAssertsHold
PROOF
  <1>1. IInv /\ Line => NotifyAssertsHold
    <2> SUFFICES ASSUME IInv, Line, Here <= Len(log), Token[log[Here]] \in DOMAIN token_waiters
                 PROVE  /\ token_waiters[Token[log[Here]]].waiters # <<>>
                        /\ Here \notin DOMAIN token_waiters[Token[log[Here]]].results
      BY DEF NotifyAssertsHold, NotifyAsserts
    <2>1. /\ Here \notin DOMAIN decisions
          /\ \E i \in DOMAIN LineOf(Token[log[Here]]) : LineOf(Token[log[Here]])[i] = log[Here]
      BY NextInLine
    <2>2. DOMAIN token_waiters[Token[log[Here]]].results \subseteq DOMAIN decisions
      BY DEF IInv, TypeOK, Rendezvous
    <2>3. LineOf(Token[log[Here]]) # <<>>
      BY <2>1
    <2> QED BY <2>1, <2>2, <2>3 DEF LineOf
  <1> QED BY <1>1, FinderInvariance, LineInvariance, PTL

\* WaitOnTransaction erases the entry of a token with its last client, whichever
\* path the client's answer took.
THEOREM TableIsCleaned ==
  ASSUME TokensApart
  PROVE  Spec => []NothingLeftBehind
PROOF
  <1>1. Line => NothingLeftBehind
    BY DEF Line
  <1> QED BY <1>1, LineInvariance, PTL

\* A client whose token is its own never uses its handle after the entry was erased.
THEOREM OwnHandleIsValid ==
  ASSUME TokensApart
  PROVE  Spec => []HandlesStayValid
PROOF
  <1>1. Line => HandlesStayValid
    BY DEF Line, HandlesAreHeld, HandlesStayValid
  <1> QED BY <1>1, LineInvariance, PTL
=============================================================================
