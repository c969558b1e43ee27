----------------------- MODULE ResourceOrderProofs -----------------------
(***************************************************************************)
(* The turn queue's invariants for any number of records and event loops.  *)
(***************************************************************************)
EXTENDS ResourceOrder, FiniteSetTheorems, TLAPS

\* No record appears twice in a list.
Distinct(q) == \A j, k \in DOMAIN q : q[j] = q[k] => j = k

(* Unlinking a record from the list gives a list shorter by one, with the  *)
(* records before it in place and the later ones moved up.                 *)
LEMMA UnlinkLemma ==
    ASSUME NEW S, NEW q \in Seq(S), NEW i \in DOMAIN q
    PROVE  /\ Unlink(q, i) \in Seq(S)
           /\ Len(Unlink(q, i)) = Len(q) - 1
           /\ DOMAIN Unlink(q, i) = 1..(Len(q) - 1)
           /\ \A j \in 1..(Len(q) - 1) :
                 Unlink(q, i)[j] = IF j < i THEN q[j] ELSE q[j + 1]
BY DEF Unlink

\* r is the list q of records of S without its record at position i.
Unlinked(S, q, i, r) ==
    /\ r \in Seq(S) /\ Len(r) = Len(q) - 1
    /\ Distinct(r)
    /\ \A j \in DOMAIN r : r[j] \in S /\ r[j] # q[i]
    /\ \A j \in DOMAIN r : \E k \in DOMAIN q : q[k] = r[j] /\ (j # 1 => k # 1)
    /\ \A k \in DOMAIN q : k # i => \E j \in DOMAIN r : r[j] = q[k]
    /\ i # 1 => r # <<>> /\ r[1] = q[1]

(* Unlinking from a list without repetitions removes exactly that record,  *)
(* and brings no other record to the front but the second.                 *)
LEMMA UnlinkDistinct ==
    ASSUME NEW S, NEW q \in Seq(S), NEW i \in DOMAIN q,
           Distinct(q), NEW r, r = Unlink(q, i)
    PROVE  Unlinked(S, q, i, r)
<1> DEFINE n == Len(q)
<1>1. /\ r \in Seq(S) /\ Len(r) = n - 1 /\ DOMAIN r = 1..(n - 1)
      /\ \A j \in 1..(n - 1) : r[j] = IF j < i THEN q[j] ELSE q[j + 1]
  BY Zenon, UnlinkLemma
<1>2. n = Len(q) /\ n \in Nat /\ DOMAIN q = 1..n /\ i \in 1..n /\ \A k \in 1..n : q[k] \in S
  OBVIOUS
<1> HIDE DEF n
<1>3. \A k \in 1..n : k # i => \E j \in 1..(n - 1) : r[j] = q[k]
  <2> SUFFICES ASSUME NEW k \in 1..n, k # i
               PROVE  \E j \in 1..(n - 1) : r[j] = q[k]
    BY Zenon
  <2>1. CASE k < i
    BY <1>1, <1>2, <2>1
  <2>2. CASE k > i
    <3>1. k - 1 \in 1..(n - 1) /\ ~(k - 1 < i) /\ (k - 1) + 1 = k
      BY <1>2, <2>2
    <3> QED
      BY Zenon, <1>1, <3>1
  <2> QED
    BY <1>2, <2>1, <2>2
<1>4. \A j \in 1..(n - 1) : \E k \in 1..n : q[k] = r[j] /\ k # i /\ (j # 1 => k # 1)
  <2> TAKE j \in 1..(n - 1)
  <2>1. CASE j < i
    BY SMTT(30), <1>1, <1>2, <2>1
  <2>2. CASE ~(j < i)
    <3>1. j + 1 \in 1..n /\ j + 1 # i /\ j + 1 # 1 /\ r[j] = q[j + 1]
      BY <1>1, <1>2, <2>2
    <3> QED
      BY Zenon, <3>1
  <2> QED
    BY Zenon, <2>1, <2>2
<1>5. \A j, k \in 1..(n - 1) : r[j] = r[k] => j = k
  <2> SUFFICES ASSUME NEW j \in 1..(n - 1), NEW k \in 1..(n - 1), r[j] = r[k]
               PROVE  j = k
    BY Zenon
  <2> DEFINE old(x) == IF x < i THEN x ELSE x + 1
  <2>1. \A x, y \in 1..n : q[x] = q[y] => x = y
    BY Zenon, <1>2 DEF Distinct
  <2>2. old(j) \in 1..n /\ old(k) \in 1..n
    BY <1>2
  <2>3. q[old(j)] = q[old(k)]
    BY Zenon, <1>1
  <2>4. old(j) = old(k)
    BY Zenon, <2>1, <2>2, <2>3
  <2> QED
    BY <1>2, <2>4
<1>6. i # 1 => n - 1 > 0 /\ r # <<>> /\ r[1] = q[1]
  BY <1>1, <1>2
<1>7. \A j \in 1..(n - 1) : r[j] \in S /\ r[j] # q[i]
  BY ZenonT(30), <1>2, <1>4 DEF Distinct
<1>8. /\ Distinct(r)
      /\ \A j \in DOMAIN r : r[j] \in S /\ r[j] # q[i]
  BY Zenon, <1>1, <1>5, <1>7 DEF Distinct
<1>9. /\ \A j \in DOMAIN r : \E k \in DOMAIN q : q[k] = r[j] /\ (j # 1 => k # 1)
      /\ \A k \in DOMAIN q : k # i => \E j \in DOMAIN r : r[j] = q[k]
  <2>1. DOMAIN r = 1..(n - 1) /\ DOMAIN q = 1..n
    BY Zenon, <1>1, <1>2
  <2>2. ASSUME NEW j \in DOMAIN r
        PROVE  \E k \in DOMAIN q : q[k] = r[j] /\ (j # 1 => k # 1)
    <3>1. PICK k \in 1..n : q[k] = r[j] /\ (j # 1 => k # 1)
      BY Zenon, <1>4, <2>1
    <3> QED
      BY Zenon, <2>1, <3>1
  <2>3. ASSUME NEW k \in DOMAIN q, k # i
        PROVE  \E j \in DOMAIN r : r[j] = q[k]
    <3>1. PICK j \in 1..(n - 1) : r[j] = q[k]
      BY Zenon, <1>3, <2>1, <2>3
    <3> QED
      BY Zenon, <2>1, <3>1
  <2> QED
    BY Zenon, <2>2, <2>3
<1> QED
  BY Zenon, <1>1, <1>2, <1>6, <1>8, <1>9 DEF Unlinked

(* Joining at the end keeps the queue's invariant. *)
LEMMA BeginStep ==
    ASSUME IndInv, NEW op \in Ops, NEW w \in Wakeups, Begin(op, w)
    PROVE  IndInv'
<1> USE OrderAssumption DEF IndInv, Begin, Free, Wakeups
<1>1. TypeOK'
  <2>1. queue' \in Seq(Ops) /\ state' \in [Ops -> States] /\ wakeup' \in [Ops -> Wakeups]
    BY DEF TypeOK, States
  <2>2. refs' \in [Loops -> Int]
    BY DEF TypeOK, Held
  <2>3. todo' \in [Loops -> SUBSET Ops]
    BY Zenon DEF TypeOK
  <2> QED
    BY Zenon, <2>1, <2>2, <2>3 DEF TypeOK
<1>2. queue' = Append(queue, op) /\ Len(queue') = Len(queue) + 1
      /\ queue'[Len(queue) + 1] = op
      /\ \A i \in DOMAIN queue : queue'[i] = queue[i]
      /\ DOMAIN queue' = DOMAIN queue \cup {Len(queue) + 1}
  BY SMTT(30) DEF TypeOK
<1>3. NoDuplicates'
  BY SMTT(30), <1>2 DEF TypeOK, OrderInv, NoDuplicates, OnlyLinkedAdmitted, Admitted
<1>4. OnlyLinkedAdmitted'
  BY <1>2 DEF TypeOK, OrderInv, OnlyLinkedAdmitted, Admitted
<1>5. OneTurn'
  BY <1>2, <1>3 DEF TypeOK, OrderInv, OneTurn, NoDuplicates, OnlyLinkedAdmitted, Admitted
<1>6. WakeupOwned'
  BY Zenon DEF TypeOK, WakeupOwned, States
<1>7. NoLostWakeup'
  BY ZenonT(30) DEF TypeOK, NoLostWakeup, WakeupOwned
<1> QED
  BY Zenon, <1>1, <1>3, <1>4, <1>5, <1>6, <1>7 DEF OrderInv

(* Looking at a record can only start the one whose turn it is. *)
LEMMA LookStep ==
    ASSUME IndInv, NEW op \in Ops, Look(op)
    PROVE  IndInv'
<1> USE OrderAssumption DEF IndInv, Look, Free
<1>1. TypeOK'
  BY Zenon DEF TypeOK, States
<1>2. OrderInv'
  BY DEF TypeOK, OrderInv, NoDuplicates, OnlyLinkedAdmitted, Admitted, OneTurn
<1>3. WakeupOwned'
  BY Zenon DEF TypeOK, WakeupOwned
<1>4. NoLostWakeup'
  BY ZenonT(30) DEF TypeOK, NoLostWakeup, WakeupOwned
<1> QED
  BY Zenon, <1>1, <1>2, <1>3, <1>4

(* Cancelling a started operation leaves it in its place. *)
LEMMA CancelRunningStep ==
    ASSUME IndInv, NEW op \in Ops, CancelRunning(op)
    PROVE  IndInv'
<1> USE OrderAssumption DEF IndInv, CancelRunning
<1>1. TypeOK'
  BY Zenon DEF TypeOK, States
<1>2. OrderInv'
  BY DEF TypeOK, OrderInv, NoDuplicates, OnlyLinkedAdmitted, Admitted, OneTurn
<1>3. WakeupOwned' /\ NoLostWakeup'
  BY Zenon DEF TypeOK, WakeupOwned, NoLostWakeup
<1> QED
  BY Zenon, <1>1, <1>2, <1>3

(* Retiring a record hands its turn on: the list keeps its order, the new  *)
(* first record becomes ready, and its loop has a signal coming.           *)
LEMMA RetireStep ==
    ASSUME IndInv, NEW op \in Ops, NEW i \in DOMAIN queue, queue[i] = op,
           Free(Owner[op]), Retire(op, i)
    PROVE  IndInv'
<1> USE OrderAssumption DEF IndInv
<1> DEFINE next == IF i = 1 /\ queue' # <<>> THEN wakeup[queue'[1]] ELSE NoLoop
<1>1. queue \in Seq(Ops) /\ queue' = Unlink(queue, i)
      /\ Distinct(queue)
  BY Zenon DEF TypeOK, Retire, OrderInv, NoDuplicates, Distinct
<1>2. /\ queue' \in Seq(Ops) /\ Len(queue') = Len(queue) - 1
      /\ Distinct(queue')
      /\ \A j \in DOMAIN queue' : queue'[j] \in Ops /\ queue'[j] # op
      /\ \A j \in DOMAIN queue' : \E k \in DOMAIN queue :
            queue[k] = queue'[j] /\ (j # 1 => k # 1)
      /\ \A k \in DOMAIN queue : k # i => \E j \in DOMAIN queue' : queue'[j] = queue[k]
      /\ i # 1 => queue' # <<>> /\ queue'[1] = queue[1]
  <2>1. Unlinked(Ops, queue, i, queue')
    BY Zenon, <1>1, UnlinkDistinct
  <2> QED
    BY Zenon, <2>1 DEF Unlinked
<1>3. queue' # <<>> => 1 \in DOMAIN queue'
  BY <1>2
<1>4. /\ state' = [x \in Ops |-> IF x = op THEN "IDLE"
                                  ELSE IF i = 1 /\ queue' # <<>> /\ x = queue'[1] THEN "READY"
                                  ELSE state[x]]
      /\ wakeup' = [wakeup EXCEPT ![op] = NoLoop]
      /\ refs' = [x \in Loops |-> refs[x] + Held(next, x)]
      /\ tail' = [tail EXCEPT ![Owner[op]] = [busy |-> TRUE, next |-> next,
                                              owner |-> wakeup[op]]]
      /\ UNCHANGED <<event, todo, open>>
  BY Zenon, <1>1 DEF Retire
<1> HIDE DEF next
<1>5. TypeOK'
  <2>1. state' \in [Ops -> States] /\ wakeup' \in [Ops -> Wakeups]
    BY Zenon, <1>4 DEF TypeOK, States, Wakeups
  <2>2. refs' \in [Loops -> Int]
    BY <1>4 DEF TypeOK, Held
  <2>3. next \in Wakeups
    BY Zenon, <1>2, <1>3 DEF next, TypeOK, Wakeups
  <2>4. tail' \in [Loops -> Tails]
    BY Zenon, <1>4, <2>3 DEF TypeOK, Tails
  <2> QED
    BY Zenon, <1>2, <1>4, <2>1, <2>2, <2>4 DEF TypeOK
<1>6. NoDuplicates'
  BY Zenon, <1>2 DEF NoDuplicates, Distinct
<1>7. OnlyLinkedAdmitted'
  <2> SUFFICES ASSUME NEW x \in Ops PROVE state'[x] # "IDLE" <=> Admitted(x)'
    BY Zenon DEF OnlyLinkedAdmitted
  <2>1. Admitted(x)' <=> x # op /\ Admitted(x)
    BY SMTT(30), <1>2 DEF Admitted
  <2> QED
    BY Zenon, <1>2, <1>3, <1>4, <2>1 DEF OrderInv, OnlyLinkedAdmitted, Admitted
<1>8. OneTurn'
  <2> SUFFICES ASSUME NEW k \in DOMAIN queue'
               PROVE  state'[queue'[k]] = "QUEUED" <=> k # 1
    BY Zenon DEF OneTurn
  <2>1. CASE k = 1 /\ i = 1
    BY <1>2, <1>4, <2>1
  <2>2. CASE k = 1 /\ i # 1
    <3>1. 1 \in DOMAIN queue /\ queue'[k] = queue[1] /\ queue'[k] \in Ops /\ queue'[k] # op
      BY <1>1, <1>2, <2>2
    <3>2. state'[queue'[k]] = state[queue[1]]
      BY Zenon, <1>4, <2>2, <3>1
    <3> QED
      BY Zenon, <2>2, <3>1, <3>2 DEF OrderInv, OneTurn
  <2>3. CASE k # 1
    <3>1. queue'[k] \in Ops /\ queue'[k] # op /\ queue'[k] # queue'[1]
      BY <1>2, <2>3 DEF Distinct
    <3>2. state'[queue'[k]] = state[queue'[k]]
      BY Zenon, <1>4, <3>1
    <3>3. state[queue'[k]] = "QUEUED"
      BY <1>2, <2>3 DEF OrderInv, OneTurn
    <3> QED
      BY Zenon, <3>2, <3>3, <2>3
  <2> QED
    BY Zenon, <2>1, <2>2, <2>3
<1>9. WakeupOwned'
  BY Zenon, <1>2, <1>3, <1>4 DEF TypeOK, WakeupOwned
<1>10. NoLostWakeup'
  <2> SUFFICES ASSUME NEW x \in Ops, state'[x] = "READY", wakeup'[x] # NoLoop
               PROVE  \/ x \in todo'[Owner[x]]
                      \/ event'[wakeup'[x]]
                      \/ \E l \in Loops : tail'[l].busy /\ tail'[l].next = wakeup'[x]
    BY Zenon DEF NoLostWakeup
  <2>1. x # op /\ wakeup'[x] = wakeup[x] /\ Owner[op] \in Loops
    BY Zenon, <1>4 DEF TypeOK
  <2>2. tail'[Owner[op]].busy /\ tail'[Owner[op]].next = next
    BY Zenon, <1>4, <2>1 DEF TypeOK
  <2>3. CASE i = 1 /\ queue' # <<>> /\ x = queue'[1]
    BY Zenon, <2>1, <2>2, <2>3 DEF next
  <2>4. CASE ~(i = 1 /\ queue' # <<>> /\ x = queue'[1])
    <3>1. state[x] = "READY"
      BY Zenon, <1>4, <2>1, <2>4
    <3>2. \A l \in Loops : tail[l].busy => tail'[l] = tail[l]
      BY Zenon, <1>4 DEF TypeOK, Free
    <3> QED
      BY SMTT(30), <1>4, <2>1, <3>1, <3>2 DEF NoLostWakeup
  <2> QED
    BY Zenon, <2>3, <2>4
<1> QED
  BY Zenon, <1>5, <1>6, <1>7, <1>8, <1>9, <1>10 DEF OrderInv

(* A moved turn keeps its place: only the name of the record changes. *)
LEMMA MoveStep ==
    ASSUME IndInv, NEW from \in Ops, NEW to \in Ops, Move(from, to)
    PROVE  IndInv'
<1> USE OrderAssumption DEF IndInv
<1>1. /\ queue \in Seq(Ops) /\ Distinct(queue) /\ from # to
      /\ queue' = [j \in DOMAIN queue |-> IF queue[j] = from THEN to ELSE queue[j]]
      /\ state' = [state EXCEPT ![to] = state[from], ![from] = "IDLE"]
      /\ wakeup' = [wakeup EXCEPT ![to] = wakeup[from], ![from] = NoLoop]
      /\ state[from] # "IDLE" /\ state[to] = "IDLE" /\ Owner[to] = Owner[from]
  BY Zenon DEF Move, TypeOK, OrderInv, NoDuplicates, Distinct
<1>0. tail' = tail /\ event' = event /\ refs' = refs /\ open' = open
  BY Zenon DEF Move
<1>2. /\ queue' \in Seq(Ops) /\ DOMAIN queue' = DOMAIN queue
      /\ \A j \in DOMAIN queue : queue[j] \in Ops /\ queue[j] # to
      /\ \A j \in DOMAIN queue : queue'[j] = IF queue[j] = from THEN to ELSE queue[j]
  <2>1. queue \in Seq(Ops) /\ DOMAIN queue = 1..Len(queue) /\ Len(queue) \in Nat
    BY DEF TypeOK
  <2>2. queue' = [j \in 1..Len(queue) |-> IF queue[j] = from THEN to ELSE queue[j]]
    BY Zenon, <2>1 DEF Move
  <2>3. \A j \in DOMAIN queue : queue[j] \in Ops /\ queue[j] # to
    BY <2>1 DEF Move, OrderInv, OnlyLinkedAdmitted, Admitted
  <2> QED
    BY <2>1, <2>2, <2>3
<1>3. state' \in [Ops -> States] /\ wakeup' \in [Ops -> Wakeups]
      /\ state'[to] = state[from] /\ state'[from] = "IDLE"
      /\ wakeup'[to] = wakeup[from] /\ wakeup'[from] = NoLoop
      /\ \A x \in Ops \ {from, to} : state'[x] = state[x] /\ wakeup'[x] = wakeup[x]
  BY Zenon, <1>1 DEF TypeOK, States, Wakeups
<1>4. /\ todo' \in [Loops -> SUBSET Ops]
      /\ from \in todo[Owner[from]] => to \in todo'[Owner[to]]
      /\ \A x \in Ops \ {from} : x \in todo[Owner[x]] => x \in todo'[Owner[x]]
  BY ZenonT(30), <1>1 DEF Move, TypeOK
<1>5. TypeOK'
  BY Zenon, <1>0, <1>2, <1>3, <1>4 DEF TypeOK
<1>6. NoDuplicates'
  BY <1>1, <1>2 DEF NoDuplicates, Distinct
<1>7. OnlyLinkedAdmitted'
  <2> SUFFICES ASSUME NEW x \in Ops PROVE state'[x] # "IDLE" <=> Admitted(x)'
    BY Zenon DEF OnlyLinkedAdmitted
  <2>1. CASE x = from
    BY Zenon, <1>2, <1>3, <2>1, <1>1 DEF Admitted
  <2>2. CASE x = to
    BY SMTT(30), <1>1, <1>2, <1>3, <2>2 DEF Admitted, OrderInv, OnlyLinkedAdmitted
  <2>3. CASE x \in Ops \ {from, to}
    BY SMTT(30), <1>2, <1>3, <2>3 DEF Admitted, OrderInv, OnlyLinkedAdmitted
  <2> QED
    BY Zenon, <2>1, <2>2, <2>3
<1>8. OneTurn'
  BY <1>1, <1>2, <1>3 DEF OrderInv, OneTurn
<1>9. WakeupOwned'
  BY Zenon, <1>1, <1>3 DEF WakeupOwned, TypeOK
<1>10. NoLostWakeup'
  <2> SUFFICES ASSUME NEW x \in Ops, state'[x] = "READY", wakeup'[x] # NoLoop
               PROVE  \/ x \in todo'[Owner[x]]
                      \/ event'[wakeup'[x]]
                      \/ \E l \in Loops : tail'[l].busy /\ tail'[l].next = wakeup'[x]
    BY Zenon DEF NoLostWakeup
  <2>1. x # from
    BY Zenon, <1>3
  <2>2. CASE x = to
    <3>1. state[from] = "READY" /\ wakeup[from] = wakeup'[x]
      BY Zenon, <1>3, <2>2
    <3> QED
      BY ZenonT(30), <1>0, <1>4, <2>2, <3>1 DEF NoLostWakeup
  <2>3. CASE x # to
    <3>1. state[x] = "READY" /\ wakeup[x] = wakeup'[x]
      BY Zenon, <1>3, <2>1, <2>3
    <3> QED
      BY <1>0, <1>4, <2>1, <3>1 DEF NoLostWakeup
  <2> QED
    BY Zenon, <2>2, <2>3
<1> QED
  BY Zenon, <1>5, <1>6, <1>7, <1>8, <1>9, <1>10 DEF OrderInv

(* The event loop's own steps: a signal arrives, a pass begins, it ends. *)
LEMMA LoopStep ==
    ASSUME IndInv, NEW l \in Loops, Signal(l) \/ Poll(l) \/ Exit(l)
    PROVE  IndInv'
<1> USE OrderAssumption DEF IndInv
<1>1. UNCHANGED <<queue, state, wakeup>>
  BY Zenon DEF Signal, Poll, Exit
<1>2. OrderInv' /\ WakeupOwned'
  BY ZenonT(30), <1>1 DEF OrderInv, NoDuplicates, OnlyLinkedAdmitted, Admitted, OneTurn, WakeupOwned
<1>3. CASE Signal(l)
  <2>1. refs' \in [Loops -> Int] /\ event' \in [Loops -> BOOLEAN]
    BY <1>3 DEF Signal, TypeOK, Held
  <2>2. tail' \in [Loops -> Tails]
    BY Zenon, <1>3 DEF Signal, TypeOK, Tails, NoTail, Wakeups
  <2>3. TypeOK'
    BY Zenon, <1>1, <1>3, <2>1, <2>2 DEF Signal, TypeOK
  <2>4. NoLostWakeup'
    <3> SUFFICES ASSUME NEW x \in Ops, state[x] = "READY", wakeup[x] # NoLoop
                 PROVE  \/ x \in todo[Owner[x]]
                        \/ event'[wakeup[x]]
                        \/ \E m \in Loops : tail'[m].busy /\ tail'[m].next = wakeup[x]
      BY <1>1, <1>3 DEF NoLostWakeup, Signal
    <3>1. wakeup[x] \in Loops
      BY Zenon DEF TypeOK, Wakeups
    <3>2. event[wakeup[x]] \/ tail[l].next = wakeup[x] => event'[wakeup[x]]
      BY Zenon, <1>3, <3>1 DEF Signal, TypeOK
    <3>3. \A m \in Loops \ {l} : tail'[m] = tail[m]
      BY Zenon, <1>3 DEF Signal, TypeOK
    <3> QED
      BY ZenonT(30), <3>1, <3>2, <3>3 DEF NoLostWakeup
  <2> QED
    BY Zenon, <1>2, <2>3, <2>4
<1>4. CASE Poll(l)
  <2>1. TypeOK'
    BY Zenon, <1>1, <1>4 DEF Poll, TypeOK
  <2>2. NoLostWakeup'
    BY <1>1, <1>4 DEF Poll, TypeOK, NoLostWakeup, WakeupOwned
  <2> QED
    BY <1>2, <2>1, <2>2
<1>5. CASE Exit(l)
  BY <1>1, <1>2, <1>5 DEF Exit, TypeOK, NoLostWakeup
<1> QED
  BY Zenon, <1>3, <1>4, <1>5

(* Every step of Next preserves the inductive invariant. *)
LEMMA IndInvStep == IndInv /\ [Next]_vars => IndInv'
<1> SUFFICES ASSUME IndInv, [Next]_vars PROVE IndInv'
  BY Zenon
<1>1. ASSUME NEW op \in Ops, CancelWaiting(op) \/ Complete(op) PROVE IndInv'
  BY Zenon, <1>1, RetireStep DEF CancelWaiting, Complete
<1>2. CASE UNCHANGED vars
  BY SMTT(30), <1>2 DEF vars, IndInv, TypeOK, OrderInv, NoDuplicates, OnlyLinkedAdmitted, Admitted,
              OneTurn, WakeupOwned, NoLostWakeup
<1> QED
  BY Zenon, <1>1, <1>2, BeginStep, LookStep, CancelRunningStep, MoveStep, LoopStep DEF Next

(* The empty queue satisfies it. *)
LEMMA IndInvInit == Init => IndInv
BY OrderAssumption DEF Init, IndInv, TypeOK, States, Wakeups, Tails, NoTail, OrderInv, NoDuplicates,
       OnlyLinkedAdmitted, Admitted, OneTurn, WakeupOwned, NoLostWakeup

(* Every reachable state satisfies the inductive invariant. *)
THEOREM IndInvHolds == Spec => []IndInv
  BY IndInvInit, IndInvStep, PTL DEF Spec

(* One operation at a time owns the resource and the first in line always  *)
(* holds the turn, for any number of records and loops.                    *)
THEOREM OrderHolds == Spec => []OrderInv
<1>1. IndInv => OrderInv
  BY Zenon DEF IndInv
<1> QED
  BY <1>1, IndInvHolds, PTL

(* No ready record is left without a signal on its way to its loop. *)
THEOREM WakeupsHold == Spec => []NoLostWakeup
<1>1. IndInv => NoLostWakeup
  BY Zenon DEF IndInv
<1> QED
  BY <1>1, IndInvHolds, PTL

(* Every state is of its type. *)
THEOREM TypeHolds == Spec => []TypeOK
<1>1. IndInv => TypeOK
  BY Zenon DEF IndInv
<1> QED
  BY <1>1, IndInvHolds, PTL

-----------------------------------------------------------------------------
(* Retiring a record is leaving the line: whoever is promoted has not      *)
(* started, so nobody but the retired record gives up the turn.            *)
LEMMA RetireLeaves ==
    ASSUME IndInv, NEW op \in Ops, NEW i \in DOMAIN queue, queue[i] = op, Retire(op, i)
    PROVE  Fifo!Leave(i)
<1>1. queue' = [j \in 1..(Len(queue) - 1) |-> IF j < i THEN queue[j] ELSE queue[j + 1]]
  BY Zenon DEF Retire, Unlink
<1>2. ASSUME NEW x \in Ops PROVE x \in Started' <=> x \in Started /\ x # op
  <2>1. CASE x = op
    BY Zenon, <2>1 DEF Retire, Started
  <2>2. CASE x # op /\ ~(i = 1 /\ Unlink(queue, i) # <<>> /\ x = Unlink(queue, i)[1])
    BY Zenon, <2>2 DEF Retire, Started
  <2>3. CASE x # op /\ i = 1 /\ Unlink(queue, i) # <<>> /\ x = Unlink(queue, i)[1]
    <3>1. 2 \in DOMAIN queue /\ x = queue[2]
      <4>1. queue \in Seq(Ops) /\ Unlink(queue, i) \in Seq(Ops)
            /\ Len(Unlink(queue, i)) = Len(queue) - 1
        BY Zenon, UnlinkLemma DEF IndInv, TypeOK
      <4>2. Len(queue) - 1 \in Nat /\ Len(queue) - 1 # 0
        BY <2>3, <4>1
      <4>3. 1 \in 1..(Len(queue) - 1) /\ 2 \in DOMAIN queue
        BY <4>1, <4>2
      <4> QED
        BY <2>3, <4>3 DEF Unlink
    <3>2. state[x] = "QUEUED"
      BY <3>1 DEF IndInv, OrderInv, OneTurn
    <3>3. state'[x] = "READY"
      BY Zenon, <2>3 DEF Retire
    <3> QED
      BY Zenon, <3>2, <3>3 DEF Started
  <2> QED
    BY Zenon, <2>1, <2>2, <2>3
<1>3. Started' = Started \ {queue[i]}
  BY Zenon, <1>2 DEF Started
<1> QED
  BY Zenon, <1>1, <1>3 DEF Fifo!Leave

(* Every step of the queue is a step of the promise or invisible to it. *)
LEMMA FifoStep == IndInv /\ [Next]_vars => [Fifo!Next]_(Fifo!fvars)
<1> SUFFICES ASSUME IndInv, Next PROVE Fifo!Next \/ UNCHANGED Fifo!fvars
  BY Zenon DEF vars, Fifo!fvars, Started
<1>1. ASSUME NEW op \in Ops, NEW w \in Wakeups, Begin(op, w) PROVE Fifo!Join(op)
  <2>1. \A j \in DOMAIN queue : queue[j] # op
    BY Zenon, <1>1 DEF Begin, IndInv, OrderInv, OnlyLinkedAdmitted, Admitted
  <2>2. Started' = Started
    BY Zenon, <1>1 DEF Begin, Started, IndInv, TypeOK
  <2> QED
    BY Zenon, <1>1, <2>1, <2>2 DEF Fifo!Join, Begin
<1>2. ASSUME NEW op \in Ops, Look(op) PROVE Fifo!Take \/ UNCHANGED Fifo!fvars
  <2>1. CASE state[op] # "READY"
    BY Zenon, <1>2, <2>1 DEF Look, Fifo!fvars, Started
  <2>2. CASE state[op] = "READY"
    <3>1. PICK k \in DOMAIN queue : queue[k] = op
      BY Zenon, <2>2 DEF IndInv, OrderInv, OnlyLinkedAdmitted, Admitted
    <3>2. k = 1
      BY Zenon, <2>2, <3>1 DEF IndInv, OrderInv, OneTurn
    <3>3. \A x \in Ops \ {op} : state[x] \in {"IDLE", "QUEUED"}
      BY <3>1, <3>2 DEF IndInv, OrderInv, OnlyLinkedAdmitted, Admitted, OneTurn
    <3>4. Started = {}
      BY Zenon, <2>2, <3>3 DEF Started
    <3>5. Started' = {op}
      BY Zenon, <1>2, <2>2, <3>3 DEF Started, Look, IndInv, TypeOK
    <3>6. queue # <<>> /\ queue' = queue /\ queue[1] = op
      BY <1>2, <3>1, <3>2 DEF Look, IndInv, TypeOK
    <3> QED
      BY Zenon, <3>4, <3>5, <3>6 DEF Fifo!Take
  <2> QED
    BY Zenon, <2>1, <2>2
<1>3. ASSUME NEW op \in Ops, CancelRunning(op) PROVE UNCHANGED Fifo!fvars
  BY Zenon, <1>3 DEF CancelRunning, Fifo!fvars, Started, IndInv, TypeOK
<1>4. ASSUME NEW op \in Ops, CancelWaiting(op) \/ Complete(op)
      PROVE  \E i \in DOMAIN queue : Fifo!Leave(i)
  BY Zenon, <1>4, RetireLeaves DEF CancelWaiting, Complete
<1>5. ASSUME NEW from \in Ops, NEW to \in Ops, Move(from, to)
      PROVE  \E i \in DOMAIN queue : Fifo!Hand(i, to)
  <2>1. PICK i \in DOMAIN queue : queue[i] = from
    BY Zenon, <1>5 DEF Move, IndInv, OrderInv, OnlyLinkedAdmitted, Admitted
  <2>2. \A j \in DOMAIN queue : queue[j] # to /\ (queue[j] = from <=> j = i)
    BY Zenon, <1>5, <2>1 DEF Move, IndInv, OrderInv, OnlyLinkedAdmitted, Admitted, NoDuplicates
  <2>3. queue' = [queue EXCEPT ![i] = to]
    BY Zenon, <1>5, <2>1, <2>2 DEF Move, IndInv, TypeOK
  <2>4. state'[to] = state[from] /\ state'[from] = "IDLE" /\ state[to] = "IDLE" /\ from # to
        /\ \A x \in Ops \ {from, to} : state'[x] = state[x]
    BY Zenon, <1>5 DEF Move, IndInv, TypeOK
  <2>5. Started' = IF queue[i] \in Started THEN (Started \ {queue[i]}) \cup {to} ELSE Started
    BY Zenon, <2>1, <2>4 DEF Started
  <2> QED
    BY Zenon, <2>2, <2>3, <2>5 DEF Fifo!Hand
<1>6. ASSUME NEW l \in Loops, Signal(l) \/ Poll(l) \/ Exit(l) PROVE UNCHANGED Fifo!fvars
  BY Zenon, <1>6 DEF Signal, Poll, Exit, Fifo!fvars, Started
<1> QED
  BY Zenon, <1>1, <1>2, <1>3, <1>4, <1>5, <1>6 DEF Next, Fifo!Next

(* The turn queue implements first-come-first-served exclusive turns, for  *)
(* every set of records and loops: resource_order.c keeps the promise of   *)
(* its header.                                                             *)
THEOREM QueueIsFifo == Spec => ImplementsFifo
<1>1. Init => Fifo!Init
  BY Zenon DEF Init, Fifo!Init, Started
<1> QED
  BY <1>1, FifoStep, IndInvHolds, PTL DEF Spec, ImplementsFifo, Fifo!Spec

-----------------------------------------------------------------------------
\* A loop that is not retiring anything keeps no token for a signal.
IdleTails == \A l \in Loops : ~tail[l].busy => tail[l].next = NoLoop /\ tail[l].owner = NoLoop

TokenInv == TokensCounted /\ IdleTails

\* How many of S the function f sends to w.
Users(S, f, w) == Cardinality({x \in S : f[x] = w})

(* When one member of a finite set moves, only its old and its new token   *)
(* gain or lose a user.                                                    *)
LEMMA UsersMove ==
    ASSUME NEW S, IsFiniteSet(S), NEW f, NEW g, NEW x \in S,
           \A y \in S \ {x} : g[y] = f[y], NEW w
    PROVE  /\ Users(S, f, w) \in Nat /\ Users(S, g, w) \in Nat
           /\ Users(S, g, w) = Users(S, f, w) - Held(f[x], w) + Held(g[x], w)
<1> DEFINE A == {y \in S : f[y] = w}
           B == {y \in S : g[y] = w}
           C == {y \in S \ {x} : f[y] = w}
<1>1. IsFiniteSet(C) /\ x \notin C
  <2>1. C \in SUBSET S
    BY Zenon
  <2> QED
    BY Zenon, <2>1, FS_Subset
<1>2. Cardinality(C) \in Nat /\ Cardinality(C \cup {x}) = Cardinality(C) + 1
  <2> HIDE DEF C
  <2> QED
    BY Zenon, <1>1, FS_CardinalityType, FS_AddElement
<1>3. A = IF f[x] = w THEN C \cup {x} ELSE C
  BY Zenon
<1>4. B = IF g[x] = w THEN C \cup {x} ELSE C
  BY Zenon
<1>5. Users(S, f, w) = Cardinality(C) + Held(f[x], w)
  BY <1>2, <1>3 DEF Users, Held
<1>6. Users(S, g, w) = Cardinality(C) + Held(g[x], w)
  BY <1>2, <1>4 DEF Users, Held
<1> QED
  BY <1>2, <1>5, <1>6 DEF Held

(* The token users as sums over the three functions that name tokens. *)
LEMMA TokenSum ==
    ASSUME NEW w
    PROVE  TokenUsers(w) = Users(Ops, wakeup, w) + Users(Loops, [l \in Loops |-> tail[l].next], w)
                             + Users(Loops, [l \in Loops |-> tail[l].owner], w)
                             + (IF open[w] THEN 1 ELSE 0)
BY Zenon DEF TokenUsers, Users

LEMMA TokenSumNext ==
    ASSUME NEW w
    PROVE  TokenUsers(w)' = Users(Ops, wakeup', w) + Users(Loops, [l \in Loops |-> tail'[l].next], w)
                             + Users(Loops, [l \in Loops |-> tail'[l].owner], w)
                             + (IF open'[w] THEN 1 ELSE 0)
BY Zenon DEF TokenUsers, Users

(* When one loop's tail changes, the tokens it named lose a user and those *)
(* it names now gain one.                                                  *)
LEMMA TailMoves ==
    ASSUME IndInv, NEW l \in Loops, NEW t \in Tails, tail' = [tail EXCEPT ![l] = t], NEW w
    PROVE  LET N == Users(Loops, [x \in Loops |-> tail[x].next], w)
               O == Users(Loops, [x \in Loops |-> tail[x].owner], w)
           IN  /\ N \in Nat /\ O \in Nat
               /\ Users(Loops, [x \in Loops |-> tail'[x].next], w)
                    = N - Held(tail[l].next, w) + Held(t.next, w)
               /\ Users(Loops, [x \in Loops |-> tail'[x].owner], w)
                    = O - Held(tail[l].owner, w) + Held(t.owner, w)
<1> DEFINE n == [x \in Loops |-> tail[x].next]
           n1 == [x \in Loops |-> tail'[x].next]
           o == [x \in Loops |-> tail[x].owner]
           o1 == [x \in Loops |-> tail'[x].owner]
<1>1. tail'[l] = t /\ \A y \in Loops \ {l} : tail'[y] = tail[y]
  BY Zenon DEF IndInv, TypeOK
<1>2. /\ \A y \in Loops \ {l} : n1[y] = n[y]
      /\ \A y \in Loops \ {l} : o1[y] = o[y]
      /\ n[l] = tail[l].next /\ n1[l] = t.next /\ o[l] = tail[l].owner /\ o1[l] = t.owner
  BY <1>1
<1> HIDE DEF n, n1, o, o1
<1>3. IsFiniteSet(Loops)
  BY Zenon, OrderAssumption
<1>4. /\ Users(Loops, n, w) \in Nat
      /\ Users(Loops, n1, w) = Users(Loops, n, w) - Held(n[l], w) + Held(n1[l], w)
  BY SMTT(30), <1>2, <1>3, UsersMove
<1>5. /\ Users(Loops, o, w) \in Nat
      /\ Users(Loops, o1, w) = Users(Loops, o, w) - Held(o[l], w) + Held(o1[l], w)
  BY <1>2, <1>3, UsersMove
<1> QED
  BY Zenon, <1>2, <1>4, <1>5 DEF n, n1, o, o1

(* The same for the wakeup of one record. *)
LEMMA OpsMove ==
    ASSUME NEW f, NEW g, NEW x \in Ops, \A y \in Ops \ {x} : g[y] = f[y], NEW w
    PROVE  /\ Users(Ops, f, w) \in Nat /\ Users(Ops, g, w) \in Nat
           /\ Users(Ops, g, w) = Users(Ops, f, w) - Held(f[x], w) + Held(g[x], w)
<1>1. IsFiniteSet(Ops)
  BY Zenon, OrderAssumption
<1> QED
  BY <1>1, UsersMove

(* Every step keeps the count: joining adds the record's reference,        *)
(* retiring moves it to the tail of retire beside the one kept for the     *)
(* signal, signalling drops both, and a leaving loop drops its own.        *)
LEMMA TokenStep == IndInv /\ TokenInv /\ [Next]_vars => TokenInv'
<1>0. SUFFICES ASSUME IndInv, TokenInv, [Next]_vars PROVE TokenInv'
  BY Zenon
<1> DEFINE W(w) == Users(Ops, wakeup, w)
           N(w) == Users(Loops, [l \in Loops |-> tail[l].next], w)
           O(w) == Users(Loops, [l \in Loops |-> tail[l].owner], w)
           P(w) == IF open[w] THEN 1 ELSE 0
           W1(w) == Users(Ops, wakeup', w)
           N1(w) == Users(Loops, [l \in Loops |-> tail'[l].next], w)
           O1(w) == Users(Loops, [l \in Loops |-> tail'[l].owner], w)
           P1(w) == IF open'[w] THEN 1 ELSE 0
<1>1. \A w \in Loops : refs[w] = W(w) + N(w) + O(w) + P(w)
  BY Zenon, <1>0, TokenSum DEF TokenInv, TokensCounted
<1>2. SUFFICES /\ \A w \in Loops : refs'[w] = W1(w) + N1(w) + O1(w) + P1(w)
               /\ IdleTails'
  BY Zenon, <1>0, TokenSumNext DEF TokenInv, TokensCounted
<1>3. IdleTails /\ IsFiniteSet(Ops) /\ IsFiniteSet(Loops) /\ NoLoop \notin Loops
      /\ Owner \in [Ops -> Loops]
  BY Zenon, <1>0, OrderAssumption DEF TokenInv
<1>4. \A w \in Loops : W(w) \in Nat /\ N(w) \in Nat /\ O(w) \in Nat /\ P(w) \in Nat
  <2> SUFFICES ASSUME NEW w \in Loops
               PROVE  W(w) \in Nat /\ N(w) \in Nat /\ O(w) \in Nat
    BY Zenon
  <2>1. ASSUME NEW S, IsFiniteSet(S), NEW f PROVE Users(S, f, w) \in Nat
    <3>1. {x \in S : f[x] = w} \in SUBSET S
      BY Zenon
    <3> QED
      BY Zenon, <2>1, <3>1, FS_Subset, FS_CardinalityType DEF Users
  <2> QED
    BY Zenon, <1>3, <2>1
<1>5. tail' = tail => \A w \in Loops : N1(w) = N(w) /\ O1(w) = O(w)
  BY Zenon
<1>6. tail' = tail => IdleTails'
  BY Zenon, <1>3 DEF IdleTails
<1>7. wakeup' = wakeup => \A w \in Loops : W1(w) = W(w)
  BY Zenon
<1>8. open' = open => \A w \in Loops : P1(w) = P(w)
  BY Zenon
<1>9. ASSUME NEW x \in Ops, NEW v, wakeup' = [wakeup EXCEPT ![x] = v]
      PROVE  \A w \in Loops : W1(w) = W(w) - Held(wakeup[x], w) + Held(v, w)
  <2> SUFFICES ASSUME NEW w \in Loops
               PROVE  W1(w) = W(w) - Held(wakeup[x], w) + Held(v, w)
    BY Zenon
  <2> DEFINE old == wakeup
             new == wakeup'
  <2>1. new[x] = v
    BY Zenon, <1>0, <1>9 DEF IndInv, TypeOK
  <2>2. \A y \in Ops \ {x} : new[y] = old[y]
    BY Zenon, <1>0, <1>9 DEF IndInv, TypeOK
  <2> HIDE DEF old, new
  <2>3. Users(Ops, new, w) = Users(Ops, old, w) - Held(old[x], w) + Held(new[x], w)
    BY <2>2, OpsMove
  <2> QED
    BY Zenon, <2>1, <2>3 DEF old, new
<1>10. ASSUME NEW l \in Loops, NEW t \in Tails, tail' = [tail EXCEPT ![l] = t]
       PROVE  \A w \in Loops : /\ N1(w) = N(w) - Held(tail[l].next, w) + Held(t.next, w)
                               /\ O1(w) = O(w) - Held(tail[l].owner, w) + Held(t.owner, w)
  BY Zenon, <1>0, <1>10, TailMoves
<1> HIDE DEF W, N, O, P, W1, N1, O1, P1
<1>11. ASSUME NEW op \in Ops, NEW v \in Wakeups, Begin(op, v)
       PROVE  (\A w \in Loops : refs'[w] = W1(w) + N1(w) + O1(w) + P1(w)) /\ IdleTails'
  <2>1. wakeup[op] = NoLoop
    BY Zenon, <1>0, <1>11 DEF Begin, IndInv, WakeupOwned
  <2>2. /\ wakeup' = [wakeup EXCEPT ![op] = v] /\ tail' = tail /\ open' = open
        /\ \A w \in Loops : refs'[w] = refs[w] + Held(v, w)
    BY Zenon, <1>11 DEF Begin
  <2>3. \A w \in Loops : W1(w) = W(w) - Held(NoLoop, w) + Held(v, w)
    BY <1>9, <2>1, <2>2, Zenon
  <2> QED
    BY SMTT(30), <1>1, <1>3, <1>4, <1>5, <1>6, <1>8, <2>2, <2>3 DEF Held
<1>12. ASSUME NEW op \in Ops, NEW i \in DOMAIN queue, Free(Owner[op]), Retire(op, i)
       PROVE  (\A w \in Loops : refs'[w] = W1(w) + N1(w) + O1(w) + P1(w)) /\ IdleTails'
  <2> DEFINE l == Owner[op]
             rest == Unlink(queue, i)
             next == IF i = 1 /\ rest # <<>> THEN wakeup[rest[1]] ELSE NoLoop
             t == [busy |-> TRUE, next |-> next, owner |-> wakeup[op]]
  <2>1. /\ wakeup' = [wakeup EXCEPT ![op] = NoLoop] /\ open' = open
        /\ tail' = [tail EXCEPT ![l] = t]
        /\ \A w \in Loops : refs'[w] = refs[w] + Held(next, w)
    BY Zenon, <1>12 DEF Retire
  <2>2. next \in Wakeups /\ wakeup[op] \in Wakeups
    <3>1. rest \in Seq(Ops)
      BY Zenon, <1>0, UnlinkLemma DEF IndInv, TypeOK
    <3>2. rest # <<>> => rest[1] \in Ops
      BY <3>1
    <3> QED
      BY Zenon, <1>0, <3>2 DEF IndInv, TypeOK, Wakeups
  <2> HIDE DEF next
  <2>3. t \in Tails /\ t.next = next /\ t.owner = wakeup[op] /\ t.busy
    BY Zenon, <2>2 DEF Tails
  <2>4. l \in Loops /\ tail[l].next = NoLoop /\ tail[l].owner = NoLoop
    BY Zenon, <1>3, <1>12 DEF Free, IdleTails
  <2> HIDE DEF t, l
  <2>5. \A w \in Loops : /\ N1(w) = N(w) - Held(NoLoop, w) + Held(next, w)
                         /\ O1(w) = O(w) - Held(NoLoop, w) + Held(wakeup[op], w)
    <3>1. t \in Tails /\ l \in Loops /\ tail' = [tail EXCEPT ![l] = t]
      BY Zenon, <2>1, <2>3, <2>4
    <3>2. \A w \in Loops : /\ N1(w) = N(w) - Held(tail[l].next, w) + Held(t.next, w)
                           /\ O1(w) = O(w) - Held(tail[l].owner, w) + Held(t.owner, w)
      BY <1>10, <3>1, Zenon
    <3> QED
      BY Zenon, <2>3, <2>4, <3>2
  <2>6. \A w \in Loops : W1(w) = W(w) - Held(wakeup[op], w) + Held(NoLoop, w)
    BY <1>9, <2>1, Zenon
  <2>7. IdleTails'
    BY Zenon, <1>0, <1>3, <2>1, <2>3 DEF IdleTails, IndInv, TypeOK
  <2> QED
    BY SMTT(30), <1>1, <1>3, <1>4, <1>8, <2>1, <2>5, <2>6, <2>7 DEF Held
<1>13. ASSUME NEW from \in Ops, NEW to \in Ops, Move(from, to)
       PROVE  (\A w \in Loops : refs'[w] = W1(w) + N1(w) + O1(w) + P1(w)) /\ IdleTails'
  <2> DEFINE mid == [wakeup EXCEPT ![to] = wakeup[from]]
             new == wakeup'
  <2>1. /\ wakeup' = [mid EXCEPT ![from] = NoLoop] /\ tail' = tail /\ open' = open /\ refs' = refs
        /\ wakeup[to] = NoLoop /\ from # to
    BY Zenon, <1>0, <1>13 DEF Move, IndInv, WakeupOwned
  <2>2. \A y \in Ops \ {to} : mid[y] = wakeup[y]
    BY Zenon, <1>0 DEF IndInv, TypeOK
  <2>3. \A y \in Ops \ {from} : new[y] = mid[y]
    BY Zenon, <1>0, <2>1 DEF IndInv, TypeOK
  <2>4. mid[to] = wakeup[from] /\ mid[from] = wakeup[from] /\ new[from] = NoLoop
    BY Zenon, <1>0, <2>1 DEF IndInv, TypeOK
  <2> HIDE DEF mid, new
  <2>5. ASSUME NEW w \in Loops PROVE W1(w) = W(w)
    <3>0. ASSUME NEW f, NEW g, NEW x \in Ops, \A y \in Ops \ {x} : g[y] = f[y]
          PROVE  /\ Users(Ops, g, w) \in Nat
                 /\ Users(Ops, g, w) = Users(Ops, f, w) - Held(f[x], w) + Held(g[x], w)
      BY <3>0, OpsMove
    <3>1. /\ Users(Ops, mid, w) \in Nat
          /\ Users(Ops, mid, w) = Users(Ops, wakeup, w) - Held(wakeup[to], w) + Held(mid[to], w)
      BY Zenon, <2>2, <3>0
    <3>2. /\ Users(Ops, new, w) \in Nat
          /\ Users(Ops, new, w) = Users(Ops, mid, w) - Held(mid[from], w) + Held(new[from], w)
      BY Zenon, <2>3, <3>0
    <3>3. Held(NoLoop, w) = 0 /\ Held(wakeup[from], w) \in Int
      BY <1>3 DEF Held
    <3>4. Users(Ops, wakeup, w) \in Nat
      BY Zenon, <1>4 DEF W
    <3> QED
      BY SMTT(30), <2>1, <2>4, <3>1, <3>2, <3>3, <3>4 DEF W, W1, new
  <2> QED
    BY Zenon, <1>1, <1>5, <1>6, <1>8, <2>1, <2>5
<1>14. ASSUME NEW l \in Loops, Signal(l)
       PROVE  (\A w \in Loops : refs'[w] = W1(w) + N1(w) + O1(w) + P1(w)) /\ IdleTails'
  <2>1. /\ wakeup' = wakeup /\ open' = open /\ tail' = [tail EXCEPT ![l] = NoTail]
        /\ \A w \in Loops : refs'[w] = refs[w] - Held(tail[l].next, w) - Held(tail[l].owner, w)
    BY Zenon, <1>14 DEF Signal
  <2>2. NoTail \in Tails /\ NoTail.next = NoLoop /\ NoTail.owner = NoLoop
    BY Zenon DEF NoTail, Tails, Wakeups
  <2>3. \A w \in Loops : /\ N1(w) = N(w) - Held(tail[l].next, w) + Held(NoLoop, w)
                         /\ O1(w) = O(w) - Held(tail[l].owner, w) + Held(NoLoop, w)
    BY <1>10, <2>1, <2>2, ZenonT(30)
  <2>4. IdleTails'
    BY Zenon, <1>0, <1>3, <2>1, <2>2 DEF IdleTails, IndInv, TypeOK
  <2> QED
    BY SMTT(30), <1>1, <1>3, <1>4, <1>7, <1>8, <2>1, <2>3, <2>4 DEF Held
<1>15. ASSUME NEW l \in Loops, Exit(l)
       PROVE  (\A w \in Loops : refs'[w] = W1(w) + N1(w) + O1(w) + P1(w)) /\ IdleTails'
  <2>1. /\ open[l] /\ open' = [open EXCEPT ![l] = FALSE] /\ refs' = [refs EXCEPT ![l] = @ - 1]
        /\ tail' = tail /\ wakeup' = wakeup
    BY Zenon, <1>15 DEF Exit, Free
  <2>2. \A w \in Loops : P1(w) = P(w) - Held(l, w)
    BY SMTT(30), <1>0, <2>1 DEF P, P1, Held, IndInv, TypeOK
  <2>3. \A w \in Loops : refs'[w] = refs[w] - Held(l, w)
    BY <1>0, <2>1 DEF Held, IndInv, TypeOK
  <2> QED
    BY SMTT(30), <1>1, <1>4, <1>5, <1>6, <1>7, <2>1, <2>2, <2>3 DEF Held
<1>16. ASSUME wakeup' = wakeup, tail' = tail, refs' = refs, open' = open
       PROVE  (\A w \in Loops : refs'[w] = W1(w) + N1(w) + O1(w) + P1(w)) /\ IdleTails'
  BY Zenon, <1>1, <1>5, <1>6, <1>7, <1>8, <1>16
<1>17. ASSUME NEW op \in Ops, Look(op) \/ CancelRunning(op)
       PROVE  wakeup' = wakeup /\ tail' = tail /\ refs' = refs /\ open' = open
  BY Zenon, <1>17 DEF Look, CancelRunning
<1>18. ASSUME NEW op \in Ops, CancelWaiting(op) \/ Complete(op)
       PROVE  Free(Owner[op]) /\ \E i \in DOMAIN queue : Retire(op, i)
  BY Zenon, <1>18 DEF CancelWaiting, Complete
<1>19. ASSUME NEW l \in Loops, Poll(l)
       PROVE  wakeup' = wakeup /\ tail' = tail /\ refs' = refs /\ open' = open
  BY Zenon, <1>19 DEF Poll
<1>20. CASE UNCHANGED vars
  BY Zenon, <1>16, <1>20 DEF vars
<1> QED
  BY SMTT(30), <1>0, <1>11, <1>12, <1>13, <1>14, <1>15, <1>16, <1>17, <1>18, <1>19, <1>20 DEF Next

(* At the start every token has one user, its running loop. *)
LEMMA TokenInit == Init => TokenInv
<1> SUFFICES ASSUME Init PROVE TokenInv
  BY Zenon
<1>1. IdleTails
  BY Zenon DEF Init, IdleTails, NoTail
<1>2. ASSUME NEW w \in Loops PROVE refs[w] = TokenUsers(w)
  <2>1. /\ {op \in Ops : wakeup[op] = w} = {}
        /\ {l \in Loops : tail[l].next = w} = {}
        /\ {l \in Loops : tail[l].owner = w} = {}
        /\ open[w] /\ refs[w] = 1
    BY Zenon, OrderAssumption DEF Init, NoTail
  <2>2. Cardinality({}) = 0
    BY Zenon, FS_EmptySet
  <2>3. TokenUsers(w) = Cardinality({}) + Cardinality({}) + Cardinality({}) + 1
    BY Zenon, <2>1 DEF TokenUsers
  <2> QED
    BY <2>1, <2>2, <2>3
<1> QED
  BY Zenon, <1>1, <1>2 DEF TokenInv, TokensCounted

(* A token lives exactly as long as it has users: its count is the number  *)
(* of records, pending signals and running loops that hold it, for any     *)
(* finite number of records and loops.                                     *)
THEOREM TokensAreCounted == Spec => []TokensCounted
<1>1. TokenInv => TokensCounted
  BY Zenon DEF TokenInv
<1> QED
  BY <1>1, IndInvHolds, TokenInit, TokenStep, PTL DEF Spec
=============================================================================
