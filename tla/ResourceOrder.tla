--------------------------- MODULE ResourceOrder ---------------------------
(***************************************************************************)
(* The turn queue of native/shroot/src/resource_order.c.  A resource (an   *)
(* open file description, a descriptor table, a procfs file, the memory of *)
(* a process) embeds one queue; an operation on the resource joins the     *)
(* queue with a record of its own, waits for its turn without blocking a   *)
(* thread, runs, and retires.  Retiring hands the turn to the next record  *)
(* under the queue's mutex and signals that record's event loop after the  *)
(* mutex is released.                                                      *)
(*                                                                         *)
(* Every action on the queue is one critical section of the mutex, except  *)
(* retirement, whose tail (the signal and the release of the two wakeup    *)
(* tokens) runs after the unlock and is an action of its own.  Calls that  *)
(* the code refuses with -EINVAL or -EBUSY change nothing and are          *)
(* stuttering steps.                                                       *)
(***************************************************************************)
EXTENDS Integers, Sequences, FiniteSets

CONSTANTS
    Ops,        \* the order records
    Loops,      \* the event loops, each with one wakeup token
    Owner,      \* the loop that starts, cancels and completes a record
    NoLoop      \* a NULL wakeup

ASSUME OrderAssumption ==
    /\ Owner \in [Ops -> Loops]
    /\ NoLoop \notin Loops
    /\ IsFiniteSet(Ops) /\ IsFiniteSet(Loops)

VARIABLES
    queue,      \* the linked list q->first .. q->last
    state,      \* op->state
    wakeup,     \* op->wakeup, NoLoop for NULL
    tail,       \* what a loop's thread still has to do after retire's unlock
    event,      \* the loop's eventfd is readable
    todo,       \* records the loop has still to look at in this pass
    refs,       \* reference count of the loop's wakeup token
    open        \* the loop runs and holds its own reference

vars == <<queue, state, wakeup, tail, event, todo, refs, open>>

States == {"IDLE", "QUEUED", "READY", "RUNNING", "CANCELLING"}
Wakeups == Loops \cup {NoLoop}
Tails == [busy : BOOLEAN, next : Wakeups, owner : Wakeups]
NoTail == [busy |-> FALSE, next |-> NoLoop, owner |-> NoLoop]

TypeOK ==
    /\ queue \in Seq(Ops)
    /\ state \in [Ops -> States]
    /\ wakeup \in [Ops -> Wakeups]
    /\ tail \in [Loops -> Tails]
    /\ event \in [Loops -> BOOLEAN]
    /\ todo \in [Loops -> SUBSET Ops]
    /\ refs \in [Loops -> Int]
    /\ open \in [Loops -> BOOLEAN]

Init ==
    /\ queue = <<>>
    /\ state = [op \in Ops |-> "IDLE"]
    /\ wakeup = [op \in Ops |-> NoLoop]
    /\ tail = [l \in Loops |-> NoTail]
    /\ event = [l \in Loops |-> FALSE]
    /\ todo = [l \in Loops |-> {}]
    /\ refs = [l \in Loops |-> 1]
    /\ open = [l \in Loops |-> TRUE]

-----------------------------------------------------------------------------
\* Mistake: the head is unlinked whichever record leaves.
UnlinkHead(q, i) == Tail(q)

\* The list without the record at position i.
Unlink(q, i) == [j \in 1..(Len(q) - 1) |-> IF j < i THEN q[j] ELSE q[j + 1]]

\* Mistake: a user of a token that takes no reference.
HeldWithoutReference(w, u) == 0

\* The reference that a user of token w holds on token u.
Held(w, u) == IF w = u THEN 1 ELSE 0

\* The loop's thread is free to call into the queue.
Free(l) == open[l] /\ ~tail[l].busy

\* md_resource_order_begin: join at the end; first in line is ready at once,
\* and its caller is told so by the return value.  w is NULL only for callers
\* that inspect the state themselves.
Begin(op, w) ==
    LET l == Owner[op]
        ready == queue = <<>>
    IN  /\ Free(l)
        /\ state[op] = "IDLE"
        /\ w \in {l, NoLoop}
        /\ queue' = Append(queue, op)
        /\ state' = [state EXCEPT ![op] = IF ready THEN "READY" ELSE "QUEUED"]
        /\ wakeup' = [wakeup EXCEPT ![op] = w]
        /\ refs' = [x \in Loops |-> refs[x] + Held(w, x)]
        /\ todo' = IF ready THEN [todo EXCEPT ![l] = @ \cup {op}] ELSE todo
        /\ UNCHANGED <<tail, event, open>>

\* The loop looks at a record: it was told to by begin or by a wakeup, or the
\* record has no wakeup and its caller inspects it.  A ready one is started
\* (md_resource_order_start); anything else is left waiting.
Look(op) ==
    LET l == Owner[op]
    IN  /\ Free(l)
        /\ op \in todo[l] \/ (wakeup[op] = NoLoop /\ state[op] = "READY")
        /\ todo' = [todo EXCEPT ![l] = @ \ {op}]
        /\ state' = IF state[op] = "READY"
                    THEN [state EXCEPT ![op] = "RUNNING"] ELSE state
        /\ UNCHANGED <<queue, wakeup, tail, event, refs, open>>

\* The critical section of retire: unlink, clear the record, hand the turn to
\* the new first record, and keep its token for the signal to come.
Retire(op, i) ==
    LET l == Owner[op]
        rest == Unlink(queue, i)
        promote == i = 1 /\ rest # <<>>
        next == IF promote THEN wakeup[rest[1]] ELSE NoLoop
    IN  /\ queue' = rest
        /\ state' = [x \in Ops |-> IF x = op THEN "IDLE"
                                   ELSE IF promote /\ x = rest[1] THEN "READY"
                                   ELSE state[x]]
        /\ wakeup' = [wakeup EXCEPT ![op] = NoLoop]
        /\ refs' = [x \in Loops |-> refs[x] + Held(next, x)]
        /\ tail' = [tail EXCEPT ![l] = [busy |-> TRUE, next |-> next,
                                        owner |-> wakeup[op]]]
        /\ UNCHANGED <<event, todo, open>>

\* Mistake: the next owner's token is released without a signal.
SignalNobody(l) ==
    LET next == tail[l].next
        owner == tail[l].owner
    IN  /\ tail[l].busy
        /\ refs' = [x \in Loops |-> refs[x] - Held(next, x) - Held(owner, x)]
        /\ tail' = [tail EXCEPT ![l] = NoTail]
        /\ UNCHANGED <<queue, state, wakeup, event, todo, open>>

\* The rest of retire, after the unlock: signal the next owner, then release
\* the token kept for it and the retired record's own.
Signal(l) ==
    LET next == tail[l].next
        owner == tail[l].owner
    IN  /\ tail[l].busy
        /\ event' = [x \in Loops |-> event[x] \/ x = next]
        /\ refs' = [x \in Loops |-> refs[x] - Held(next, x) - Held(owner, x)]
        /\ tail' = [tail EXCEPT ![l] = NoTail]
        /\ UNCHANGED <<queue, state, wakeup, todo, open>>

\* Mistake: cancelling gives the turn back although the operation goes on.
CancelYields(op) ==
    /\ Free(Owner[op])
    /\ state[op] \in {"RUNNING", "CANCELLING"}
    /\ state' = [state EXCEPT ![op] = "READY"]
    /\ UNCHANGED <<queue, wakeup, tail, event, todo, refs, open>>

\* md_resource_order_cancel of a record that has started: the turn is kept
\* until the operation completes.
CancelRunning(op) ==
    /\ Free(Owner[op])
    /\ state[op] \in {"RUNNING", "CANCELLING"}
    /\ state' = [state EXCEPT ![op] = "CANCELLING"]
    /\ UNCHANGED <<queue, wakeup, tail, event, todo, refs, open>>

\* md_resource_order_cancel of a record that has not started.
CancelWaiting(op) ==
    /\ Free(Owner[op])
    /\ state[op] \in {"QUEUED", "READY"}
    /\ \E i \in DOMAIN queue : queue[i] = op /\ Retire(op, i)

\* md_resource_order_complete.
Complete(op) ==
    /\ Free(Owner[op])
    /\ state[op] \in {"RUNNING", "CANCELLING"}
    /\ \E i \in DOMAIN queue : queue[i] = op /\ Retire(op, i)

\* md_resource_order_move: an idle record of the same owner takes over the
\* position, the state and the wakeup of an admitted one.
Move(from, to) ==
    LET l == Owner[from]
    IN  /\ Free(l)
        /\ Owner[to] = l
        /\ state[from] # "IDLE" /\ state[to] = "IDLE"
        /\ queue' = [j \in DOMAIN queue |-> IF queue[j] = from THEN to ELSE queue[j]]
        /\ state' = [state EXCEPT ![to] = state[from], ![from] = "IDLE"]
        /\ wakeup' = [wakeup EXCEPT ![to] = wakeup[from], ![from] = NoLoop]
        /\ todo' = IF from \in todo[l]
                   THEN [todo EXCEPT ![l] = (@ \ {from}) \cup {to}] ELSE todo
        /\ UNCHANGED <<tail, event, refs, open>>

\* The loop returns from poll on its eventfd, acknowledges a burst of signals
\* with one read, and then looks at every record it owns.
Poll(l) ==
    /\ Free(l)
    /\ event[l]
    /\ event' = [event EXCEPT ![l] = FALSE]
    /\ todo' = [todo EXCEPT ![l] = {op \in Ops : Owner[op] = l}]
    /\ UNCHANGED <<queue, state, wakeup, tail, refs, open>>

\* The loop ends: all its records are retired, and it drops its reference.
\* Signals already on their way find the token alive.
Exit(l) ==
    /\ Free(l)
    /\ \A op \in Ops : Owner[op] = l => state[op] = "IDLE"
    /\ open' = [open EXCEPT ![l] = FALSE]
    /\ refs' = [refs EXCEPT ![l] = @ - 1]
    /\ UNCHANGED <<queue, state, wakeup, tail, event, todo>>

Next ==
    \/ \E op \in Ops : \E w \in Wakeups : Begin(op, w)
    \/ \E op \in Ops : Look(op)
    \/ \E op \in Ops : CancelRunning(op)
    \/ \E op \in Ops : CancelWaiting(op)
    \/ \E op \in Ops : Complete(op)
    \/ \E from, to \in Ops : Move(from, to)
    \/ \E l \in Loops : Signal(l)
    \/ \E l \in Loops : Poll(l)
    \/ \E l \in Loops : Exit(l)

Spec == Init /\ [][Next]_vars

-----------------------------------------------------------------------------
\* The queue and the record states agree: no record is linked twice, exactly
\* the linked ones are admitted, and only the first may be past QUEUED.
NoDuplicates == \A i, j \in DOMAIN queue : queue[i] = queue[j] => i = j

Admitted(op) == \E i \in DOMAIN queue : queue[i] = op

OnlyLinkedAdmitted == \A op \in Ops : state[op] # "IDLE" <=> Admitted(op)

\* One turn: the first record holds it (READY, RUNNING or CANCELLING) and
\* every later one waits.  Two holders would let two operations touch the
\* resource at once; a first record left QUEUED would stall the queue.
OneTurn ==
    \A i \in DOMAIN queue : state[queue[i]] = "QUEUED" <=> i # 1

\* What retire and cancel must not lose: a ready record that its loop has not
\* been told about has a signal on the way, in the eventfd or in the tail of
\* the retirement that made it ready.
NoLostWakeup ==
    \A op \in Ops :
        state[op] = "READY" /\ wakeup[op] # NoLoop =>
            \/ op \in todo[Owner[op]]
            \/ event[wakeup[op]]
            \/ \E l \in Loops : tail[l].busy /\ tail[l].next = wakeup[op]

\* A record signals its own loop or nobody; an idle one holds no token.
WakeupOwned ==
    \A op \in Ops : /\ wakeup[op] \in {Owner[op], NoLoop}
                    /\ state[op] = "IDLE" => wakeup[op] = NoLoop

\* A token lives exactly as long as somebody uses it: the running loop, the
\* admitted records, and the retirements that have still to signal it.
TokenUsers(w) ==
    Cardinality({op \in Ops : wakeup[op] = w})
      + Cardinality({l \in Loops : tail[l].next = w})
      + Cardinality({l \in Loops : tail[l].owner = w})
      + (IF open[w] THEN 1 ELSE 0)
TokensCounted == \A w \in Loops : refs[w] = TokenUsers(w)

\* The queue implements the promise: the turn is held by the records whose
\* operation has started.
Started == {op \in Ops : state[op] \in {"RUNNING", "CANCELLING"}}
Fifo == INSTANCE FifoTurn WITH line <- queue, holder <- Started

\* Operations are served one at a time in the order of begin, whatever is
\* cancelled, completed or moved in between.
ImplementsFifo == Fifo!Spec

OrderInv == NoDuplicates /\ OnlyLinkedAdmitted /\ OneTurn

\* The inductive invariant behind the theorems of ResourceOrderProofs.
IndInv == TypeOK /\ OrderInv /\ WakeupOwned /\ NoLostWakeup

-----------------------------------------------------------------------------
\* Progress.  A loop keeps polling and looks at every record of a pass; the
\* tail of a retirement is straight-line code; a started operation completes.
Fairness ==
    /\ \A l \in Loops : WF_vars(Signal(l)) /\ SF_vars(Poll(l))
    /\ \A op \in Ops : SF_vars(Look(op)) /\ SF_vars(Complete(op))

FairSpec == Spec /\ Fairness

\* No admitted operation waits for ever: it runs or it is cancelled.
EveryTurnComes ==
    \A op \in Ops : state[op] \in {"QUEUED", "READY"} ~> state[op] \notin {"QUEUED", "READY"}
=============================================================================
