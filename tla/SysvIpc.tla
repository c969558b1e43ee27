------------------------------ MODULE SysvIpc ------------------------------
(***************************************************************************)
(* One System V semaphore set shared by several launches (sysv_ipc.c,      *)
(* sysv_sem.c, sysv_ipc_db.c, ipc_database.c).  A launch is a supervisor   *)
(* process; all launches keep the set in one SQLite database.  A           *)
(* transaction holds the file lock `gate', first reaps the owners whose    *)
(* lease lock is free, then runs the request under a savepoint, commits    *)
(* and writes the `events' file.  A request that must block registers in   *)
(* `waiters', subscribes to inotify events on the directory, tries again   *)
(* and parks until an event, its deadline or a signal.                     *)
(*                                                                         *)
(* A launch may be killed between any two steps, and a transaction may     *)
(* fail, at a statement or at COMMIT, and is then rolled back.  SQLite,    *)
(* flock, inotify and process teardown are external: a commit is atomic,   *)
(* one that wrote pages appends to the write-ahead log (an IN_MODIFY event *)
(* of the directory), and the kernel closes a dead process's descriptors   *)
(* in the order in which they were opened: gate, lease, events.            *)
(***************************************************************************)
EXTENDS Integers, Sequences, FiniteSets

CONSTANTS
    Launches,   \* supervisor processes sharing the store
    Calls,      \* guest threads; each has at most one request in progress
    LaunchOf,   \* the launch a thread runs in
    NGroups,    \* SEM_UNDO groups are numbered from 1 (md_ipc_undo.id)
    GroupOf,    \* the thread's SEM_UNDO group
    Sems,       \* semaphore numbers of the set
    Initial,    \* the values the set was given when it was created
    Requests,   \* the requests each thread may make
    Timed,      \* threads whose requests have a deadline (semtimedop)
    Fallible,   \* threads one of whose transactions may fail
    SEMVMX,     \* largest semaphore value
    SEMAEM      \* largest absolute undo adjustment

Nobody == "nobody"
NoWait == [n |-> -1, zero |-> FALSE]
Idle == [kind |-> "none"]
Groups == 1..NGroups

ASSUME Limits == /\ SEMVMX \in Nat
                 /\ SEMAEM \in Nat
                 /\ Initial \in [Sems -> 0..SEMVMX]
                 /\ NGroups \in Nat
                 /\ GroupOf \in [Calls -> Groups]

VARIABLES
    exists,     \* the set's row in `objects'
    value,      \* `sems'
    undo,       \* `undo': adjustment per group and semaphore, 0 for no row
    waiters,    \* `waiters': what each registered thread waits for
    owners,     \* `owners': the registered launches
    gate,       \* the launch that holds the gate lock
    lease,      \* the launches whose lease file is locked
    launch,     \* life of each launch
    watch,      \* each thread's inotify descriptor
    pc,         \* where each thread's request is
    request,    \* md_ipc_pending.call
    blocked,    \* md_ipc_pending.blocked
    registered, \* md_ipc_pending.registered
    expired,    \* the deadline of the request has passed
    result,     \* what the last transaction of the request decided
    changed,    \* md_ipc.changed of the launch that holds the gate
    used,       \* the groups that asked for SEM_UNDO
    members,    \* the threads that still hold a reference to their group
    base,       \* history: the values last stored outside semop
    failed      \* history: whose transaction has failed (once each, a bound)

db == <<exists, value, undo, waiters, owners>>
pending == <<request, blocked, registered, expired>>
history == <<base, failed>>
vars == <<db, gate, lease, launch, watch, pc, pending, result, changed, used, members, history>>

-----------------------------------------------------------------------------
\* Transaction bodies, on the contents of the database.

Contents == [exists |-> exists, value |-> value, undo |-> undo, waiters |-> waiters,
             owners |-> owners, changed |-> FALSE, code |-> "OK", wait |-> NoWait]

Clamp(v) == IF v < 0 THEN 0 ELSE IF v > SEMVMX THEN SEMVMX ELSE v

NoUndo == [n \in Sems |-> 0]

\* md_ipc_undo_apply for one group: the adjustments are added and forgotten.
UndoApply(d, g) ==
    [d EXCEPT !.value = [n \in Sems |-> Clamp(d.value[n] + d.undo[g][n])],
              !.undo[g] = NoUndo,
              !.changed = @ \/ (d.exists /\ d.undo[g] # NoUndo)]

GroupsOf(ls) == {g \in Groups : \E c \in Calls : GroupOf[c] = g /\ LaunchOf[c] \in ls}

\* remove_owner: undo in the order of the group numbers, then the owner and,
\* by cascade, its waiters.
RemoveOwners(d, ls) ==
    LET applied[g \in 0..NGroups] ==
            IF g = 0 THEN d
            ELSE IF g \in GroupsOf(ls) THEN UndoApply(applied[g - 1], g) ELSE applied[g - 1]
    IN  [applied[NGroups] EXCEPT !.owners = @ \ ls,
                        !.waiters = [c \in Calls |-> IF LaunchOf[c] \in ls THEN NoWait ELSE @[c]]]

\* md_ipc_begin: every transaction of launch l starts by removing the owners
\* whose lease lock can be taken.
Reap(l) == RemoveOwners(Contents, (owners \ lease) \ {l})

\* One element of a semop vector.
OneOp(g, d, o) ==
    LET v == d.value[o.num] IN
    CASE d.code # "OK" -> d
      [] (o.op = 0 /\ v # 0) \/ (o.op < 0 /\ v < -o.op) ->
            [d EXCEPT !.code = IF o.nowait THEN "EAGAIN" ELSE "WAIT",
                      !.wait = [n |-> o.num, zero |-> o.op = 0]]
      [] v + o.op > SEMVMX -> [d EXCEPT !.code = "ERANGE"]
      [] o.undo /\ d.undo[g][o.num] - o.op \notin -SEMAEM..SEMAEM -> [d EXCEPT !.code = "ERANGE"]
      [] OTHER -> [d EXCEPT !.value[o.num] = @ + o.op,
                            !.undo[g][o.num] = IF o.undo THEN @ - o.op ELSE @,
                            !.changed = TRUE]

\* operate: the elements in order, stopping at the first that blocks or fails.
Operate(c, d) ==
    LET ops == request[c].ops
        after[i \in 0..Len(ops)] == IF i = 0 THEN d ELSE OneOp(GroupOf[c], after[i - 1], ops[i])
    IN  after[Len(ops)]

Override(f, new) == [n \in DOMAIN f |-> IF n \in DOMAIN new THEN new[n] ELSE f[n]]

\* semctl SETVAL (new is defined for one semaphore) and SETALL (for all):
\* the values, and no group's adjustment of them survives.
Setval(d, new) ==
    IF \E n \in DOMAIN new : new[n] \notin 0..SEMVMX THEN [d EXCEPT !.code = "ERANGE"]
    ELSE [d EXCEPT !.value = Override(@, new), !.changed = TRUE,
                   !.undo = [g \in Groups |-> Override(@[g], [n \in DOMAIN new |-> 0])]]

\* md_ipc_remove with its cascades to sems, undo and waiters.
RemoveSet(d) ==
    [d EXCEPT !.exists = FALSE, !.changed = TRUE, !.value = NoUndo,
              !.undo = [g \in Groups |-> NoUndo],
              !.waiters = [c \in Calls |-> NoWait]]

\* md_ipc_sem: a request on a set that is gone is EIDRM once it has blocked.
Sem(c, d) ==
    CASE ~d.exists -> [d EXCEPT !.code = IF blocked[c] THEN "EIDRM" ELSE "EINVAL"]
      [] d.exists /\ request[c].kind = "semop" -> Operate(c, d)
      [] d.exists /\ request[c].kind = "setval" -> Setval(d, request[c].new)
      [] d.exists /\ request[c].kind = "rmid" -> RemoveSet(d)

\* Mistake: no savepoint around the request.
KeptAll(tried, before) == [tried EXCEPT !.changed = before.changed]

\* ROLLBACK TO operation: a request that blocked or failed leaves what the
\* reaping did and nothing else.
Kept(tried, before) ==
    IF tried.code = "OK" THEN tried ELSE [before EXCEPT !.code = tried.code, !.wait = tried.wait]

\* Mistake: the deadline is only looked at before the request first blocks.
RegisteredLate(c, d) ==
    IF d.code = "WAIT" /\ (blocked[c] \/ ~expired[c])
    THEN [d EXCEPT !.waiters[c] = d.wait]
    ELSE [d EXCEPT !.waiters[c] = NoWait, !.code = IF @ = "WAIT" THEN "EAGAIN" ELSE @]

\* Mistake: ON CONFLICT DO NOTHING, a row keeps the first semaphore.
RegisteredOnce(c, d) ==
    IF d.code = "WAIT" /\ ~expired[c]
    THEN [d EXCEPT !.waiters[c] = IF @ = NoWait THEN d.wait ELSE @]
    ELSE [d EXCEPT !.waiters[c] = NoWait, !.code = IF @ = "WAIT" THEN "EAGAIN" ELSE @]

\* The deadline, then register_wait or unregister.
Registered(c, d) ==
    IF d.code = "WAIT" /\ ~expired[c]
    THEN [d EXCEPT !.waiters[c] = d.wait]
    ELSE [d EXCEPT !.waiters[c] = NoWait, !.code = IF @ = "WAIT" THEN "EAGAIN" ELSE @]

\* One pass of md_ipc_call's loop.
Outcome(c) == LET d == Reap(LaunchOf[c]) IN Registered(c, Kept(Sem(c, d), d))

-----------------------------------------------------------------------------
\* The database, the gate and the events of the directory (external).

\* A commit in which some page was written appends to the log even when a
\* rollback to the savepoint restored the page.
Touched(c) == \E n \in Sems : Sem(c, Reap(LaunchOf[c])).value[n] # value[n]

Notify(w) == [c \in Calls |-> IF w[c] = "none" THEN "none" ELSE "readable"]

Begin(l) == gate = Nobody /\ launch[l] = "up" /\ gate' = l

Store(d) ==
    /\ exists' = d.exists
    /\ value' = d.value
    /\ undo' = d.undo
    /\ waiters' = d.waiters
    /\ owners' = d.owners
    /\ changed' = d.changed

Commit(d, touched) ==
    /\ Store(d)
    /\ watch' = IF touched \/ db' # db THEN Notify(watch) ELSE watch

\* ROLLBACK: nothing is stored, but the log may have been written.
Rollback ==
    /\ watch' \in {watch, Notify(watch)}
    /\ changed' = FALSE
    /\ UNCHANGED db

-----------------------------------------------------------------------------
Init ==
    /\ exists = TRUE /\ value = Initial /\ base = Initial
    /\ undo = [g \in Groups |-> NoUndo]
    /\ waiters = [c \in Calls |-> NoWait]
    /\ owners = {} /\ gate = Nobody /\ lease = {}
    /\ launch = [l \in Launches |-> "new"]
    /\ watch = [c \in Calls |-> "none"]
    /\ pc = [c \in Calls |-> "idle"]
    /\ request = [c \in Calls |-> Idle]
    /\ blocked = [c \in Calls |-> FALSE]
    /\ registered = [c \in Calls |-> FALSE]
    /\ expired = [c \in Calls |-> FALSE]
    /\ result = [c \in Calls |-> "OK"]
    /\ changed = FALSE /\ used = {} /\ members = Calls /\ failed = {}

\* md_ipc_open: lease, reaping and registration under one hold of the gate.
Open(l) ==
    /\ gate = Nobody /\ launch[l] = "new"
    /\ launch' = [launch EXCEPT ![l] = "up"]
    /\ lease' = lease \cup {l}
    /\ LET d == Reap(l) IN
         /\ Store([d EXCEPT !.owners = @ \cup {l}, !.changed = FALSE])
         /\ watch' = Notify(watch)
    /\ UNCHANGED <<gate, pc, pending, result, used, members, history>>

\* md_ipc_call with no pending request: the arguments are captured.
Call(c, r) ==
    /\ launch[LaunchOf[c]] = "up" /\ pc[c] = "idle" /\ c \in members
    /\ pc' = [pc EXCEPT ![c] = "begin"]
    /\ request' = [request EXCEPT ![c] = r]
    /\ used' = IF r.kind = "semop" /\ \E i \in DOMAIN r.ops : r.ops[i].undo
               THEN used \cup {GroupOf[c]} ELSE used
    /\ UNCHANGED <<db, gate, lease, launch, watch, blocked, expired, result, changed,
                   members, registered, history>>

\* The watcher's events are read before the transaction that looks again.
Drain(c) ==
    /\ launch[LaunchOf[c]] = "up" /\ pc[c] = "drain"
    /\ watch' = [watch EXCEPT ![c] = "quiet"]
    /\ pc' = [pc EXCEPT ![c] = "begin"]
    /\ UNCHANGED <<db, gate, lease, launch, pending, result, changed, used, members, history>>

\* History: the operations of a vector that ask for no undo.
WithoutUndo(b, ops) ==
    LET after[i \in 0..Len(ops)] ==
            IF i = 0 THEN b
            ELSE IF ops[i].undo THEN after[i - 1] ELSE [after[i - 1] EXCEPT ![ops[i].num] = @ + ops[i].op]
    IN  after[Len(ops)]

\* md_ipc_begin ... COMMIT of one pass; the gate stays held.
Attempt(c) ==
    /\ pc[c] = "begin" /\ Begin(LaunchOf[c])
    /\ LET d == Outcome(c) IN
         /\ Commit(d, Touched(c))
         /\ result' = [result EXCEPT ![c] = d.code]
         /\ registered' = [registered EXCEPT ![c] = d.code = "WAIT"]
         /\ base' = IF d.code # "OK" THEN base
                    ELSE CASE request[c].kind = "setval" -> Override(base, request[c].new)
                           [] request[c].kind = "rmid" -> NoUndo
                           [] request[c].kind = "semop" -> WithoutUndo(base, request[c].ops)
    /\ pc' = [pc EXCEPT ![c] = "finish"]
    /\ UNCHANGED <<lease, launch, request, blocked, expired, used, members, failed>>

\* ... or a statement or the COMMIT fails.  The flag that says whether the
\* caller has a row is then either untouched or already changed.
AttemptFails(c) ==
    /\ pc[c] = "begin" /\ c \in Fallible \ failed /\ Begin(LaunchOf[c])
    /\ Rollback
    /\ result' = [result EXCEPT ![c] = "EIO"]
    /\ \E flag \in {registered[c], Outcome(c).code = "WAIT"} :
         registered' = [registered EXCEPT ![c] = flag]
    /\ pc' = [pc EXCEPT ![c] = "finish"]
    /\ failed' = failed \cup {c}
    /\ UNCHANGED <<lease, launch, request, blocked, expired, used, members, base>>

\* Mistake: the caller parks without a second attempt after subscribing.
ParkUnsubscribed(c) ==
    /\ pc[c] = "finish"
    /\ watch' = [(IF changed THEN Notify(watch) ELSE watch)
                   EXCEPT ![c] = IF result[c] # "WAIT" THEN "none" ELSE IF @ = "none" THEN "quiet" ELSE @]
    /\ gate' = Nobody /\ changed' = FALSE
    /\ pc' = [pc EXCEPT ![c] = IF result[c] = "WAIT" THEN "parked" ELSE "idle"]
    /\ blocked' = [blocked EXCEPT ![c] = result[c] = "WAIT"]
    /\ request' = [request EXCEPT ![c] = IF result[c] = "WAIT" THEN @ ELSE Idle]
    /\ expired' = [expired EXCEPT ![c] = @ /\ result[c] = "WAIT"]
    /\ UNCHANGED <<db, lease, launch, result, used, members, registered, history>>

\* The rest of md_ipc_finish (events, gate) and of the pass: a request that
\* blocks parks if it already watches the directory and otherwise subscribes
\* and goes round again; a decided one frees its pending record, after
\* another transaction (md_ipc_cancel) if it still believes it has a row.
Finish(c) ==
    /\ pc[c] = "finish"
    /\ gate' = Nobody /\ changed' = FALSE
    /\ LET w == IF changed THEN Notify(watch) ELSE watch IN
       \/ /\ result[c] = "WAIT"
          /\ watch' = w
          /\ pc' = [pc EXCEPT ![c] = IF w[c] = "none" THEN "subscribe" ELSE "parked"]
          /\ blocked' = [blocked EXCEPT ![c] = TRUE]
          /\ UNCHANGED <<request, expired, result>>
       \/ /\ result[c] # "WAIT" /\ registered[c]
          /\ watch' = w
          /\ pc' = [pc EXCEPT ![c] = "cancel"]
          /\ UNCHANGED <<request, blocked, expired, result>>
       \/ /\ result[c] # "WAIT" /\ ~registered[c]
          /\ watch' = [w EXCEPT ![c] = "none"]
          /\ pc' = [pc EXCEPT ![c] = "idle"]
          /\ blocked' = [blocked EXCEPT ![c] = FALSE]
          /\ request' = [request EXCEPT ![c] = Idle]
          /\ expired' = [expired EXCEPT ![c] = FALSE]
          /\ result' = [result EXCEPT ![c] = "OK"]
    /\ UNCHANGED <<db, lease, launch, registered, used, members, history>>

\* watcher(): inotify from here on, then the loop drains and looks again.
Subscribe(c) ==
    /\ launch[LaunchOf[c]] = "up" /\ pc[c] = "subscribe"
    /\ watch' = [watch EXCEPT ![c] = "quiet"]
    /\ pc' = [pc EXCEPT ![c] = "drain"]
    /\ UNCHANGED <<db, gate, lease, launch, pending, result, changed, used, members, history>>

\* The clock passes the absolute deadline of a request.
Expire(c) ==
    /\ c \in Timed /\ ~expired[c] /\ blocked[c]
    /\ pc[c] \in {"drain", "begin", "parked"} /\ launch[LaunchOf[c]] = "up"
    /\ expired' = [expired EXCEPT ![c] = TRUE]
    /\ UNCHANGED <<db, gate, lease, launch, watch, pc, request, blocked, result, changed,
                   used, members, registered, history>>

\* ipc_events_ready, or the guest's ppoll timing out: md_ipc_call again.
Wake(c) ==
    /\ launch[LaunchOf[c]] = "up" /\ pc[c] = "parked"
    /\ watch[c] = "readable" \/ expired[c]
    /\ pc' = [pc EXCEPT ![c] = "drain"]
    /\ UNCHANGED <<db, gate, lease, launch, watch, pending, result, changed, used, members,
                   history>>

\* A signal interrupts the guest's ppoll, or a failed pass gives up:
\* md_ipc_cancel unregisters in a transaction of its own.
Cancel(c) ==
    /\ pc[c] \in {"parked", "cancel"} /\ Begin(LaunchOf[c])
    /\ Commit([Reap(LaunchOf[c]) EXCEPT !.waiters[c] = NoWait], FALSE)
    /\ result' = [result EXCEPT ![c] = IF pc[c] = "parked" THEN "EINTR" ELSE @]
    /\ registered' = [registered EXCEPT ![c] = FALSE]
    /\ pc' = [pc EXCEPT ![c] = "finish"]
    /\ UNCHANGED <<lease, launch, request, blocked, expired, used, members, history>>

\* ... which may fail too; the pending record is freed all the same.
CancelFails(c) ==
    /\ pc[c] \in {"parked", "cancel"} /\ c \in Fallible \ failed /\ Begin(LaunchOf[c])
    /\ Rollback
    /\ result' = [result EXCEPT ![c] = "EIO"]
    /\ registered' = [registered EXCEPT ![c] = FALSE]
    /\ pc' = [pc EXCEPT ![c] = "finish"]
    /\ failed' = failed \cup {c}
    /\ UNCHANGED <<lease, launch, request, blocked, expired, used, members, base>>

\* md_ipc_undo_release: a thread leaves its group; the last one of a group
\* that used SEM_UNDO owes the transaction that applies its adjustments.
Exit(c) ==
    /\ launch[LaunchOf[c]] = "up" /\ pc[c] = "idle" /\ c \in members
    /\ members' = members \ {c}
    /\ pc' = [pc EXCEPT ![c] = IF GroupOf[c] \in used /\ \A d \in members' : GroupOf[d] # GroupOf[c]
                               THEN "release" ELSE "idle"]
    /\ UNCHANGED <<db, gate, lease, launch, watch, pending, result, changed, used, history>>

\* (The supervisor ends when this transaction fails, which is Kill.)
Release(c) ==
    /\ pc[c] = "release" /\ Begin(LaunchOf[c])
    /\ Commit(UndoApply(Reap(LaunchOf[c]), GroupOf[c]), FALSE)
    /\ result' = [result EXCEPT ![c] = "OK"]
    /\ pc' = [pc EXCEPT ![c] = "finish"]
    /\ UNCHANGED <<lease, launch, pending, used, members, history>>

\* md_ipc_close once every thread is gone: the launch removes its own owner,
\* or fails to and leaves it to the others.
Close(l) ==
    /\ Begin(l) /\ \A c \in Calls : LaunchOf[c] = l => c \notin members /\ pc[c] = "idle"
    /\ Commit(RemoveOwners(Reap(l), {l}), FALSE) \/ Rollback
    /\ launch' = [launch EXCEPT ![l] = "closing"]
    /\ UNCHANGED <<lease, pc, pending, result, used, members, history>>

\* ... then events and gate, and md_ipc_database_close deletes the lease.
Closed(l) ==
    /\ launch[l] = "closing"
    /\ launch' = [launch EXCEPT ![l] = "gone"]
    /\ gate' = Nobody /\ changed' = FALSE /\ lease' = lease \ {l}
    /\ watch' = Notify(watch)
    /\ UNCHANGED <<db, pc, pending, result, used, members, history>>

\* The launch is killed.  Its watches go, the gate opens, and closing the
\* gate and the lease raises events before the lease lock is dropped.
Kill(l) ==
    /\ launch[l] \in {"up", "closing"}
    /\ launch' = [launch EXCEPT ![l] = "killed"]
    /\ watch' = Notify([c \in Calls |-> IF LaunchOf[c] = l THEN "none" ELSE watch[c]])
    /\ gate' = IF gate = l THEN Nobody ELSE gate
    /\ changed' = (changed /\ gate # l)
    /\ pc' = [c \in Calls |-> IF LaunchOf[c] = l THEN "idle" ELSE pc[c]]
    /\ request' = [c \in Calls |-> IF LaunchOf[c] = l THEN Idle ELSE request[c]]
    /\ blocked' = [c \in Calls |-> LaunchOf[c] # l /\ blocked[c]]
    /\ registered' = [c \in Calls |-> LaunchOf[c] # l /\ registered[c]]
    /\ expired' = [c \in Calls |-> LaunchOf[c] # l /\ expired[c]]
    /\ result' = [c \in Calls |-> IF LaunchOf[c] = l THEN "OK" ELSE result[c]]
    /\ members' = {c \in members : LaunchOf[c] # l}
    /\ UNCHANGED <<db, lease, used, history>>

Unlock(l) ==
    /\ launch[l] = "killed" /\ l \in lease
    /\ lease' = lease \ {l}
    /\ UNCHANGED <<db, gate, launch, watch, pc, pending, result, changed, used, members,
                   history>>

\* The database's and the events file's descriptors are closed last.
CloseEvents(l) ==
    /\ launch[l] = "killed" /\ l \notin lease
    /\ launch' = [launch EXCEPT ![l] = "gone"]
    /\ watch' = Notify(watch)
    /\ UNCHANGED <<db, gate, lease, pc, pending, result, changed, used, members, history>>

Step(c) == Drain(c) \/ Attempt(c) \/ AttemptFails(c) \/ Finish(c) \/ Subscribe(c) \/ Wake(c) \/ Release(c)
Teardown(l) == Closed(l) \/ Unlock(l) \/ CloseEvents(l)

Next ==
    \/ \E c \in Calls : \/ Step(c) \/ Expire(c) \/ Cancel(c) \/ CancelFails(c) \/ Exit(c)
                        \/ \E r \in Requests[c] : Call(c, r)
    \/ \E l \in Launches : Open(l) \/ Close(l) \/ Kill(l) \/ Teardown(l)

Spec == Init /\ [][Next]_vars

\* A supervisor's event loop goes on, the kernel finishes a teardown, and
\* flock queues its waiters: a launch that keeps asking gets the gate.  A
\* transaction is named by the move of pc that only it makes.
Transaction(c, from) ==
    /\ gate = Nobody /\ launch[LaunchOf[c]] = "up" /\ pc[c] = from
    /\ pc' = [pc EXCEPT ![c] = "finish"]

FairSpec ==
    /\ Spec
    /\ \A c \in Calls : /\ WF_vars(Drain(c) \/ Finish(c) \/ Subscribe(c) \/ Wake(c))
                        /\ SF_pc(Transaction(c, "begin"))
                        /\ SF_pc(Transaction(c, "cancel"))
                        /\ SF_pc(Transaction(c, "release"))
    /\ \A l \in Launches : WF_vars(Teardown(l))

-----------------------------------------------------------------------------
\* Every variable holds what its table, lock or field can hold.  The limits
\* on values and adjustments are the ones operate, undo and the exit clamp
\* enforce.
TypeOK ==
    /\ exists \in BOOLEAN /\ changed \in BOOLEAN
    /\ value \in [Sems -> 0..SEMVMX]
    /\ undo \in [Groups -> [Sems -> -SEMAEM..SEMAEM]]
    /\ waiters \in [Calls -> [n : Sems, zero : BOOLEAN] \cup {NoWait}]
    /\ owners \subseteq Launches /\ lease \subseteq Launches
    /\ gate \in Launches \cup {Nobody}
    /\ launch \in [Launches -> {"new", "up", "closing", "killed", "gone"}]
    /\ watch \in [Calls -> {"none", "quiet", "readable"}]
    /\ pc \in [Calls -> {"idle", "drain", "begin", "finish", "subscribe", "parked", "cancel", "release"}]
    /\ \A c \in Calls : request[c] \in Requests[c] \cup {Idle}
    /\ blocked \in [Calls -> BOOLEAN] /\ expired \in [Calls -> BOOLEAN]
    /\ registered \in [Calls -> BOOLEAN] /\ failed \subseteq Calls
    /\ result \in [Calls -> {"OK", "WAIT", "EAGAIN", "ERANGE", "EINVAL", "EIDRM", "EINTR", "EIO"}]
    /\ used \subseteq Groups /\ members \subseteq Calls

\* SEM_UNDO is neither lost nor applied twice: whatever mixture of semop,
\* rollback, SETVAL, thread exit, launch exit, kill and reaping has happened,
\* the value of a semaphore plus the adjustments still owed is the value it
\* was last given outside SEM_UNDO.  A launch that lives and has registered is
\* never reaped, and adjustments exist only for registered launches, so each
\* one is paid by its thread's exit or by the reaping.  (Stated for requests
\* whose adjustments are not clamped at exit; clamping is meant to lose the
\* difference.)
UndoConserved ==
    /\ TypeOK
    /\ \A l \in Launches : launch[l] = "up" => l \in owners /\ l \in lease
    /\ \A c \in Calls : LaunchOf[c] \notin owners => undo[GroupOf[c]] = NoUndo
    /\ exists => \A n \in Sems :
        LET owed[g \in 0..NGroups] == IF g = 0 THEN 0 ELSE owed[g - 1] + undo[g][n]
        IN  value[n] + owed[NGroups] = base[n]

Settled == gate = Nobody /\ \A l \in Launches : launch[l] # "killed"

\* No lost wakeup: while no transaction and no process teardown is under
\* way, a parked thread with nothing to read would still have to wait if it
\* looked now.  In particular a set it waits for has not been removed, and no
\* dead launch holds an adjustment that would let it go on.
NoMissedWake ==
    Settled => \A c \in Calls :
        pc[c] = "parked" /\ watch[c] = "quiet" /\ ~expired[c] => Outcome(c).code = "WAIT"

\* GETNCNT and GETZCNT tell the truth.  Outside a transaction a row of
\* `waiters' stands for a thread of a live launch whose request has blocked
\* and has an element that waits on that semaphore in that way; and a parked
\* thread with nothing to read has a row, for the very semaphore on which it
\* would block if it looked now.  Two kinds of rows outlive their wait: those
\* of a dead launch, which the next transaction removes, and one whose
\* removal failed after the caller's own flag had been cleared.
WaitersAreBlocked ==
    gate = Nobody => \A c \in Calls :
        /\ waiters[c] # NoWait =>
             \/ /\ blocked[c] /\ registered[c]
                /\ \E i \in DOMAIN request[c].ops :
                     waiters[c] = [n |-> request[c].ops[i].num, zero |-> request[c].ops[i].op = 0]
             \/ /\ LaunchOf[c] \in owners
                /\ launch[LaunchOf[c]] \in {"killed", "gone"}
             \/ ~registered[c] /\ c \in failed
        /\ Settled /\ pc[c] = "parked" /\ watch[c] = "quiet" /\ ~expired[c] =>
             waiters[c] = Outcome(c).wait

CanGo(c) == blocked[c] /\ gate = Nobody => Outcome(c).code # "WAIT"
Waiting(c) == blocked[c] /\ launch[LaunchOf[c]] = "up"

\* A blocked request whose condition has come to hold for good does not stay
\* blocked, whoever makes it hold: another launch, a thread's exit, a removal
\* or the death of a launch that held an adjustment.
BlockedGoesOn == \A c \in Calls : ~<>[](Waiting(c) /\ CanGo(c))

\* The absolute deadline of semtimedop survives every retry: however often a
\* timed request is woken for nothing, once its deadline has passed it ends.
DeadlineEnds == \A c \in Timed : expired[c] ~> ~expired[c]

\* sysv-ipc.md: committed mutations and closed owner leases wake a blocked
\* call, there is no polling.  So a blocked request comes to rest: again and
\* again it is either over or asleep with nothing to read.
BlockedRests ==
    \A c \in Calls : []<>(~blocked[c] \/ (pc[c] = "parked" /\ watch[c] = "quiet"))

=============================================================================
