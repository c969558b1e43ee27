------------------------------- MODULE Cgroup -------------------------------
(***************************************************************************)
(* The unified control-group hierarchy of native/shroot/src/cgroup.c:      *)
(* groups, members, the pids controller, population and freezer state, and *)
(* a reader of cgroup.events.  The supervisor's thread forks, publishes,   *)
(* reaps, migrates and freezes; the filesystem worker's thread mounts,     *)
(* makes and removes directories.  The world's mutex makes one action of   *)
(* what is done under it.  A migration is a loop over members: each turn   *)
(* of it is an action, and the mutex keeps the others out until it ends.   *)
(* The return of an exec takes the mutex twice, and only the supervisor's  *)
(* thread is busy in between.                                              *)
(*                                                                         *)
(* Permissions and mount options only refuse operations.  Named and        *)
(* devices hierarchies have groups of their own; the other controllers     *)
(* and sampled usage have fields of their own.  They are left out.         *)
(***************************************************************************)
EXTENDS Integers, FiniteSets

CONSTANTS
    Groups,     \* struct group: every directory ever made
    Root,       \* the view's root
    Up,         \* Up[g]: the groups that a walk along ->parent visits, from g on
    Members,    \* struct md_cgroup_member
    Leader,     \* the launch's first task
    Limits,     \* bound: the numbers written to pids.max
    Watched,    \* the groups whose cgroup.events is open
    Menus,      \* the controls that the launch's programs write or poll, of which groups
    None

ASSUME CgroupAssumption ==
    /\ IsFiniteSet(Members) /\ Leader \in Members
    /\ Root \in Groups /\ Watched \subseteq Groups
    /\ Up \in [Groups -> SUBSET Groups]
    /\ \A g \in Groups : g \in Up[g] /\ Root \in Up[g]
    /\ \A g \in Groups : \A a \in Up[g] : Up[a] \subseteq Up[g]
    /\ Up[Root] = {Root}
    /\ Limits \subseteq Nat
    /\ Menus \subseteq SUBSET ({"freeze", "max", "subtree", "poll"} \X Groups)
    /\ None \notin Groups \cup Members \cup Limits

\* A walk comes to an ancestor through one of its children, and meets the
\* groups of a set one after the other.
ASSUME WalkAssumption ==
    /\ \A g \in Groups : \A a \in Up[g] \ {g} : \E c \in Up[g] : c # a /\ Up[c] = Up[a] \cup {c}
    /\ \A g \in Groups : \A s \in (SUBSET Up[g]) \ {{}} : \E a \in s : s \subseteq Up[a]

VARIABLES
    dir,        \* whether the group's directory is there
    subtree,    \* g->subtree, of the pids controller
    max,        \* g->pids_max, None for "max"
    charged,    \* g->pids_charged
    refused,    \* the groups with a pids_failures that nobody has read yet
    freeze,     \* g->freeze
    effective,  \* g->effective_freeze
    frozen,     \* g->frozen
    populated,  \* g->populated
    stopped,    \* g->stopped
    task,       \* the member's life: reserved, m->tid, m->departed; "exec" is departed by
                \* an exec, to be published again
    at,         \* m->groups[0]
    process,    \* m->tgid, as the member that leads the thread group
    maker,      \* whose clone call holds the reservation, or whose place an exec takes
    counted,    \* m->charged
    freezing,   \* m->freezing
    halted,     \* m->stopped
    zombie,     \* the kernel has a task of the departed one's number
    lock,       \* what the mutex holder, or the return of an exec, has left to do
    used,       \* freezer_generation # 0
    dirty,      \* freezer_generation is not the one the supervisor read last, and
                \* freezer_wakeup has an event that tells it so
    seen,       \* what the reader of cgroup.events read last
    ready,      \* the reader's observed generation is behind, or nothing was read
    writes      \* the controls that this launch writes or polls

groups == <<dir, subtree, max, freeze>>
pids == <<charged, counted, refused>>
events == <<frozen, populated, stopped, ready>>
births == <<task, at, process, maker, zombie>>
wakeup == <<lock, used, dirty>>
vars == <<groups, pids, events, births, wakeup, effective, freezing, halted, seen, writes>>

Free == [op |-> "free", to |-> None, left |-> {}]
Moving(g, s) == [op |-> "move", to |-> g, left |-> s]
Replacing(l) == [op |-> "exec", to |-> None, left |-> {l}]
Unread == [populated |-> None, frozen |-> None]

\* The program's types.  A member that was never reserved has no place.
TypeOK ==
    /\ dir \in [Groups -> {"absent", "live", "removed"}]
    /\ subtree \in [Groups -> BOOLEAN]
    /\ max \in [Groups -> Limits \cup {None}]
    /\ charged \in [Groups -> Int]
    /\ refused \in SUBSET Groups
    /\ freeze \in [Groups -> BOOLEAN]
    /\ effective \in [Groups -> BOOLEAN]
    /\ frozen \in [Groups -> BOOLEAN]
    /\ populated \in [Groups -> Int]
    /\ stopped \in [Groups -> Int]
    /\ task \in [Members -> {"none", "reserved", "live", "exec", "departed"}]
    /\ at \in [Members -> Groups \cup {None}]
    /\ process \in [Members -> Members \cup {None}]
    /\ maker \in [Members -> Members \cup {None}]
    /\ counted \in [Members -> BOOLEAN]
    /\ freezing \in [Members -> BOOLEAN]
    /\ halted \in [Members -> BOOLEAN]
    /\ zombie \in [Members -> BOOLEAN]
    /\ lock \in [op : {"free", "move", "exec"}, to : Groups \cup {None}, left : SUBSET Members]
    /\ used \in BOOLEAN /\ dirty \in BOOLEAN
    /\ seen \in [Watched -> {Unread} \cup [populated : BOOLEAN, frozen : BOOLEAN]]
    /\ ready \in [Watched -> BOOLEAN]
    /\ writes \in Menus

\* The leader is published before anything is mounted; it is charged, and
\* waits for a hierarchy to be charged to.
Init ==
    /\ dir = [g \in Groups |-> "absent"]
    /\ subtree = [g \in Groups |-> FALSE]
    /\ max = [g \in Groups |-> None]
    /\ charged = [g \in Groups |-> 0]
    /\ refused = {}
    /\ freeze = [g \in Groups |-> FALSE]
    /\ effective = [g \in Groups |-> FALSE]
    /\ frozen = [g \in Groups |-> FALSE]
    /\ populated = [g \in Groups |-> 0]
    /\ stopped = [g \in Groups |-> 0]
    /\ task = [m \in Members |-> IF m = Leader THEN "live" ELSE "none"]
    /\ at = [m \in Members |-> None]
    /\ process = [m \in Members |-> IF m = Leader THEN m ELSE None]
    /\ maker = [m \in Members |-> None]
    /\ counted = [m \in Members |-> m = Leader]
    /\ freezing = [m \in Members |-> FALSE]
    /\ halted = [m \in Members |-> FALSE]
    /\ zombie = [m \in Members |-> FALSE]
    /\ lock = Free
    /\ used = FALSE /\ dirty = FALSE
    /\ seen = [w \in Watched |-> Unread]
    /\ ready = [w \in Watched |-> TRUE]
    /\ writes \in Menus

-----------------------------------------------------------------------------
\* A walk along ->parent from a member's slot, which is NULL before the mount.
Chain(g) == IF g = None THEN {} ELSE Up[g]

IsChild(c, g) == c # g /\ Up[c] = Up[g] \cup {c}

\* md_cgroup_rmdir and subtree_write count tasks and reservations.
Occupied(g) == \E m \in Members : task[m] \in {"live", "reserved"} /\ at[m] = g

\* freezing(): an ancestor or the group itself is told to freeze.
Freezing(g, f) == \E a \in Chain(g) : f[a]

\* available() and enabled(), of the pids controller: the root has no
\* pids.* controls.
Available(g) == g = Root \/ \E p \in Groups : IsChild(g, p) /\ subtree[p]
Enabled(g) == g # Root /\ Available(g)

\* The counters of the groups in s, one up or one down.
Add(counter, s, n) == [g \in Groups |-> counter[g] + (IF g \in s THEN n ELSE 0)]

\* frozen_event on the groups in s, after the counters and the effective
\* state have been updated; changed are the groups that report an event anyway.
Report(s, changed) ==
    /\ frozen' = [g \in Groups |-> IF g \in s THEN effective'[g] /\ stopped'[g] = populated'[g]
                                   ELSE frozen[g]]
    /\ ready' = [w \in Watched |-> ready[w] \/ w \in changed
                                   \/ (w \in s /\ frozen'[w] # frozen[w])]

\* Mistake: the walk reports the branch that is left, not the one that is entered.
MembershipChangeHalf(m, old, next) ==
    LET out == Chain(old) \ Chain(next)
        in == Chain(next) \ Chain(old)
        n == IF halted[m] THEN 1 ELSE 0
    IN /\ populated' = Add(Add(populated, out, -1), in, 1)
       /\ stopped' = Add(Add(stopped, out, -n), in, n)
       /\ UNCHANGED effective
       /\ Report(out \cup in, {g \in out : populated[g] = 1})

\* membership_change: only the two branches below the common ancestor change.
MembershipChange(m, old, next) ==
    LET out == Chain(old) \ Chain(next)
        in == Chain(next) \ Chain(old)
        n == IF halted[m] THEN 1 ELSE 0
    IN /\ populated' = Add(Add(populated, out, -1), in, 1)
       /\ stopped' = Add(Add(stopped, out, -n), in, n)
       /\ UNCHANGED effective
       /\ Report(out \cup in, {g \in out : populated[g] = 1} \cup {g \in in : populated[g] = 0})

-----------------------------------------------------------------------------
\* Directories.

\* md_cgroup_mount, the first time: the tasks that are there get the root.
Mount ==
    /\ lock.op # "move" /\ dir[Root] = "absent"
    /\ dir' = [dir EXCEPT ![Root] = "live"]
    /\ at' = [m \in Members |-> IF task[m] = "none" THEN None ELSE Root]
    /\ populated' = [populated EXCEPT ![Root] = Cardinality({m \in Members : task[m] = "live"})]
    /\ charged' = [charged EXCEPT ![Root] = Cardinality({m \in Members : counted[m]})]
    /\ UNCHANGED <<subtree, max, freeze, counted, refused, frozen, stopped, ready, task, process,
                   maker, zombie, wakeup, effective, freezing, halted, seen>>

\* md_cgroup_mkdir with populate(): a group below a frozen one is born frozen.
Mkdir(g) ==
    /\ lock.op # "move" /\ dir[g] = "absent"
    /\ \E p \in Groups : IsChild(g, p) /\ dir[p] = "live"
    /\ dir' = [dir EXCEPT ![g] = "live"]
    /\ effective' = [effective EXCEPT ![g] = Freezing(g, freeze)]
    /\ frozen' = [frozen EXCEPT ![g] = Freezing(g, freeze)]
    /\ UNCHANGED <<subtree, max, freeze, pids, populated, stopped, ready, births, wakeup, freezing,
                   halted, seen>>

\* Mistake: a reservation does not keep the group.
RmdirReserved(g) ==
    /\ lock.op # "move" /\ dir[g] = "live" /\ g # Root
    /\ \A c \in Groups : IsChild(c, g) => dir[c] # "live"
    /\ \A m \in Members : task[m] = "live" => at[m] # g
    /\ dir' = [dir EXCEPT ![g] = "removed"]
    /\ ready' = [w \in Watched |-> ready[w] \/ w = g]
    /\ UNCHANGED <<subtree, max, freeze, pids, frozen, populated, stopped, births, wakeup,
                   effective, freezing, halted, seen>>

\* md_cgroup_rmdir.  The group outlives its directory; zombies stay charged to it.
Rmdir(g) ==
    /\ lock.op # "move" /\ dir[g] = "live" /\ g # Root
    /\ \A c \in Groups : IsChild(c, g) => dir[c] # "live"
    /\ ~Occupied(g)
    /\ dir' = [dir EXCEPT ![g] = "removed"]
    /\ ready' = [w \in Watched |-> ready[w] \/ w = g]
    /\ UNCHANGED <<subtree, max, freeze, pids, frozen, populated, stopped, births, wakeup,
                   effective, freezing, halted, seen>>

-----------------------------------------------------------------------------
\* The pids controller.

\* pids_full().
Full(g, count) == \E a \in Chain(g) : max[a] # None /\ count[a] >= max[a]

\* The zombies that pids_reconcile finds reaped by a wait nobody observed: it
\* asks /proc for the number.
Stale == {m \in Members : task[m] = "departed" /\ counted[m] /\ ~zombie[m]}

Reconciled ==
    [g \in Groups |-> charged[g] - Cardinality({m \in Stale : g \in Chain(at[m])})]

\* pids_reserve: whose pids.events counts the refusal.
Owner(g) ==
    LET enabled == {a \in Chain(g) : Enabled(a)}
    IN IF enabled = {} THEN Root
       ELSE CHOOSE a \in enabled : enabled \subseteq Up[a]

\* Mistake: the count is not reconciled before a birth is refused.
RefuseAtOnce(p, g) ==
    /\ lock = Free /\ task[p] = "live" /\ ~\E d \in Members : maker[d] = p
    /\ Full(g, charged)
    /\ refused' = refused \cup {Owner(g)}
    /\ UNCHANGED <<groups, charged, counted, events, births, wakeup, effective, freezing, halted, seen>>

\* pids_reserve, without success: what was stale is no longer charged.
Refuse(p, g) ==
    /\ lock = Free /\ task[p] = "live" /\ ~\E d \in Members : maker[d] = p
    /\ Full(g, charged) /\ Full(g, Reconciled)
    /\ refused' = refused \cup {Owner(g)}
    /\ charged' = Reconciled
    /\ counted' = [m \in Members |-> counted[m] /\ m \notin Stale]
    /\ UNCHANGED <<groups, events, births, wakeup, effective, freezing, halted, seen>>

\* Mistake: only the group itself is compared with its limit.
ReserveLocal(p, c, g, thread) ==
    /\ lock = Free /\ task[p] = "live" /\ task[c] = "none" /\ ~\E d \in Members : maker[d] = p
    /\ ~(g # None /\ max[g] # None /\ charged[g] >= max[g])
    /\ charged' = Add(charged, Chain(g), 1)
    /\ counted' = [counted EXCEPT ![c] = TRUE]
    /\ task' = [task EXCEPT ![c] = "reserved"]
    /\ at' = [at EXCEPT ![c] = g]
    /\ process' = [process EXCEPT ![c] = IF thread THEN process[p] ELSE c]
    /\ maker' = [maker EXCEPT ![c] = p]
    /\ freezing' = [freezing EXCEPT ![c] = Freezing(g, freeze)]
    /\ halted' = [halted EXCEPT ![c] = FALSE]
    /\ UNCHANGED <<groups, refused, events, zombie, wakeup, effective, seen>>

\* pids_reserve and the new member, reserved until the newborn is published.
Reserve(p, c, g, thread) ==
    LET full == Full(g, charged)
        count == IF full THEN Reconciled ELSE charged
    IN /\ lock = Free /\ task[p] = "live" /\ task[c] = "none" /\ ~\E d \in Members : maker[d] = p
       /\ ~Full(g, count)
       /\ charged' = Add(count, Chain(g), 1)
       /\ counted' = [m \in Members |-> m = c \/ (counted[m] /\ ~(full /\ m \in Stale))]
       /\ task' = [task EXCEPT ![c] = "reserved"]
       /\ at' = [at EXCEPT ![c] = g]
       /\ process' = [process EXCEPT ![c] = IF thread THEN process[p] ELSE c]
       /\ maker' = [maker EXCEPT ![c] = p]
       /\ freezing' = [freezing EXCEPT ![c] = Freezing(g, freeze)]
       /\ halted' = [halted EXCEPT ![c] = FALSE]
       /\ UNCHANGED <<groups, refused, events, zombie, wakeup, effective, seen>>

\* attach_allowed: no process inside the hierarchy.
AttachAllowed(g) == dir[g] = "live" /\ ~(g # Root /\ subtree[g])

\* md_cgroup_member_fork.
Fork(p, c, thread) == Reserve(p, c, at[p], thread)
ForkRefused(p) == Refuse(p, at[p])

\* md_cgroup_member_clone: a thread cannot be born into another group.
CloneInto(p, c, g, thread) ==
    /\ AttachAllowed(g)
    /\ thread => at[p] = g
    /\ Reserve(p, c, g, thread)

CloneRefused(p, g) == AttachAllowed(g) /\ Refuse(p, g)

\* Reading pids.current.
ReadCurrent ==
    /\ lock = Free /\ Stale # {}
    /\ \E g \in Groups : dir[g] = "live" /\ Enabled(g)
    /\ charged' = Reconciled
    /\ counted' = [m \in Members |-> counted[m] /\ m \notin Stale]
    /\ UNCHANGED <<groups, refused, events, births, wakeup, effective, freezing, halted, seen>>

\* Reading pids.events.
ReadFailures(g) ==
    /\ lock = Free /\ dir[g] = "live" /\ Enabled(g) /\ g \in refused
    /\ refused' = refused \ {g}
    /\ UNCHANGED <<groups, charged, counted, events, births, wakeup, effective, freezing, halted, seen>>

\* Writing pids.max.
WriteMax(g, limit) ==
    /\ <<"max", g>> \in writes
    /\ lock = Free /\ dir[g] = "live" /\ Enabled(g) /\ max[g] # limit
    /\ max' = [max EXCEPT ![g] = limit]
    /\ UNCHANGED <<dir, subtree, freeze, pids, events, births, wakeup, effective, freezing, halted, seen>>

\* Mistake: only published tasks keep a group from getting controllers.
EnableReserved(g) ==
    /\ <<"subtree", g>> \in writes
    /\ lock = Free /\ dir[g] = "live" /\ Available(g) /\ ~subtree[g]
    /\ g # Root => \A m \in Members : task[m] = "live" => at[m] # g
    /\ subtree' = [subtree EXCEPT ![g] = TRUE]
    /\ UNCHANGED <<dir, max, freeze, pids, events, births, wakeup, effective, freezing, halted, seen>>

\* subtree_write, "+pids": the children get their controls.
Enable(g) ==
    /\ <<"subtree", g>> \in writes
    /\ lock = Free /\ dir[g] = "live" /\ Available(g) /\ ~subtree[g]
    /\ g # Root => ~Occupied(g)
    /\ subtree' = [subtree EXCEPT ![g] = TRUE]
    /\ UNCHANGED <<dir, max, freeze, pids, events, births, wakeup, effective, freezing, halted, seen>>

\* subtree_write, "-pids": the children lose their limits with their controls.
Disable(g) ==
    LET children == {c \in Groups : IsChild(c, g) /\ dir[c] = "live"}
    IN /\ lock = Free /\ dir[g] = "live" /\ subtree[g]
       /\ \A c \in children : ~subtree[c]
       /\ subtree' = [subtree EXCEPT ![g] = FALSE]
       /\ max' = [c \in Groups |-> IF c \in children THEN None ELSE max[c]]
       /\ refused' = refused \ children
       /\ UNCHANGED <<dir, freeze, charged, counted, events, births, wakeup, effective, freezing, halted, seen>>

-----------------------------------------------------------------------------
\* Tasks.

\* md_cgroup_member_publish, of a newborn.
Publish(c) ==
    /\ lock = Free /\ task[c] = "reserved"
    /\ MembershipChange(c, None, at[c])
    /\ task' = [task EXCEPT ![c] = "live"]
    /\ maker' = [maker EXCEPT ![c] = None]
    /\ UNCHANGED <<groups, pids, at, process, zombie, wakeup, freezing, halted, seen>>

\* The fields of a released member mean nothing; its structure is new when it
\* is next reserved.
Discard(m) ==
    /\ task' = [task EXCEPT ![m] = "none"]
    /\ at' = [at EXCEPT ![m] = None]
    /\ process' = [process EXCEPT ![m] = None]
    /\ maker' = [maker EXCEPT ![m] = None]
    /\ zombie' = [zombie EXCEPT ![m] = FALSE]
    /\ freezing' = [freezing EXCEPT ![m] = FALSE]
    /\ halted' = [halted EXCEPT ![m] = FALSE]

\* Mistake: a member that is already uncharged is uncharged again.
UnchargeAgain(m) ==
    /\ charged' = Add(charged, Chain(at[m]), -1)
    /\ counted' = [counted EXCEPT ![m] = FALSE]

\* pids_uncharge.
Uncharge(m) ==
    /\ charged' = IF counted[m] THEN Add(charged, Chain(at[m]), -1) ELSE charged
    /\ counted' = [counted EXCEPT ![m] = FALSE]

\* md_cgroup_member_release of a reservation: the clone call failed.
Abort(c) ==
    /\ lock = Free /\ task[c] = "reserved"
    /\ Uncharge(c) /\ Discard(c)
    /\ UNCHANGED <<groups, refused, events, wakeup, effective, seen>>

\* Threads end before their process does, and a clone call before its caller.
\* A thread that executes stands for its process: see ExecDies.
MayExit(m) ==
    /\ lock = Free /\ task[m] = "live"
    /\ ~\E c \in Members : maker[c] = m
    /\ process[m] = m => \A t \in Members \ {m} : process[t] = m => task[t] = "departed"

\* md_task_registry_retire: a process becomes a zombie.  A debugger's thread is
\* retired, too, but the kernel does not keep it.
Depart(m) ==
    /\ MayExit(m)
    /\ MembershipChange(m, at[m], None)
    /\ task' = [task EXCEPT ![m] = "departed"]
    /\ zombie' = [zombie EXCEPT ![m] = process[m] = m]
    /\ UNCHANGED <<groups, pids, at, process, maker, wakeup, freezing, halted, seen>>

\* A published member departs and is released.
Leave(m) ==
    /\ Uncharge(m)
    /\ MembershipChange(m, at[m], None)
    /\ Discard(m)
    /\ UNCHANGED <<groups, refused, used, dirty, seen>>

\* md_task_registry_forget: a thread is gone at once.
Forget(m) == MayExit(m) /\ process[m] # m /\ Leave(m) /\ UNCHANGED lock

\* The parent's native wait, which nobody observes.
Wait(m) ==
    /\ task[m] = "departed" /\ zombie[m]
    /\ zombie' = [zombie EXCEPT ![m] = FALSE]
    /\ UNCHANGED <<groups, pids, events, task, at, process, maker, wakeup, effective, freezing, halted, seen>>

\* The kernel gives the number to another task, which looks like the zombie.
Reuse(m) ==
    /\ task[m] = "departed" /\ ~zombie[m]
    /\ zombie' = [zombie EXCEPT ![m] = TRUE]
    /\ UNCHANGED <<groups, pids, events, task, at, process, maker, wakeup, effective, freezing, halted, seen>>

\* md_task_registry_collect_limits: the charge goes, the record stays.
CollectLimits(m) ==
    /\ lock = Free /\ m \in Stale
    /\ Uncharge(m)
    /\ UNCHANGED <<groups, refused, events, births, wakeup, effective, freezing, halted, seen>>

\* md_task_registry_reap, with md_cgroup_member_reaped and the last release.
Reap(m) ==
    /\ lock = Free /\ task[m] = "departed" /\ ~zombie[m]
    /\ Uncharge(m) /\ Discard(m)
    /\ UNCHANGED <<groups, refused, events, wakeup, effective, seen>>

-----------------------------------------------------------------------------
\* The exec of a thread m that does not lead its process; l is the leader.

\* PTRACE_EVENT_EXEC, after the other threads' exits: the number of m is
\* forgotten, its resources pass to the task that has the leader's number.
ExecBegin(m, l) ==
    /\ lock = Free /\ task[m] = "live" /\ task[l] = "live" /\ process[m] = l /\ m # l
    /\ \A t \in Members \ {l, m} : process[t] = l => task[t] = "departed"
    /\ ~\E c \in Members : maker[c] \in {l, m}
    /\ Uncharge(m)
    /\ MembershipChange(m, at[m], None)
    /\ task' = [task EXCEPT ![m] = "exec"]
    /\ maker' = [maker EXCEPT ![m] = l]
    /\ UNCHANGED <<groups, refused, at, process, zombie, wakeup, freezing, halted, seen>>

\* resume() once the exec's closed descriptors are settled: m is published under
\* the leader's number, and charged again, whatever the limits say now and
\* whatever became of its group.
ExecPublish(m, l) ==
    /\ lock = Free /\ task[m] = "exec" /\ maker[m] = l
    /\ charged' = IF counted[m] THEN charged ELSE Add(charged, Chain(at[m]), 1)
    /\ counted' = [counted EXCEPT ![m] = TRUE]
    /\ MembershipChange(m, None, at[m])
    /\ task' = [task EXCEPT ![m] = "live"]
    /\ process' = [t \in Members |-> IF process[t] = l THEN m ELSE process[t]]
    /\ maker' = [maker EXCEPT ![m] = None]
    /\ lock' = Replacing(l)
    /\ UNCHANGED <<groups, refused, at, zombie, used, dirty, freezing, halted, seen>>

\* md_task_registry_publish, after the registry's lock: the leader's member goes.
Replace(l) == lock = Replacing(l) /\ task[l] = "live" /\ Leave(l) /\ lock' = Free

\* The process is killed before it is resumed: what is retired under its number
\* is the leader's member, and the one that was to be published is released.
ExecDies(m, l) ==
    /\ lock = Free /\ task[m] = "exec" /\ maker[m] = l /\ task[l] = "live"
    /\ MembershipChange(l, at[l], None)
    /\ Uncharge(m)
    /\ task' = [task EXCEPT ![l] = "departed", ![m] = "none"]
    /\ zombie' = [zombie EXCEPT ![l] = TRUE]
    /\ at' = [at EXCEPT ![m] = None]
    /\ process' = [process EXCEPT ![m] = None]
    /\ maker' = [maker EXCEPT ![m] = None]
    /\ freezing' = [freezing EXCEPT ![m] = FALSE]
    /\ halted' = [halted EXCEPT ![m] = FALSE]
    /\ UNCHANGED <<groups, refused, wakeup, seen>>

-----------------------------------------------------------------------------
\* Migration: control_write of cgroup.procs and cgroup.threads.

\* The process of m moves to g: the tasks that are published, not a thread
\* whose birth is still reserved.
WriteProcs(m, g) ==
    /\ lock = Free /\ task[m] = "live" /\ AttachAllowed(g)
    /\ lock' = Moving(g, {t \in Members : task[t] = "live" /\ process[t] = process[m]})
    /\ UNCHANGED <<groups, pids, events, births, used, dirty, effective, freezing, halted, seen>>

\* A thread alone can only be written to the group it is in.
WriteThreads(m) ==
    /\ lock = Free /\ task[m] = "live" /\ at[m] # None /\ AttachAllowed(at[m])
    /\ lock' = Moving(at[m], {m})
    /\ UNCHANGED <<groups, pids, events, births, used, dirty, effective, freezing, halted, seen>>

Recharge(m, g) ==
    IF counted[m] /\ at[m] # g
    THEN charged' = Add(Add(charged, Chain(at[m]), -1), Chain(g), 1)
    ELSE UNCHANGED charged

\* Mistake: only the first change wakes the supervisor.
FreezerChangedOnce == used' = TRUE /\ dirty' = (dirty \/ ~used)

\* freezer_changed: the generation, and the event that makes the supervisor
\* look at it.
FreezerChanged == used' = TRUE /\ dirty' = TRUE

\* Mistake: the member keeps the freezer state of the group it came from.
MoveUnfrozen(m) ==
    /\ lock.op = "move" /\ m \in lock.left
    /\ Recharge(m, lock.to)
    /\ MembershipChange(m, at[m], lock.to)
    /\ at' = [at EXCEPT ![m] = lock.to]
    /\ lock' = IF lock.left = {m} THEN Free ELSE [lock EXCEPT !.left = @ \ {m}]
    /\ IF lock.left = {m} /\ used THEN FreezerChanged ELSE UNCHANGED <<used, dirty>>
    /\ UNCHANGED <<groups, counted, refused, task, process, maker, zombie, freezing, halted, seen>>

\* One turn of the loop; after the last one, the supervisor is told if the
\* freezer was ever used.
Move(m) ==
    /\ lock.op = "move" /\ m \in lock.left
    /\ Recharge(m, lock.to)
    /\ MembershipChange(m, at[m], lock.to)
    /\ at' = [at EXCEPT ![m] = lock.to]
    /\ freezing' = [freezing EXCEPT ![m] = Freezing(lock.to, freeze)]
    /\ lock' = IF lock.left = {m} THEN Free ELSE [lock EXCEPT !.left = @ \ {m}]
    /\ IF lock.left = {m} /\ used THEN FreezerChanged ELSE UNCHANGED <<used, dirty>>
    /\ UNCHANGED <<groups, counted, refused, task, process, maker, zombie, halted, seen>>

-----------------------------------------------------------------------------
\* The freezer.

\* control_write of cgroup.freeze: groups first, then members, then the
\* generation.  The root cannot freeze.
WriteFreeze(g, b) ==
    /\ <<"freeze", g>> \in writes
    /\ lock = Free /\ dir[g] = "live" /\ freeze[g] # b
    /\ g = Root => ~b
    /\ freeze' = [freeze EXCEPT ![g] = b]
    /\ effective' = [h \in Groups |-> IF dir[h] = "absent" THEN effective[h] ELSE Freezing(h, freeze')]
    /\ UNCHANGED <<populated, stopped>>
    /\ Report({h \in Groups : dir[h] # "absent"}, {})
    /\ freezing' = [m \in Members |-> at[m] # None /\ effective'[at[m]]]
    /\ FreezerChanged
    /\ UNCHANGED <<dir, subtree, max, pids, births, lock, halted, seen>>

\* md_cgroup_member_frozen, when it changes something.
Frozen(m, b) ==
    LET s == IF task[m] = "live" THEN Chain(at[m]) ELSE {}
    IN /\ lock = Free /\ halted[m] # b
       /\ halted' = [halted EXCEPT ![m] = b]
       /\ stopped' = Add(stopped, s, IF b THEN 1 ELSE -1)
       /\ UNCHANGED <<populated, effective>>
       /\ Report(s, {})

\* md_cgroup_freezer_generation: the supervisor has seen the last change.
Look ==
    /\ lock = Free /\ dirty
    /\ dirty' = FALSE
    /\ UNCHANGED <<groups, pids, events, births, lock, used, effective, freezing, halted, seen>>

\* Reading cgroup.events from its beginning.
ReadEvents(w) ==
    /\ <<"poll", w>> \in writes
    /\ lock = Free /\ dir[w] = "live"
    /\ seen' = [seen EXCEPT ![w] = [populated |-> populated[w] # 0, frozen |-> frozen[w]]]
    /\ ready' = [ready EXCEPT ![w] = FALSE]
    /\ UNCHANGED <<groups, pids, frozen, populated, stopped, births, wakeup, effective, freezing, halted>>

-----------------------------------------------------------------------------
\* The supervisor's call, whenever it may come: after the first freezer write.
Halt(m, b) ==
    /\ task[m] # "none" /\ used
    /\ Frozen(m, b)
    /\ UNCHANGED <<groups, pids, births, wakeup, freezing, seen>>

\* What control files, clone calls and exits do.
Directories == Mount \/ \E g \in Groups : Mkdir(g) \/ Rmdir(g) \/ Enable(g) \/ Disable(g)

Births ==
    \/ \E p, c \in Members, thread \in BOOLEAN :
          \/ Fork(p, c, thread)
          \/ \E g \in Groups : CloneInto(p, c, g, thread)
    \/ \E p \in Members : ForkRefused(p) \/ \E g \in Groups : CloneRefused(p, g)

Migration ==
    \E m \in Members : WriteThreads(m) \/ Move(m) \/ \E g \in Groups : WriteProcs(m, g)

Counting ==
    \/ ReadCurrent
    \/ \E g \in Groups : ReadFailures(g) \/ \E n \in Limits \cup {None} : WriteMax(g, n)
    \/ \E m \in Members : Wait(m) \/ Reuse(m) \/ CollectLimits(m) \/ Reap(m)

Execs ==
    \E l \in Members :
        Replace(l) \/ \E m \in Members : ExecBegin(m, l) \/ ExecPublish(m, l) \/ ExecDies(m, l)

Step ==
    \/ Directories \/ Births \/ Migration \/ Counting \/ Execs \/ Look
    \/ \E m \in Members :
          \/ Publish(m) \/ Abort(m) \/ Depart(m) \/ Forget(m)
          \/ \E b \in BOOLEAN : Halt(m, b)
    \/ \E g \in Groups, b \in BOOLEAN : WriteFreeze(g, b)
    \/ \E w \in Watched : ReadEvents(w)

Next == Step /\ UNCHANGED writes

Spec == Init /\ [][Next]_vars

-----------------------------------------------------------------------------
\* The members below a group, in the sense of the walks along ->parent.
Below(g, s) == {m \in s : g \in Chain(at[m])}
Live == {m \in Members : task[m] = "live"}

\* The counters that births, exits, migrations, reaps and freezer stops keep
\* up to date along ->parent are what a count of the members would give, at
\* every step of a migration too.
CountsExact ==
    \A g \in Groups :
        /\ charged[g] = Cardinality(Below(g, {m \in Members : counted[m]}))
        /\ populated[g] = Cardinality(Below(g, Live))
        /\ stopped[g] = Cardinality(Below(g, {m \in Live : halted[m]}))

\* A group says frozen exactly if it or an ancestor is told to freeze and all
\* tasks below it are marked stopped (m->stopped); every member knows whether it
\* must stop.
FreezerExact ==
    /\ \A g \in Groups : dir[g] # "absent" =>
          /\ effective[g] = Freezing(g, freeze)
          /\ frozen[g] <=> effective[g] /\ \A m \in Below(g, Live) : halted[m]
    /\ \A m \in Members : freezing[m] = Freezing(at[m], freeze)

\* A step in which the exec of a task of group g returns to g.
Returns(g) == \E m \in Members : task[m] = "exec" /\ task'[m] = "live" /\ at[m] = g

\* No directory is removed with a task in it, a birth under way or a directory
\* below, and no task is born or moved into a removed one.  A thread's exec is
\* the one way back: while it is under way, its member does not keep the group.
RemovedIsEmpty ==
    [][/\ \A g \in Groups : dir'[g] # "live" /\ Occupied(g)'
              => (dir[g] # "live" /\ Occupied(g)) \/ Returns(g)
       /\ \A c \in Groups : dir'[c] = "live" => \A g \in Up[c] : dir'[g] = "live"]_vars

\* No process gets inside the controllers' tree, by a birth, a migration or a
\* control given to the children of its group, only by the return of an exec;
\* and a limit is only where a control shows it.
NoInternalProcess ==
    [][\A g \in Groups :
          /\ g # Root /\ subtree'[g] /\ Occupied(g)' => (subtree[g] /\ Occupied(g)) \/ Returns(g)
          /\ max'[g] # None /\ dir'[g] = "live" => Enabled(g)']_vars

\* A poll of cgroup.events that does not report an event means that a read
\* would give what the last one gave.
QuietMeansUnchanged ==
    \A w \in Watched : dir[w] = "live" /\ ~ready[w] =>
        seen[w] = [populated |-> populated[w] # 0, frozen |-> frozen[w]]

\* A birth never takes a group or an ancestor past its limit; only migrations
\* (namespace-providers.md: "Migration may exceed a limit") and returns of an
\* exec to a group whose room was taken meanwhile do.
BirthsRespectLimits ==
    [][\A g \in Groups :
          /\ charged'[g] > charged[g] /\ max[g] # None /\ dir[g] = "live"
          /\ lock.op # "move" /\ ~\E h \in Groups : Returns(h)
          => charged'[g] <= max[g]]_vars

\* The limit of some group on the way up from g is reached by the births under
\* way, the tasks, and the zombies as far as the kernel tells.
Exhausted(g) ==
    \E a \in Chain(g) : max[a] # None /\
        Cardinality(Below(a, {m \in Members : task[m] \in {"reserved", "live"} \/ zombie[m]})) >= max[a]

\* EAGAIN is honest: when a birth is refused, a limit that holds for the very
\* group it was meant for is reached, whatever is still charged of the past.
RefusalIsHonest ==
    [][\A p \in Members :
          /\ ForkRefused(p) => Exhausted(at[p])
          /\ \A g \in Groups : CloneRefused(p, g) => Exhausted(g)]_vars

\* Does not hold of the code.  The tasks of one process should be in one group:
\* the group is a domain, and control_write and md_cgroup_member_clone refuse
\* to part them.  But a migration between the reservation of a thread and its
\* publication moves the process and leaves the thread behind.
ThreadsTogether ==
    lock = Free => \A m, t \in Live : process[m] = process[t] => at[m] = at[t]
=============================================================================
