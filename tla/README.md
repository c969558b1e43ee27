# Formal models of the Shroot runtime

MagicDesk runs Linux desktops on Android. Its core is **Shroot**
(`native/shroot`), a userspace runtime that gives unprivileged guest programs a
Linux filesystem, descriptor tables, System V IPC, signals and process trees
without a kernel of their own. This directory keeps TLA+ models of Shroot's
concurrency and recovery protocols, the TLC configurations that check them and
TLAPS proofs of the most important results. `PROJECT.json` ties every definition
to the source lines it models.

## The system and its parts

| Part | Where | Here |
|---|---|---|
| Turn queues of shared resources | `resource_order.c` | `ResourceOrder`, `FifoTurn`, proved |
| Open-description order, directory reads and seeks | `ofd_order.c`, parts of `fs_service.c`, `fs_buffer_service.c`, `namespace_broker.c` | `OfdOrder`, proved |
| Filesystem worker | `fs_worker.c`, its loop in `fs_service.c` | `FsWorker`, proved |
| Task barrier and memory repair | `task_quiesce.c`, parts of `supervisor.c` | `TaskQuiesce`, proved |
| System V semaphores | `sysv_ipc.c`, `sysv_sem.c`, `sysv_ipc_db.c`, `ipc_database.c` | `SysvIpc` |
| Publication of native files in the inode store | `inode_publication.c`, admission in `inode_db.c` | `Publication`, proved |
| Control groups: hierarchy, pids controller, freezer | `cgroup.c`, `fs_cgroup.c`, parts of `task_registry.c` and `supervisor.c` | `Cgroup`, `Freezer`, proved |
| Everything else in Shroot (over 80 000 lines of C) | `native/shroot/src` | not modelled yet, see the plan |
| Android application, Wayland, X11, audio, terminal, kernel patches, scripts | `app`, `*-runtime`, `terminal-emulator`, `kernel*`, `scripts` | not modelled |

How they meet: the *supervisor* traces the guest's tasks, owns their descriptor
tables and runs one event loop. The *filesystem worker* is a second thread that
owns the namespace and its store. A guest call reaches the worker as a broker
notification, as an RPC on a socket, or as a *mapped* request that the
supervisor admits and submits. Whoever needs a shared resource joins that
resource's *turn queue* and waits in its own event loop. Guest memory is repaired
only while the *barrier* has every task of the address space stopped and the
worker paused. The *control groups* belong to both threads: the supervisor forks,
migrates, freezes and reaps, the worker makes and removes directories, and a mutex
orders them. Several launches (supervisor processes) share a store and its IPC
database through file locks, and any of them may be killed.

## ResourceOrder, FifoTurn

One turn queue. `queue` is the linked list, `state[op]` the record's state,
`wakeup[op]` the token it signals, `refs` the tokens' reference counts.
`tail[l]` is the part of `retire` that runs after the mutex is released: signal
the next owner, release two tokens. `event[l]` is the loop's eventfd and `todo[l]`
what the loop still has to look at. `Begin`, `Look` (start), `Complete`,
`CancelRunning` and `CancelWaiting`, `Move`, `Signal`, `Poll` and `Exit` are the
functions of `resource_order.c` and the loop around them.

`FifoTurn` is the abstract promise: join at the end, one holder, leave from
anywhere without disturbing others. `Fifo == INSTANCE FifoTurn WITH line <-
queue, holder <- Started` is the refinement.

Run `order` (three records, two loops, 24 704 states): `OrderInv` (no duplicate
links, exactly the admitted records linked, exactly the first holds the turn),
`NoLostWakeup` (a ready record whose loop has not seen it has a signal in the
eventfd or in a tail), `TokensCounted` (a token lives exactly as long as its
users), `ImplementsFifo`, and `EveryTurnComes`. Two loops are needed for a signal
that crosses threads and three records for a cancellation in the middle of the
list; nothing else depends on the numbers. Fairness: a loop keeps polling and
looks at every record of a pass, a tail is straight-line code, and a started
operation completes (its owner's obligation).

**Proved** (`ResourceOrderProofs`, any finite sets of records and loops, from
`OrderAssumption`: every record has an owning loop and NULL is not a loop):
`TypeHolds`, `OrderHolds`, `WakeupsHold`, `QueueIsFifo` and `TokensAreCounted`. The
inductive invariant is `IndInv == TypeOK /\ OrderInv /\ WakeupOwned /\ NoLostWakeup`:
`NoLostWakeup` alone is not inductive, because a record might carry the token of
a loop that is not its own; `WakeupOwned` excludes that. The refinement uses
`OrderInv`: that only the first record can be started is what makes every step
a `FifoTurn` step or a stutter. `TokensAreCounted` has its own `TokenInv` on top of
`IndInv`: a count is a sum of cardinalities, and the lemmas say by how much each
changes when a record joins, moves or leaves and a tail begins or ends; `IdleTails`
adds that a tail which is not running names no loop. Finiteness is used only there.
`EveryTurnComes` is liveness and is model-checked only.

## OfdOrder

Directory reads take records first and move the open description only when the
caller has copied them. Between the two, the description's turn keeps other
reads and seeks out. `file`, `refs` and `line` are the registry's entries (line is
the queue, by its abstract specification `FifoTurn`), `entry[o]` a request's
pointer, `pos` the kernel's position, `jobs` the mapped work on its way to the
worker, `hand[t]` the request a thread is in the middle of. Broker and RPC requests
(`Arrive`, `Resume`, `Serve`, `Answer`, `Withdraw`) run on the worker; mapped ones
(`Submit`, `Progress`, `Offer`, `Ack`, `Dispose`, `Cancel`) on the supervisor, which
has the worker `Run` their work. `Leave` and `Drop` are two steps, because the
queue's and the registry's mutexes are taken one after the other.

Run `directory_cursor` (three requests of every combination of kinds on two
descriptions, 220 781 states): `EntriesSound` (an entry is freed exactly with
the last pointer, one entry per description), `HeldByWorker` (until a read is
settled its description stays where the read found it, mapped seeks excepted),
`WaitersEnd`. Requests are interchangeable, so `Triples` keeps one menu of each
kind. Two requests on one description and a third elsewhere, or three on one, are
all the ways turns meet; `End = 1` lets a position change. Fairness: both loops
keep going, and a caller that was offered records answers or goes away.

**Proved** (`OfdOrderProofs`, any finite set of requests and entries and any
descriptions, from `OfdAssumption`: the menus ask for calls that exist, and there
are as many entry addresses as requests): `EntriesAreSound`, `PositionsAreHeld` and
`ReservationsExclude`, the last for mapped seeks too. The inductive invariant is
`IInv == TypeOK /\ Entered /\ Lined /\ Staged /\ Unrivalled /\ HeldByWorker`.
`Entered` counts the pointers to an entry; `Lined` says that a line is exactly the
entry's requests that have not begun to leave, and that whoever works on the
description is first in it; `Staged` says which stages have an entry. `HeldByWorker`
alone is not inductive: that nobody moves the description under a reservation needs
both the line (for requests with a turn) and `Unrivalled` (for a seek that the worker
runs without one).

Run `directory_seek` shows a disagreement (see Findings): with mapped seeks
`PositionHeld` fails.

Left out: failing `kcmp` and allocations, release of the registry at teardown,
directory reads that wait for a FUSE daemon, the broker's delegation of a call it
cannot finish.

## FsWorker

The worker's three lists (`submitted`, `waiting`, `completed`), the two lists that
are detached while their mutex is free (`pass`, `taken`), the record in its
`hand`, the two queue signals and the stop eventfd, the pause handshake and the
shutdown. The two threads have program counters `wpc` and `spc`. A queue is
changed in one step and its signal sent in a later one, as in
`md_fs_worker_submit` and `md_fs_worker_publish`. `Produce` and `Ring` are whoever
answers a continuation. `Dispose...` is the other owner of a control record
(`md_fs_worker_control`), which races its completion with a reference count and
two atomic flags.

- `worker_safety` (a guest task's record and a control record together, 1 959 510
  states): `OneCustodian` (an accepted record is in exactly one place, and a thread
  that has exited has none), `PauseIsQuiet` (an acknowledged pause means no
  namespace work), `NoLostSignal` (a nonempty queue and an unseen pause have a
  signal or somebody on the way to them), `ControlReferences`.
- `worker_liveness` (either record alone, 150 346 states): `EveryWorkEnds`, for a
  guest task's record, and for a control record whose answer never comes, so that
  only its owner's disposal can end it.

One record of each kind is enough for every race between the lists, since the
code never relates two records; two of them show reordering between the lists.
`Batch = 1` stands for the 32 records of a pass, so that the end of a batch is
reached. `MaxStages` bounds the waits of one execution. Fairness: both threads run
on, poll (strongly fair: a signal is level-triggered), the memory operation that
raised a barrier or a pause ends it, an answer comes to a guest task's wait, and a
pending control operation is disposed of. The work's `run` callback is abstract: it
finishes, or installs a wait.

**Proved** (`FsWorkerProofs`, any set of records and any batch size, from
`WorkerAssumption`: launches and controls are sets of records, and a batch is not
empty): `RecordsHaveOneCustodian`, `PausesAreQuiet`, `SignalsAreKept` and
`ReferencesCounted`, that is, all four invariants of `worker_safety`. The inductive
invariant adds `Positions` (where the two threads must be for a detached list or the
record in hand to be in use, and what a retiring worker has announced),
`ExitedEmpty` and `PauseIsPolled`: an acknowledged pause is known to the worker's
poll until it prepares the next one. Without the last, a worker that acknowledged a
pause could go from its poll to a pass over the lists. `EveryWorkEnds` is liveness.

## TaskQuiesce

The barrier's participants (`q.part`), its counter and its deferred events; the
supervisor's records of the tasks (`thread`); and the kernel's side of ptrace, which
is external: `RunStop`, `RunBirth`, `RunTrap`, `Killed` and `RunExit`. `Take` and
`Collect` are the dispatcher's wait, `Begin`, `BarrierEvent`, `Hold`, `Lend`,
`Return`, `Finish` and `Yield` the life of a repair, `Interrupt` and `Resume` what
handlers do. `Displaced` is an exit stop that replaced an event nobody had
collected.

Run `quiesce` (two tasks and a newborn, `MaxEvents = 4` spontaneous events,
138 828 states): `BarrierHolds` (a repair that holds the tasks has them all
stopped, except newborns that it has not heard of and that are still on their way
to their first stop), `OneCustodian` (every collected stop has exactly one owner who
will resume it, and a deferred event's task stays stopped), `RepairEnds`, `StopsEnd`.
Four events cover a birth, a stop, a kill and an interrupt in one repair. Fairness is
one condition: as long as the dispatcher, the repair or a pending trap can go on,
something does. Behaviours are finite apart from stuttering, so this excludes only
stopping.

**Proved** (`TaskQuiesceProofs`, any finite set of tasks and any number of events,
from `TasksAssumption`): `BarrierIsABarrier` and `StopsHaveOneOwner`. The inductive
invariant `IInv` says, besides the types,

- what the kernel's state, the uncollected event, the dispatcher's record and the
  participant's record of one task allow each other (`Reported`, `Collected`,
  `Recorded`, `Acting`),
- that the counters are the numbers of participants awaited and lent, that the
  structure is empty without a repair, and when an interrupt or a synthetic stop may
  be outstanding (`Taken`),
- that a birth the dispatcher has not handled is known in exactly one way and its
  child is asked to stop (`Born`), and how often a task can be in the deferred queue
  (`Queued`),
- that a stop never has two owners and a collected one never none (`Kept`),
- that during a repair a task runs only while it is awaited or as such a newborn
  (`Barred`).

The proof has one lemma for what each function of `task_quiesce.c` does to the
structure, and one per action; `TaskQuiesceDispatch` holds the invariant, the former
and the steps of the tasks and of the dispatcher, `TaskQuiesceProofs` the steps of
the barrier and the repair and the theorems. Handling an event is split further: what
it does (`Handled`), then one lemma for each part of the invariant. The search for the invariant showed that the barrier
has a second exception beside the births that death displaced. A repair that yields
leaves the births it deferred to the replay; a repair that begins before
the replay knows such a newborn only by its first stop. This takes a fourth task, so
that the run with three never meets it. `left` is a history variable that says which
deferred events an earlier repair left, so that the exception covers only those. The
newborn runs no user code before its first stop, and `memory_event` holds it there.

Left out: vfork and listening participants, other address spaces, the newborns of
helpers, barriers other than the repair's, death of the repair's actor or of a lent
task, a second kill that escapes an exit stop, the five-second deadline (it kills
the tree; `RepairEnds` shows that the modelled protocol does not need it).

## SysvIpc

One semaphore set in the database that launches share. A request is `Call`,
`Drain` (its watcher), `Attempt` (gate, reaping of dead owners, request under a
savepoint, commit), `Finish` (write the events file, unlock, answer or go on to
wait), `Subscribe`, then parked until `Wake`, `Expire` or `Cancel`. `AttemptFails` and
`CancelFails` are transactions in which a statement or the COMMIT fails: the database
is rolled back, and `registered` (whether the caller believes it has a row in
`waiters`) is left as it was or already changed. `Exit` and `Release` give a thread's
undo group back, `Close` and `Closed` end a launch, and `Kill`, `Unlock` and
`CloseEvents` are the death of one. `Outcome(c)` is the whole transaction as a function
of the database; `Setval` is SETVAL and SETALL. External assumptions: a commit is
atomic; one that dirtied pages appends to the log, which watchers of the directory
see; a dead process's descriptors are closed in the order of opening.

- `sysv_undo` (two launches, three threads, two of them sharing an undo group,
  352 553 states): `UndoConserved` (a value plus the adjustments owed is what was last
  stored without undo; a live launch is never reaped, and only registered launches
  owe), `NoMissedWake`, `WaitersAreBlocked` (GETNCNT and GETZCNT count threads that
  wait, on the semaphore on which they would block now).
- `sysv_liveness` (two launches, one semaphore with limit 1, deadlines, 25 888
  states): `BlockedGoesOn`, and `DeadlineEnds` (a deadline survives every retry).
  Fairness: a thread's own steps happen, the gate is handed out fairly (strong
  fairness of the transaction), teardown ends.
- `sysv_rest` shows a disagreement, see Findings.

Limits of one or two units reach both ends of the range. `Requests` gives each thread
the requests that its part in the run needs, and `Fallible` names the thread of which
one transaction may fail: one failure can come at any attempt or cancellation, before
or after others have blocked. `UndoConserved` is stated for requests whose adjustments
are not clamped, because clamping is meant to lose the difference. `WaitersAreBlocked`
names two kinds of rows that outlive their wait: those of a dead launch, until the next
transaction removes them, and the row of a caller whose COMMIT failed after its flag
had been cleared, which stays until the launch ends. Left out: permissions, messages,
the read-only commands, IPC_SET, creation of the set, a failing write of the events
file. An adjustment of 0 stands for a missing row.

## Publication

A guest file is a plain name of its parent (native) or an object with catalogue
rows. Promotion: sync the native name (`SyncSource`), set the shared hint
(`Hint`), commit the intent (`Record`), mark watches (`Check`), rename (`Move`),
sync both directories (`Settle`), commit the rows and drop the intent (`Commit`),
mark watches again (`End`), clear the hint (`Clear`). Every entry into the store
(`Enter`) with the hint set, and every open, completes what it finds
(`RecoverNone`, `RecoverBusy`, `RecoverBegin`). `Fail` is an error at any step, `Die`
the death of a process, `Power` a power cut that takes `loc` back to any place in
`durable`.

Run `publication` (two writers, an inspector, two leaves, four faults, 57 301
states): `ReadsWhole` (operations run only on whole namespaces), `RecoveryFinds`,
`CataloguedIsDurable`, `WatchEnds`, `MovesAreHidden`, `Recovers`. Four faults allow
an interrupted recovery of an interrupted recovery, a power cut included.
Fairness: an owner's own steps happen, and a writer that keeps trying to enter does
so again and again.

**Proved** (`PublicationProofs`, any owners, leaves and number of faults, from
`InspectorsAssumption`, `NoneAssumption` and `FaultsAssumption`): all five
invariants and the action property `MovesAreHidden`. The inductive invariant is
`IInv == TypeOK /\ Inside /\ Bodies /\ Hinted /\ Watched`. `TypeOK` includes that
the gate admits one owner. `Inside` says what each step of a promotion may assume
of its leaf and the intent, `Bodies` that a body is an object only if rows or the
intent say so, `Hinted` that whoever could enter without recovery knows of the
intent, `Watched` that a watch between the markers has somebody coming. None of
the properties is inductive: each depends on the step at which the dead owner
stopped, which is what `Bodies` and `Hinted` remember. `Recovers` is liveness and
stays with TLC.

Assumptions about the outside: rename is atomic and durable once both directories
are synced; a commit with `synchronous=FULL` is durable; the hint has any value
after a power cut. Left out: temporary stores, retained windows, overlay
projections, unlinking of catalogued files, overflow of a watch's queue.

## Cgroup

The unified hierarchy. A group has its directory (`dir`), its controls (`subtree`,
`max`, `freeze`), the counters that walks along `->parent` keep (`charged`,
`populated`, `stopped`) and the states derived from them (`effective`, `frozen`).
A member has its life (`task`), its group (`at`), its process and whether it is
charged, told to freeze and stopped (`counted`, `freezing`, `halted`). The births
are `Fork` and `CloneInto` (reserve, or refuse at a limit), `Publish` and `Abort`;
the ends are `Depart` (a zombie keeps its charge; so does a thread that a debugger
traces, until it is reaped), `Forget`, the parent's unobserved `Wait`, and then
`CollectLimits`, `Reap` or the reconciliation that a birth at a full limit begins with.
`Reuse` is the kernel giving a reaped number to another task: the code asks for
numbers, so a charge may then stay for longer. `WriteProcs` starts a migration whose
loop is one `Move` per member, with the mutex (`lock`) held throughout; `Enable`,
`Disable` and the other `Write...` actions are the control files; `Mount`, `Mkdir` and
`Rmdir` are the worker's. `Halt` is `md_cgroup_member_frozen`, `Look` the supervisor's
reading of the freezer generation, `ReadEvents` a reader of `cgroup.events`.

A thread that is not its process's leader and calls exec is forgotten under its old
number and published again under the leader's (`ExecBegin`, `ExecPublish`), after
which the leader's member is released (`Replace`); the mutex is free in between, and
the worker may come in. If the process is killed first, the leader's member departs
and the other is released (`ExecDies`). Between `ExecBegin` and `ExecPublish` the
member keeps its group, but neither counts as a task of it nor is charged.

Run `cgroup` (three nested groups, two tasks, 610 427 states):

- `CountsExact`: the counters are what counting the members would give, within a
  migration and an exec too;
- `FreezerExact`: groups and members are told to freeze exactly if a control above
  says so, and a group is frozen exactly if all its tasks are marked stopped;
- `RemovedIsEmpty`: no directory is removed with a task, a birth under way or a
  directory in it, and nothing but the return of an exec comes into a removed one;
- `NoInternalProcess`: nothing but the return of an exec puts a process inside a group
  that hands controllers down, and a limit is only where a control shows it;
- `QuietMeansUnchanged`: a poll without an event means that a read would give what the
  last one gave;
- `BirthsRespectLimits`: nothing but a migration and the return of an exec takes a
  group past its limit;
- `RefusalIsHonest`: EAGAIN only if tasks the kernel still has, or births under way,
  fill a limit above the very group that the birth was meant for.

Bounds: root, inner group and leaf are the three positions that the code tells apart;
two tasks are a parent and its child, or a process and the thread that executes; the
limit 1 is reached by one of them, and passed by a migration or an exec. `Menus` says
which controls a launch writes or polls, so that a run does not multiply limits,
freezes and polls: the code never relates the first to the others, and the proofs do
not depend on it.

**Proved** (`CgroupProofs` and the modules it extends): all seven properties, for
every tree, any finite set of tasks, and any limits, readers and menus.
`CgroupAssumption` says that `Up` lists ancestors, `WalkAssumption` that they form a
path; TLC evaluates both. The inductive invariant `IInv` (`CgroupInvariant`) is

- `TypeOK`, and `Places` (pointers are to groups that exist; a migration's
  destination accepts members; an exec under way is not charged),
- `Counts`, the counters as cardinalities,
- `Rooted`, `Limited`, the shape of the tree,
- `Effective`, `Told`, `Agreed`, `Watching`, the freezer and the readers.

The parts need each other: a counter that falls to zero shows that a directory may
go only because `Counts` holds, and `Counts` survives a migration only because
`Places` says that the destination exists. There is one lemma per conjunct with one
step per action: types, places, tree and counters in `CgroupStructure`, the freezer
and the theorems in `CgroupProofs`. The action properties follow from `IInv` and two
lemmas about steps: `Arrivals` (who gets into a group found somebody there, may be
attached there, or returns from an exec) and `GroupsKept` (the directory of an
occupied group stays, and its children get no controller).

Left out: permissions, mount options and delegation namespaces, which refuse
operations; the named and devices hierarchies, the other controllers and the sampled
cpu, memory and io figures, which have groups and fields of their own; directory and
file handles of the mounted view. An exec by a process's leader publishes the number
it already has and changes nothing.

## Freezer

`Cgroup` with the supervisor that stops and continues tasks. `phase[m]` is what a
task does; `resume()` is where the freezer takes it (`Continue`, `ResumeParked`).
`FirstStop`, `Trap`, `Enter`, `WorkEnds`, `Park`, `WaitOver`, `JobStop`, `JobWake` and
`Die` are the stops that the event loop handles. `Fence`, `Unfence` and `Release`
are barriers and debuggers, abstractly: the ones of `TaskQuiesce` are among them.
`Progress` and `Visit` are `freezer_progress`, whose walk over the tasks takes the
mutex task by task, so that the worker's directories come between. The actions
named `Freezer...` are those of `Cgroup` with their effect on the tasks. Phase "run" is
guest code or a native call that an interrupt ends. The parent of a vfork is not such
a task: `freezer_progress` asks it too, but the kernel stops it only when the child
lets it go, which a child that was frozen first does not. It is left out, and
`FreezeEnds` promises nothing of it. Exec is left out as well: the steps are a subset
of those of `Cgroup`, and what is said below is said of launches in which only leaders
of processes execute.

Run `freezer` (the root and one group, two tasks, 103 860 states): `HeldIsDue` (a
task is held only while it must freeze or the supervisor has still to look, so no
thaw is lost), `NoEscape` (a task that must freeze gets away only where
`freezer_progress` finds it in a barrier), `ImplementsCgroup` (composed with the
event loop, the hierarchy does only what `Cgroup` allows), `FreezeEnds` and
`ThawEnds`. One group to freeze and the root to move to or from are enough, since the
supervisor reads only `m->freezing`; two tasks interleave births, a migration of
one and a visit of the other.

Fairness: `SF(Progress)`, because the event loop polls its wakeups at least once in
`PROGRESS_BATCH` events; `WF` of `Visit` and `FreezerMove`, because they are turns of
finite loops; `SF` of the trap of an interrupted task, because the kernel delivers
a `PTRACE_INTERRUPT` and stops are collected round-robin. Nothing is assumed of
barriers, debuggers, guest programs or the writers of the controls. That a task
busy with an operation comes to its end is not promised.

**Proved** (`CgroupProofs`, under the assumptions of `Cgroup`): `ThawsAreSeen`,
`FreezesAreSeen` and `LoopIsCgroup`, and with the last one every invariant of `Cgroup`
here too (`LoopCountsExact`). The inductive invariant is `FInv == IInv /\ Underway /\
HeldIsDue`. `Underway` relates the two halves: which members have a phase, that
nobody must freeze before the freezer was first written and, once the supervisor has
looked, that it knows of it, and that a barrier has only running tasks. Without it a
task in its first stop could pass a freezer that the supervisor believes unused.
`FreezeEnds` and `ThawEnds` are liveness and stay with TLC.

## Findings

1. `sysv_rest`: a blocked `semop` vector that makes progress on its first element
   dirties pages on each retry and so wakes itself; `sysv-ipc.md` says that there
   is no polling. The counterexample needs one thread.
2. `directory_seek`: a mapped seek asks on the supervisor's thread whether the
   description is busy and is executed later by the worker, without a turn. An RPC
   read admitted in between has its description moved, and its commit undoes the
   seek. `ofd_order.h` asks that both sides run on the worker, and
   `interception.md` says that seeks share the turns.

Five more disagreements came up with the control groups and one with the semaphores.
They are stated in the modules where a definition is named below, and listed among the
hazards in `PROJECT.json`; the runs claim nothing that depends on them.

3. `ThreadsTogether` (`Cgroup`) does not hold: a migration between the reservation of
   a thread and its publication moves the process and leaves the thread behind.
   Counters and freezer stay exact.
4. `FrozenMeansStopped` (`Freezer`) does not hold: a task that leaves a wait or a
   stop stays marked until `freezer_progress` comes by, and a freeze written before
   that counts it. `namespace-providers.md` says that `cgroup.events` reports frozen
   only after all affected tasks reach their stop.
5. `AllFreeze` (`Freezer`) does not hold: `freezer_progress` passes over a task that a
   barrier has, and the barrier continues it without a look at the freezer.
   `NoEscape` shows that this is the only way out.
6. A job-control stop between `freezer_progress` and its interrupt parks a task
   without marking it, so that the group is not reported frozen before SIGCONT or
   the next freezer write.
7. The exec of a thread (`Returns` in `Cgroup`): while it is under way its process may
   be the only one of a group, and yet the group can be removed or get inner
   controllers, and its place under a limit can be taken. The process then returns to
   a removed group, to an inner one, or past the limit. `namespace-providers.md` says
   that exec preserves membership and that removal rejects populated groups.
   `RemovedIsEmpty`, `NoInternalProcess` and `BirthsRespectLimits` show that there is
   no other way there but migration past a limit, which the document allows.
8. A waiter's row can outlive its wait within a live launch (`WaitersAreBlocked` in
   `SysvIpc`), after a COMMIT that fails when `unregister` has cleared the flag.
   `sysv-ipc.md` says that cancellation removes the registration.

## What is checked how

Every safety property above is an invariant or action property of a TLC run, and
except in SysvIpc also a theorem for all values of the constants. Type invariants are
not runs' properties of their own: they are conjuncts of the inductive invariants
proved, or of a safety invariant (`OneCustodian`, `UndoConserved`, `EntriesSound`, `HeldIsDue`).

Model-checked only:

- all liveness properties, since TLAPS 1.4.5 does not reason about `ENABLED`;
- `UndoConserved`, `NoMissedWake` and `WaitersAreBlocked` of SysvIpc. A request is
  carried out by recursion over its vector of operations and over the owners to be
  reaped (`Operate`, `RemoveOwners`); what a recursion computes for every input needs
  induction over data, which the provers at hand cannot instantiate.

Every property has a mutant in
`PROJECT.json`: a plausible mistake in the modelled code that makes it fail. The
mistakes stand in the modules just before the definitions that they distort.

    tlc -config ResourceOrder.cfg MCResourceOrder
    tlapm ResourceOrderProofs.tla
    tlapm CgroupProofs.tla      # each module of theorems is checked by itself

## Plan

In order of value:

1. Refinements for FsWorker (a queue that executes every record once) and for
   TaskQuiesce (a repair that is one atomic step).
2. System V shared memory and messages: the body of a removed segment goes only
   after the commit that removed it.
3. The object reserve (`inode_reserve.c`): claims under power cuts.
4. Descriptor delivery: nested turns of two descriptor tables, admission counters,
   the exchange of `fd_exchange.c`, births in the broker.
5. Watches and FIFOs: journal cursors, queue overflow, the lease of a killed opener.
6. The client's side of an RPC, with answers that come after the deadline.
7. Mount propagation against a reference definition on graphs.
8. PID namespaces and the launch registry; control-group delegation.
9. FUSE sessions, entry fence and service registry.

Not planned: the Android application and the display, audio and terminal runtimes.
They are mostly I/O, rendering and platform callbacks, and have no protocol that
other parts of the system rely on as they do on Shroot's.
