---------------------------- MODULE TaskQuiesce ----------------------------
(***************************************************************************)
(* The task barrier of the supervisor (task_quiesce.c) under the memory    *)
(* repair that uses it (memory_repair, memory_event, memory_finish and     *)
(* memory_yield_retirement in supervisor.c).  The tasks are the ones in    *)
(* the scope of every repair: those that share the repaired address space, *)
(* or the whole launch when that space is exposed, and their children.  A  *)
(* repair needs every one of them stopped; the events that arrive          *)
(* meanwhile are deferred and replayed to the dispatcher afterwards.       *)
(*                                                                         *)
(* The kernel's side of ptrace is external: a seized task runs until it    *)
(* stops by itself, is interrupted, gives birth or dies; a stop consumes   *)
(* a pending interrupt; an interrupt of a task that has already stopped    *)
(* stays pending; a newborn starts with an interrupt pending and runs in   *)
(* the kernel until it takes effect.  A killed task leaves whatever stop   *)
(* it is in for its exit stop, which displaces an event nobody has         *)
(* collected, and is dead once that stop is resumed.                       *)
(***************************************************************************)
EXTENDS Naturals, Sequences, FiniteSets

CONSTANTS Tasks,        \* tasks in the scope of the repairs, born or not
          First,        \* the ones that exist at the start
          MaxEvents     \* bound on what happens by itself in one behaviour

None == "none"

ASSUME TasksAssumption ==
    /\ IsFiniteSet(Tasks) /\ None \notin Tasks
    /\ First \subseteq Tasks

Off == [member |-> FALSE, stopped |-> TRUE, resume |-> FALSE, interrupted |-> FALSE,
        synthetic |-> FALSE, borrowed |-> FALSE]

VARIABLES
    kernel,     \* what the kernel knows of a task
    asked,      \* a PTRACE_INTERRUPT is pending
    event,      \* the wait status the supervisor has not collected
    child,      \* PTRACE_GETEVENTMSG of the last birth
    lost,       \* the child of a birth that death displaced
    thread,     \* the supervisor's struct thread
    q,          \* struct md_task_quiesce
    stage,      \* the repair: none, waiting for the writers, holding them
    actor,      \* the task under repair
    left,       \* history: how many deferred events earlier repairs left to it
    count       \* stops, births, kills, interrupts, loans and yields so far

repair == <<stage, actor, left>>
vars == <<kernel, asked, event, child, lost, thread, q, repair, count>>

NoThread == [born |-> FALSE, initial |-> FALSE, stopped |-> FALSE, active |-> FALSE,
             parked |-> FALSE, pending |-> FALSE]

\* PTRACE_CONT (external): an exit stop that is resumed is not reported.
Continues(go) == [t \in Tasks |-> CASE t \in go /\ kernel[t] = "stopped" -> "running"
                                    [] t \in go /\ kernel[t] = "exiting" -> "leaving"
                                    [] OTHER -> kernel[t]]
Unreported(ev, go) == [t \in Tasks |-> IF t \in go /\ kernel[t] = "exiting" THEN None ELSE ev[t]]

Deferred(b, t) == \E i \in DOMAIN b.deferred : b.deferred[i].task = t

-----------------------------------------------------------------------------
\* task_quiesce.c, as functions on its structure.

\* stopped(): the flag and the counter of the ones still awaited.
Stopped(b, t, value) ==
    IF b.part[t].stopped = value THEN b
    ELSE [b EXCEPT !.part[t].stopped = value,
                   !.waiting = IF value THEN @ - 1 ELSE @ + 1]

\* md_task_quiesce_add: a task with a deferred event is stopped already.
Add(b, t, stopped, resume) ==
    Stopped([b EXCEPT !.part[t] = [(IF @.member THEN @ ELSE Off) EXCEPT !.member = TRUE, !.resume = resume]],
            t, stopped \/ Deferred(b, t))

\* md_task_quiesce_stop: owners of deferred events join; whoever runs under
\* nobody else's request is interrupted.
Joined(b) ==
    [b EXCEPT !.part = [t \in Tasks |-> IF Deferred(b, t) /\ ~@[t].member
                                        THEN [Off EXCEPT !.member = TRUE] ELSE @[t]]]
ToInterrupt(b) == {t \in Tasks : b.part[t].member /\ ~b.part[t].stopped /\ b.part[t].resume}
Interrupted(b) ==
    [b EXCEPT !.part = [t \in Tasks |-> [b.part[t] EXCEPT !.interrupted = @ \/ t \in ToInterrupt(b)]]]

Ready(b) == b.waiting = 0 /\ b.borrowed = 0

\* Mistake: any trap stop is taken for the barrier's own.
Swallows(b, t, status) == status = "trap" /\ ~b.part[t].stopped

\* Only the stop our own interrupt asked for is consumed.
Synthetic(b, t, status) == ~b.part[t].stopped /\ b.part[t].interrupted /\ status = "trap"

Defer(b, t, status) ==
    [Stopped(b, t, TRUE) EXCEPT !.part[t].synthetic = FALSE,
                                !.deferred = Append(@, [task |-> t, status |-> status])]

\* Mistake: the child of a deferred birth does not join the barrier.
AwaitNobody(b, c) == b
AwaitNewborn(b, c) == IF b.part[c].member THEN b ELSE Add(b, c, FALSE, FALSE)

\* Mistake: a newborn stop that was dispatched earlier is not retained.
DispatchedForgotten(b, c) == b

\* The dispatcher's quiesce_event: a child is not awaited if its first stop
\* was dispatched before the barrier began.
Dispatched(b, c) ==
    IF ~thread[c].born /\ thread[c].initial /\ thread[c].stopped THEN Add(b, c, TRUE, FALSE) ELSE b

\* md_task_quiesce_event: the child of a deferred birth joins the barrier.
Event(b, t, status) ==
    IF Synthetic(b, t, status) THEN [Stopped(b, t, TRUE) EXCEPT !.part[t].synthetic = TRUE]
    ELSE LET d == Defer(b, t, status)
         IN  IF status = "birth" THEN Dispatched(AwaitNewborn(d, child[t]), child[t]) ELSE d

\* md_task_quiesce_release: synthetic stops are resumed, everybody leaves.
Resumed(b) == {t \in Tasks : b.part[t].member /\ b.part[t].synthetic /\ b.part[t].resume}
Released(b) == [b EXCEPT !.part = [t \in Tasks |-> Off], !.waiting = 0]

-----------------------------------------------------------------------------
Init ==
    /\ kernel = [t \in Tasks |-> IF t \in First THEN "running" ELSE "unborn"]
    /\ asked = [t \in Tasks |-> FALSE]
    /\ event = [t \in Tasks |-> None]
    /\ child = [t \in Tasks |-> t]
    /\ lost = [t \in Tasks |-> None]
    /\ thread = [t \in Tasks |-> [NoThread EXCEPT !.born = t \in First, !.initial = t \in First]]
    /\ q = [part |-> [t \in Tasks |-> Off], waiting |-> 0, borrowed |-> 0, deferred |-> <<>>]
    /\ stage = "off" /\ actor = None /\ left = 0 /\ count = 0

\* The kernel (external).
RunStop(t) ==
    /\ kernel[t] = "running" /\ (asked[t] => thread[t].initial) /\ count < MaxEvents
    /\ kernel' = [kernel EXCEPT ![t] = "stopped"]
    /\ event' = [event EXCEPT ![t] = "stop"]
    /\ asked' = [asked EXCEPT ![t] = FALSE]
    /\ count' = count + 1
    /\ UNCHANGED <<child, lost, thread, q, repair>>

RunBirth(t, c) ==
    /\ kernel[t] = "running" /\ (asked[t] => thread[t].initial) /\ count < MaxEvents
    /\ kernel[c] = "unborn"
    /\ kernel' = [kernel EXCEPT ![t] = "stopped", ![c] = "running"]
    /\ event' = [event EXCEPT ![t] = "birth"]
    /\ child' = [child EXCEPT ![t] = c]
    /\ asked' = [asked EXCEPT ![t] = FALSE, ![c] = TRUE]
    /\ count' = count + 1
    /\ UNCHANGED <<lost, thread, q, repair>>

RunTrap(t) ==
    /\ kernel[t] = "running" /\ asked[t]
    /\ kernel' = [kernel EXCEPT ![t] = "stopped"]
    /\ event' = [event EXCEPT ![t] = "trap"]
    /\ asked' = [asked EXCEPT ![t] = FALSE]
    /\ UNCHANGED <<child, lost, thread, q, repair, count>>

Killed(t) ==
    /\ kernel[t] \in {"running", "stopped"} /\ t # actor /\ count < MaxEvents
    /\ kernel' = [kernel EXCEPT ![t] = "exiting"]
    /\ event' = [event EXCEPT ![t] = "exiting"]
    /\ lost' = IF event[t] = "birth" THEN [lost EXCEPT ![t] = child[t]] ELSE lost
    /\ asked' = [asked EXCEPT ![t] = FALSE]
    /\ count' = count + 1
    /\ UNCHANGED <<child, thread, q, repair>>

RunExit(t) ==
    /\ kernel[t] = "leaving"
    /\ kernel' = [kernel EXCEPT ![t] = "dead"]
    /\ event' = [event EXCEPT ![t] = "exit"]
    /\ UNCHANGED <<asked, child, lost, thread, q, repair, count>>

-----------------------------------------------------------------------------
\* The dispatcher.

\* publish_birth: the child joins the address space; its first stop, or its
\* exit stop, is resumed if it has been dispatched.
Published(th, c) == [th EXCEPT ![c].born = TRUE, ![c].stopped = @ /\ ~th[c].initial]

\* An event reaches its handler.  The first stop, or the exit stop, of a child
\* that is not published waits for the birth; the exit stop of a parent
\* publishes the child of a birth that was never reported.
Handle(t, status, ev) ==
    LET c == CASE status = "birth" -> child[t] [] status = "exiting" -> lost[t] [] OTHER -> None
        seen == [thread[t] EXCEPT !.stopped = TRUE, !.pending = FALSE,
                                  !.initial = TRUE, !.active = thread[t].born]
        th == [thread EXCEPT ![t] = IF status = "exit" THEN NoThread ELSE seen]
        go == IF c # None /\ thread[c].initial THEN {c} ELSE {}
    IN  /\ thread' = IF c = None THEN th ELSE Published(th, c)
        /\ kernel' = Continues(go)
        /\ event' = Unreported(ev, go)
        /\ lost' = IF status = "exiting" THEN [lost EXCEPT ![t] = None] ELSE lost

\* deferred_event comes before kernel_event.
Take ==
    /\ stage = "off" /\ q.deferred # <<>> /\ q.borrowed = 0
    /\ q' = [q EXCEPT !.deferred = Tail(@)]
    /\ Handle(Head(q.deferred).task, Head(q.deferred).status, event)
    /\ UNCHANGED <<asked, child, repair, count>>

Collect(t) ==
    /\ stage = "off" /\ q.deferred = <<>> /\ event[t] # None
    /\ Handle(t, event[t], [event EXCEPT ![t] = None])
    /\ UNCHANGED <<asked, child, q, repair, count>>

\* A handler finds that its stop has been displaced by the exit stop
\* (resume_lost) and leaves the task to that event.
Displaced(t) ==
    /\ thread[t].active /\ event[t] = "exiting"
    /\ thread' = [thread EXCEPT ![t].active = FALSE]
    /\ UNCHANGED <<kernel, asked, event, child, lost, q, repair, count>>

\* A handler is done with its task: resume(), or park behind the barrier.
Resume(t) ==
    /\ thread[t].active
    /\ IF stage = "off"
       THEN /\ thread' = [thread EXCEPT ![t].active = FALSE, ![t].stopped = FALSE]
            /\ kernel' = Continues({t}) /\ event' = Unreported(event, {t})
            /\ UNCHANGED q
       ELSE /\ thread' = [thread EXCEPT ![t].active = FALSE, ![t].parked = TRUE]
            /\ q' = Add(q, t, TRUE, FALSE)
            /\ UNCHANGED <<kernel, event>>
    /\ UNCHANGED <<asked, child, lost, repair, count>>

\* The dispatcher wants a running task's attention (tracee_request).
Interrupt(t) ==
    /\ thread[t].born /\ thread[t].initial /\ ~thread[t].stopped /\ ~thread[t].pending
    /\ count < MaxEvents /\ kernel[t] \in {"running", "stopped"}
    /\ thread' = [thread EXCEPT ![t].pending = TRUE]
    /\ asked' = [asked EXCEPT ![t] = TRUE]
    /\ count' = count + 1
    /\ UNCHANGED <<kernel, event, child, lost, q, repair>>

BirthStopPending(t) == thread[t].born /\ ~thread[t].initial

\* memory_repair: the handler of task a's event starts a barrier.
Begin(a) ==
    /\ stage = "off" /\ thread[a].active /\ thread[a].born /\ kernel[a] = "stopped"
    /\ stage' = "writers" /\ actor' = a /\ left' = Len(q.deferred)
    /\ LET selected == [t \in Tasks |->
               IF thread[t].born
               THEN [Off EXCEPT !.member = TRUE,
                                !.stopped = t = a \/ thread[t].stopped \/ Deferred(q, t),
                                !.resume = ~(thread[t].pending \/ BirthStopPending(t))]
               ELSE Off]
           b == Joined([q EXCEPT !.part = selected,
                                 !.waiting = Cardinality({t \in Tasks : ~selected[t].stopped})])
       IN  /\ q' = Interrupted(b)
           /\ asked' = [t \in Tasks |-> asked[t] \/ (t \in ToInterrupt(b) /\ kernel[t] \in {"running", "stopped"})]
    /\ thread' = [thread EXCEPT ![a].active = FALSE]
    /\ UNCHANGED <<kernel, event, child, lost, count>>

\* memory_event: the barrier gets the event, a newborn nobody knows included.
BarrierEvent(t) ==
    /\ stage # "off" /\ event[t] # None /\ ~q.part[t].borrowed
    /\ q' = Event(IF q.part[t].member THEN q ELSE Add(q, t, TRUE, FALSE), t, event[t])
    /\ event' = [event EXCEPT ![t] = None]
    /\ UNCHANGED <<kernel, asked, child, lost, thread, repair, count>>

\* memory_progress: every writer has stopped.
Hold ==
    /\ stage = "writers" /\ Ready(q)
    /\ stage' = "held"
    /\ UNCHANGED <<kernel, asked, event, child, lost, thread, q, actor, left, count>>

\* md_task_quiesce_borrow: a helper runs in the stopped task.
Lend(t) ==
    /\ stage = "held" /\ q.part[t].member /\ Ready(q) /\ kernel[t] = "stopped" /\ count < MaxEvents
    /\ \A i \in DOMAIN q.deferred : q.deferred[i].task = t => q.deferred[i].status # "exit"
    /\ q' = [q EXCEPT !.part[t].borrowed = TRUE, !.borrowed = @ + 1]
    /\ kernel' = [kernel EXCEPT ![t] = "lent"]
    /\ count' = count + 1
    /\ UNCHANGED <<asked, event, child, lost, thread, repair>>

\* md_task_quiesce_return.
Return(t) ==
    /\ q.part[t].borrowed
    /\ q' = [q EXCEPT !.part[t].borrowed = FALSE, !.borrowed = @ - 1]
    /\ kernel' = [kernel EXCEPT ![t] = "stopped"]
    /\ UNCHANGED <<asked, event, child, lost, thread, repair, count>>

\* Mistake: a release does not resume the handlers parked behind the barrier.
LetGoUnparked(b, more) ==
    LET go == Resumed(b) \cup more
    IN  /\ kernel' = Continues(go) /\ event' = Unreported(event, go)
        /\ thread' = [t \in Tasks |->
             IF t \in go THEN [thread[t] EXCEPT !.stopped = FALSE, !.pending = @ /\ t \notin Resumed(b)]
             ELSE thread[t]]
        /\ q' = Released(b)
        /\ stage' = "off" /\ actor' = None /\ left' = 0

\* What release and task_action_unpark set running, and the records they touch.
LetGo(b, more) ==
    LET go == Resumed(b) \cup {t \in Tasks : thread[t].parked} \cup more
    IN  /\ kernel' = Continues(go) /\ event' = Unreported(event, go)
        /\ thread' = [t \in Tasks |->
             IF t \in go
             THEN [thread[t] EXCEPT !.parked = FALSE, !.stopped = FALSE,
                                    !.pending = @ /\ t \notin Resumed(b)]
             ELSE thread[t]]
        /\ q' = Released(b)
        /\ stage' = "off" /\ actor' = None /\ left' = 0

\* memory_finish: the repair is over and its task continues.
Finish ==
    /\ stage = "held" /\ q.borrowed = 0
    /\ LetGo(q, {actor})
    /\ UNCHANGED <<asked, child, lost, count>>

\* memory_yield_retirement: the repair is given up before it has begun; the
\* event of its task is deferred too and will start it afresh.
Yield ==
    /\ stage = "writers" /\ count < MaxEvents
    /\ LetGo(Event(q, actor, "stop"), {})
    /\ count' = count + 1
    /\ UNCHANGED <<asked, child, lost>>

KernelNext ==
    \E t \in Tasks : \/ RunStop(t) \/ RunTrap(t) \/ Killed(t) \/ RunExit(t)
                     \/ \E c \in Tasks : RunBirth(t, c)
Next ==
    \/ KernelNext
    \/ Take \/ Hold \/ Finish \/ Yield
    \/ \E t \in Tasks : \/ Collect(t) \/ Displaced(t) \/ Resume(t) \/ Interrupt(t) \/ Begin(t)
                        \/ BarrierEvent(t) \/ Lend(t) \/ Return(t)

Spec == Init /\ [][Next]_vars

\* Interrupts and exits take effect, and the supervisor's loop takes every
\* event and finishes every handler, helper and repair.  Every step of these
\* uses up something MaxEvents bounds, so one condition covers them all.
Progress ==
    \/ Take \/ Hold \/ Finish
    \/ \E t \in Tasks : \/ RunTrap(t) \/ RunExit(t) \/ Collect(t) \/ BarrierEvent(t)
                        \/ Resume(t) \/ Return(t)
FairSpec == Spec /\ WF_vars(Progress)

-----------------------------------------------------------------------------
\* The barrier's records stay within their types, and `waiting' and
\* `borrowed' never go negative.
TypeOK ==
    /\ kernel \in [Tasks -> {"unborn", "running", "stopped", "lent", "exiting", "leaving", "dead"}]
    /\ asked \in [Tasks -> BOOLEAN]
    /\ event \in [Tasks -> {None, "stop", "trap", "birth", "exiting", "exit"}]
    /\ child \in [Tasks -> Tasks] /\ lost \in [Tasks -> Tasks \cup {None}]
    /\ thread \in [Tasks -> [born : BOOLEAN, initial : BOOLEAN, stopped : BOOLEAN,
                             active : BOOLEAN, parked : BOOLEAN, pending : BOOLEAN]]
    /\ q \in [part : [Tasks -> [member : BOOLEAN, stopped : BOOLEAN, resume : BOOLEAN,
                                interrupted : BOOLEAN, synthetic : BOOLEAN, borrowed : BOOLEAN]],
              waiting : Nat, borrowed : Nat,
              deferred : Seq([task : Tasks, status : {"stop", "trap", "birth", "exiting", "exit"}])]
    /\ stage \in {"off", "writers", "held"} /\ actor \in Tasks \cup {None} /\ left \in Nat

\* The birth of t is among the first n deferred events.
BirthDeferred(t, n) ==
    \E i \in DOMAIN q.deferred :
        i <= n /\ q.deferred[i].status = "birth" /\ child[q.deferred[i].task] = t

\* The barrier is a barrier: while the repair rewrites the address space no
\* task that shares it runs, newborns of a birth that was not yet dispatched
\* included.  The exceptions are newborns whose birth this barrier has not
\* seen: the parent was killed before the birth was collected, and the child
\* is unknown until the parent's exit is handled; or an earlier repair that
\* yielded had deferred the birth, and it is not replayed yet.  Such a
\* newborn's own first stop is the only thing that keeps it from user code.
BarrierHolds ==
    stage = "held" => \A t \in Tasks :
        kernel[t] = "running" =>
            asked[t] /\ ((\E p \in Tasks : lost[p] = t) \/ BirthDeferred(t, left))

\* Who will resume a task: a handler, the park list, the replay of a deferred
\* event, the release of the barrier, the repair, or the publication of a birth.
Keepers == {"handler", "parked", "deferred", "synthetic", "repair", "birth"}
Keeps(k, t) ==
    \/ k = "handler" /\ thread[t].active
    \/ k = "parked" /\ thread[t].parked
    \/ k = "deferred" /\ Deferred(q, t)
    \/ k = "synthetic" /\ q.part[t].synthetic /\ q.part[t].resume
    \/ k = "repair" /\ t = actor
    \/ k = "birth" /\ thread[t].initial /\ thread[t].stopped /\ ~thread[t].born
Custodians(t) == Cardinality({k \in Keepers : Keeps(k, t)})

\* Exactly one owner will resume a task whose stop has been collected: its
\* handler, the park list, the deferred queue, the release of the barrier,
\* the repair, or the birth it belongs to.  With none the task would sleep
\* for ever, with two it would be resumed behind somebody's back.
\* An exit stop needs one at least: resuming it twice harms nobody.  A task
\* whose stop waits for its replay does not run, so the dispatcher sees every
\* stop before the task has moved on.
OneCustodian ==
    /\ TypeOK
    /\ \A t \in Tasks : Deferred(q, t) => kernel[t] # "running"
    /\ \A t \in Tasks : event[t] = None => /\ kernel[t] = "stopped" => Custodians(t) = 1
                                           /\ kernel[t] = "exiting" => Custodians(t) >= 1

\* A repair ends: no participant is awaited whose stop has already been
\* consumed by somebody else.
RepairEnds == stage # "off" ~> stage = "off"

\* A stopped task goes on, and the death of a killed one is noticed, whatever
\* barriers its events were deferred by.
StopsEnd ==
    \A t \in Tasks : /\ kernel[t] = "stopped" ~> kernel[t] # "stopped"
                     /\ kernel[t] = "exiting" ~> kernel[t] = "dead" /\ thread[t] = NoThread
=============================================================================
