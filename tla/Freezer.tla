------------------------------ MODULE Freezer ------------------------------
(***************************************************************************)
(* The control-group freezer: the hierarchy of Cgroup with the supervisor  *)
(* that stops and continues the tasks (supervisor.c).  One thread handles  *)
(* every stop of a task, every control write and freezer_progress; a       *)
(* handler is one action, except freezer_progress, whose walk over the     *)
(* tasks takes the world's mutex task by task, so that the filesystem      *)
(* worker's directory operations come between.                             *)
(*                                                                         *)
(* The writers of the controls are tasks of the launch outside Members.    *)
(* Limits and the reaping of zombies have no say in the freezer and are    *)
(* left to Cgroup.  Left out is the exec of a thread that does not lead    *)
(* its process: the steps here are some of those that Cgroup allows.  So   *)
(* is the parent of a vfork, which an interrupt does not stop before the   *)
(* child lets it go.                                                       *)
(***************************************************************************)
EXTENDS Cgroup

VARIABLES
    phase,      \* what the task is doing, see below
    listening,  \* t->listening: a job-control stop
    asked,      \* t->interrupt_pending, of freezer_progress
    enabled,    \* freezer_enabled
    scan,       \* the tasks that freezer_progress has still to visit
    fenced      \* the running tasks that a barrier has stopped or is stopping

(***************************************************************************)
(* phase:  "birth"  published, the first stop is not seen yet              *)
(*         "run"    guest code, or a native call that can be interrupted   *)
(*         "work"   an operation of the adapter, not interrupted           *)
(*         "wait"   one of the phases of freezer_parked()                  *)
(*         "stop"   stopped between operations for a debugger or barrier   *)
(*         "held"   t->freezer_resume: stopped between operations, frozen  *)
(*         "exit"   t->terminal_stop                                       *)
(***************************************************************************)
Phases == {"none", "birth", "run", "work", "wait", "stop", "held", "exit"}

tasks == <<phase, listening, asked>>
all == <<vars, tasks, enabled, scan, fenced>>

FreezerTypeOK ==
    /\ phase \in [Members -> Phases]
    /\ listening \in [Members -> BOOLEAN]
    /\ asked \in [Members -> BOOLEAN]
    /\ enabled \in BOOLEAN
    /\ scan \in SUBSET Members
    /\ fenced \in SUBSET Members

FreezerInit ==
    /\ Init
    /\ phase = [m \in Members |-> IF m = Leader THEN "run" ELSE "none"]
    /\ listening = [m \in Members |-> FALSE]
    /\ asked = [m \in Members |-> FALSE]
    /\ enabled = FALSE
    /\ scan = {}
    /\ fenced = {}

-----------------------------------------------------------------------------
\* The supervisor has returned to its event loop.
Idle == lock = Free /\ scan = {}

\* Mistake: the flag changes without the walk that counts it.
MarkAlone(m, b) ==
    halted' = [halted EXCEPT ![m] = b] /\ UNCHANGED <<stopped, populated, effective, frozen, ready>>

\* md_cgroup_member_frozen, whether or not it changes something.
Mark(m, b) ==
    IF halted[m] # b THEN Frozen(m, b)
    ELSE UNCHANGED <<halted, stopped, populated, effective, frozen, ready>>

\* What a stop of a task leaves alone in the hierarchy.
hierarchy == <<groups, pids, births, wakeup, freezing, seen, writes>>

\* Mistake: the freezer is not looked at when a task is resumed.
ContinueAnyway(m) ==
    phase' = [phase EXCEPT ![m] = "run"] /\ UNCHANGED <<halted, events, effective>>

\* resume() once no barrier and no debugger wants the task: between operations
\* a task that must freeze is held, elsewhere it goes on.
Continue(m) ==
    IF enabled /\ freezing[m]
    THEN phase' = [phase EXCEPT ![m] = "held"] /\ Mark(m, TRUE)
    ELSE phase' = [phase EXCEPT ![m] = "run"] /\ UNCHANGED <<halted, events, effective>>

\* resume() between operations.
Resume(m) ==
    \/ Continue(m)
    \/ phase' = [phase EXCEPT ![m] = "stop"] /\ UNCHANGED <<halted, events, effective>>

\* resume() in one of the phases of freezer_parked.
ResumeParked(m) == IF enabled /\ freezing[m] THEN Mark(m, TRUE) ELSE UNCHANGED <<halted, events, effective>>

-----------------------------------------------------------------------------
\* Stops of a task, as the event loop handles them.

\* The first stop of a newborn.
FirstStop(m) ==
    /\ Idle /\ phase[m] = "birth"
    /\ Resume(m)
    /\ UNCHANGED <<hierarchy, listening, asked, enabled, scan, fenced>>

\* A signal, an interrupt or the return of a native call.
Trap(m) ==
    /\ Idle /\ phase[m] = "run" /\ ~listening[m] /\ m \notin fenced
    /\ Resume(m)
    /\ asked' = [asked EXCEPT ![m] = FALSE]
    /\ UNCHANGED <<hierarchy, listening, enabled, scan, fenced>>

\* A call that the adapter handles.
Enter(m) ==
    /\ Idle /\ phase[m] = "run" /\ ~listening[m] /\ m \notin fenced
    /\ phase' = [phase EXCEPT ![m] = "work"]
    /\ asked' = [asked EXCEPT ![m] = FALSE]
    /\ UNCHANGED <<vars, listening, enabled, scan, fenced>>

\* The barrier or the debugger lets the task go.
Release(m) ==
    /\ Idle /\ phase[m] = "stop"
    /\ Continue(m)
    /\ UNCHANGED <<hierarchy, listening, asked, enabled, scan, fenced>>

\* The operation is over; a clone call is not before its newborn is published.
WorkEnds(m) ==
    /\ Idle /\ phase[m] = "work" /\ ~listening[m]
    /\ ~\E c \in Members : maker[c] = m
    /\ Resume(m)
    /\ UNCHANGED <<hierarchy, listening, asked, enabled, scan, fenced>>

\* The operation waits for somebody else.
Park(m) ==
    /\ Idle /\ phase[m] = "work" /\ ~listening[m]
    /\ ~\E c \in Members : maker[c] = m
    /\ phase' = [phase EXCEPT ![m] = "wait"]
    /\ ResumeParked(m)
    /\ UNCHANGED <<hierarchy, listening, asked, enabled, scan, fenced>>

\* What the operation waited for has come.
WaitOver(m) ==
    /\ Idle /\ phase[m] = "wait" /\ ~listening[m]
    /\ phase' = [phase EXCEPT ![m] = "work"]
    /\ UNCHANGED <<vars, listening, asked, enabled, scan, fenced>>

\* A job-control stop, in the midst of whatever the task does.
JobStop(m) ==
    /\ Idle /\ phase[m] \in {"run", "work", "wait"} /\ ~listening[m] /\ m \notin fenced
    /\ listening' = [listening EXCEPT ![m] = TRUE]
    /\ asked' = [asked EXCEPT ![m] = FALSE]
    /\ UNCHANGED <<vars, phase, enabled, scan, fenced>>

\* SIGCONT.
JobWake(m) ==
    /\ Idle /\ listening[m]
    /\ listening' = [listening EXCEPT ![m] = FALSE]
    /\ \/ phase[m] = "run" /\ Resume(m)
       \/ phase[m] = "wait" /\ ResumeParked(m) /\ UNCHANGED phase
       \/ phase[m] = "work" /\ UNCHANGED <<halted, events, effective, phase>>
    /\ UNCHANGED <<hierarchy, asked, enabled, scan, fenced>>

\* PTRACE_EVENT_EXIT: the task is continued whatever its group is told.
Die(m) ==
    /\ Idle /\ phase[m] \notin {"none", "exit"} /\ m \notin fenced /\ ~\E c \in Members : maker[c] = m
    /\ phase' = [phase EXCEPT ![m] = "exit"]
    /\ listening' = [listening EXCEPT ![m] = FALSE]
    /\ asked' = [asked EXCEPT ![m] = FALSE]
    /\ UNCHANGED <<vars, enabled, scan, fenced>>

-----------------------------------------------------------------------------
\* A barrier (memory repair, mapping, task action, entry fence) takes a task
\* that runs; until it lets go, the task's other stops are put off.  It only
\* waits for one that is being interrupted already.
Fence(m) ==
    /\ Idle /\ phase[m] = "run" /\ ~listening[m] /\ ~asked[m] /\ m \notin fenced
    /\ fenced' = fenced \cup {m}
    /\ UNCHANGED <<vars, tasks, enabled, scan>>

\* The barrier lets go: the task is continued there and then, without a look at
\* the freezer, or left to resume() for a debugger or the next fence.
Unfence(m) ==
    /\ Idle /\ m \in fenced
    /\ fenced' = fenced \ {m}
    /\ phase' \in {phase, [phase EXCEPT ![m] = "stop"]}
    /\ UNCHANGED <<vars, listening, asked, enabled, scan>>

-----------------------------------------------------------------------------
\* freezer_progress: the generation has changed, all tasks are visited.
Progress ==
    /\ Idle /\ Look
    /\ enabled' = TRUE
    /\ scan' = {m \in Members : phase[m] # "none"}
    /\ UNCHANGED <<writes, tasks, fenced>>

\* Mistakes: a task that is held is not resumed; one that runs is not interrupted.
VisitThawed(m) ==
    /\ lock = Free /\ m \in scan
    /\ scan' = scan \ {m}
    /\ IF ~freezing[m] \/ phase[m] = "exit"
       THEN Mark(m, FALSE) /\ UNCHANGED asked
       ELSE /\ IF listening[m] \/ phase[m] \in {"wait", "stop", "held"} THEN Mark(m, TRUE)
               ELSE UNCHANGED <<halted, events, effective>>
            /\ asked' = [asked EXCEPT ![m] = @ \/ (phase[m] = "run" /\ ~listening[m] /\ m \notin fenced)]
    /\ UNCHANGED <<hierarchy, phase, listening, enabled, fenced>>
VisitStopped(m) ==
    /\ lock = Free /\ m \in scan
    /\ scan' = scan \ {m}
    /\ IF ~freezing[m] \/ phase[m] = "exit"
       THEN /\ Mark(m, FALSE)
            /\ phase' \in IF phase[m] = "held" THEN {[phase EXCEPT ![m] = p] : p \in {"run", "stop"}}
                          ELSE {phase}
       ELSE /\ IF listening[m] \/ phase[m] \in {"wait", "stop", "held"} THEN Mark(m, TRUE)
               ELSE UNCHANGED <<halted, events, effective>>
            /\ UNCHANGED phase
    /\ UNCHANGED <<hierarchy, listening, asked, enabled, fenced>>

\* One turn of its loop.
Visit(m) ==
    /\ lock = Free /\ m \in scan
    /\ scan' = scan \ {m}
    /\ IF ~freezing[m] \/ phase[m] = "exit"
       THEN /\ Mark(m, FALSE)
            /\ phase' \in IF phase[m] = "held" THEN {[phase EXCEPT ![m] = p] : p \in {"run", "stop"}}
                          ELSE {phase}
            /\ UNCHANGED asked
       ELSE /\ IF listening[m] \/ phase[m] \in {"wait", "stop", "held"} THEN Mark(m, TRUE)
               ELSE UNCHANGED <<halted, events, effective>>
            /\ asked' = [asked EXCEPT ![m] = @ \/ (phase[m] = "run" /\ ~listening[m] /\ m \notin fenced)]
            /\ UNCHANGED phase
    /\ UNCHANGED <<hierarchy, listening, enabled, fenced>>

-----------------------------------------------------------------------------
\* What the other operations of the hierarchy do to the tasks.
FreezerFork(p, c, thread) ==
    /\ Idle /\ phase[p] = "work" /\ ~listening[p]
    /\ Fork(p, c, thread) \/ \E g \in Groups : CloneInto(p, c, g, thread)
    /\ UNCHANGED <<writes, tasks, enabled, scan, fenced>>

FreezerPublish(c) ==
    /\ Idle /\ Publish(c)
    /\ phase' = [phase EXCEPT ![c] = "birth"]
    /\ UNCHANGED <<writes, listening, asked, enabled, scan, fenced>>

FreezerExit(m) ==
    /\ Idle /\ phase[m] = "exit"
    /\ Depart(m) \/ Forget(m)
    /\ phase' = [phase EXCEPT ![m] = "none"]
    /\ UNCHANGED <<writes, listening, asked, enabled, scan, fenced>>

\* Control writes and abandoned clone calls.
FreezerControl ==
    /\ scan = {}
    /\ \/ \E g \in Groups, b \in BOOLEAN : WriteFreeze(g, b)
       \/ \E m \in Members :
             \/ WriteThreads(m) \/ Abort(m)
             \/ \E g \in Groups : WriteProcs(m, g)
    /\ UNCHANGED <<writes, tasks, enabled, scan, fenced>>

\* One turn of a migration's loop.
FreezerMove(m) ==
    /\ scan = {} /\ Move(m)
    /\ UNCHANGED <<writes, tasks, enabled, scan, fenced>>

\* Directories, by the filesystem worker.
FreezerOther ==
    /\ Mount \/ \E g \in Groups : Mkdir(g) \/ Rmdir(g)
    /\ UNCHANGED <<writes, tasks, enabled, scan, fenced>>

FreezerNext ==
    \/ Progress \/ FreezerControl \/ FreezerOther
    \/ \E m \in Members :
          \/ Visit(m) \/ FirstStop(m) \/ Trap(m) \/ Enter(m) \/ Release(m) \/ WorkEnds(m) \/ Park(m)
          \/ WaitOver(m) \/ JobStop(m) \/ JobWake(m) \/ Die(m) \/ Fence(m) \/ Unfence(m)
          \/ FreezerPublish(m) \/ FreezerExit(m) \/ FreezerMove(m)
          \/ \E c \in Members, thread \in BOOLEAN : FreezerFork(m, c, thread)

(***************************************************************************)
(* The event loop polls its wakeups at least once in PROGRESS_BATCH events *)
(* and collects stops round-robin, so that neither is put off forever by   *)
(* the other events; loops end; the kernel delivers an interrupt.          *)
(***************************************************************************)
FreezerFairness ==
    /\ SF_all(Progress)
    /\ \A m \in Members :
          /\ WF_all(Visit(m))
          /\ WF_all(FreezerMove(m))
          /\ SF_all(asked[m] /\ Trap(m))

FreezerSpec == FreezerInit /\ [][FreezerNext]_all /\ FreezerFairness

-----------------------------------------------------------------------------
\* A task is held only while its group is told to freeze, or while the
\* supervisor still has to look at the change that lets it go: no thaw, no
\* migration out of a frozen group and no removal of a freeze above is lost.
HeldIsDue ==
    /\ FreezerTypeOK
    /\ \A m \in Members : phase[m] = "held" => freezing[m] \/ dirty \/ m \in scan \/ lock # Free

\* A task that must freeze runs guest code, and nobody is about to stop it.
Loose(m) ==
    /\ freezing[m] /\ phase[m] = "run" /\ ~listening[m]
    /\ ~asked[m] /\ ~dirty /\ m \notin scan /\ lock = Free

\* A task gets away from the freezer in one way only: freezer_progress passes it
\* over while a barrier has it.  It never does by being born into a frozen group,
\* by moving there, or by coming back from a wait, a stop or an operation.
GetsLoose(m) == ~Loose(m) /\ Loose(m)'
NoEscape == [][\A m \in Members : GetsLoose(m) => m \in scan /\ m \in fenced]_all

\* A task that runs guest code in a group told to freeze, and that did not get
\* away, leaves it, unless the group is thawed or freezer_progress finds the task
\* in a barrier.
FreezeEnds ==
    \A m \in Members :
        phase[m] = "run" /\ ~listening[m] /\ freezing[m] /\ ~Loose(m)
            ~> phase[m] # "run" \/ listening[m] \/ ~freezing[m] \/ m \in scan \cap fenced

\* Driven by the event loop, the hierarchy does only what Cgroup lets it do, so
\* that its invariants hold of groups and members here, too.
ImplementsCgroup == Spec

\* A held task whose group is thawed goes on, unless it is frozen again.
ThawEnds ==
    \A m \in Members : phase[m] = "held" /\ ~freezing[m] ~> phase[m] # "held" \/ freezing[m]

\* Does not hold of the code.  namespace-providers.md says that "`cgroup.events`
\* reports frozen only after all affected tasks reach their stop", but a task
\* that leaves a wait or a stop keeps m->stopped until freezer_progress comes
\* by, and a freeze written before that counts it.
FrozenMeansStopped ==
    \A g \in Groups, m \in Members :
        frozen[g] /\ task[m] = "live" /\ g \in Chain(at[m]) => phase[m] # "run" \/ listening[m]

\* Does not hold of the code.  namespace-providers.md says that the freezer
\* "parks guest tasks at owned ptrace stops", but freezer_progress does not
\* interrupt a task that a barrier has, and the barrier continues it without a
\* look at the freezer: the task runs until it next stops by itself.
AllFreeze ==
    \A m \in Members :
        <>[](task[m] = "live" /\ freezing[m])
            => <>[](phase[m] # "run" \/ listening[m] \/ m \in fenced)
=============================================================================
