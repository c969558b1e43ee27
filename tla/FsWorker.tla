------------------------------ MODULE FsWorker ------------------------------
(***************************************************************************)
(* The filesystem worker of native/shroot/src/fs_worker.c: one thread that *)
(* owns the namespace, a queue of submitted work, a queue of completions   *)
(* handed back to the supervisor, continuations that wait for an           *)
(* asynchronous answer, the pause that lets the supervisor rewrite guest   *)
(* memory, and the shutdown that retires everything it accepted.           *)
(*                                                                         *)
(* Each action is one critical section of the worker's mutex or one step   *)
(* outside it; in particular a queue is changed in one step and its signal *)
(* is sent in a later one, as in md_fs_worker_submit and _publish.         *)
(***************************************************************************)
EXTENDS Integers, Sequences

CONSTANTS
    Works,      \* work records
    Control,    \* those that belong to md_fs_worker_control
    Launches,   \* which records a launch uses
    None,       \* no record in the worker's hand
    Batch,      \* records per pass: 32 in run_ready and resume_ready
    MaxStages   \* bound: waits that one execution cycle may install

ASSUME WorkerAssumption ==
    /\ Control \subseteq Works /\ Launches \subseteq SUBSET Works
    /\ None \notin Works
    /\ Batch \in Nat \ {0}
    /\ MaxStages \in Nat

VARIABLES
    submitted, waiting, completed,  \* the worker's three lists
    pass,       \* resume_ready's detached list
    hand,       \* the record whose run callback executes
    failing,    \* run was called with an error: no filesystem access
    turn,       \* records handled in this pass
    wpc,        \* where the worker thread is
    wret,       \* where it goes on after sending a completion signal
    polled,     \* service->paused, as decided by the last prepare
    wake, done, \* the two queue signals are readable
    stopfd,     \* the stop eventfd is readable
    pause,      \* w->pause and its acknowledged flag
    stopping,   \* w->stopping
    spc,        \* where the supervisor thread is
    taken,      \* md_fs_worker_dispatch's detached list
    barrier,    \* a memory barrier holds back completions of guest tasks
    recheck,    \* memory_completions_pending
    accepted,   \* records between a successful submit and their completion
    await,      \* the continuation's answer: none installed, pending, ready
    stage,      \* waits installed in this cycle
    bell,       \* producers that have published and not yet signalled
    result,     \* control work: atomic done flag
    cancelled,  \* control work: atomic cancelled flag
    refs,       \* control work: reference count
    holder,     \* control work: where md_control_pending's owner is
    used        \* the records of this launch

lists == <<submitted, waiting, completed, pass, taken>>
worker == <<hand, failing, turn, wpc, wret, polled>>
signals == <<wake, done, stopfd>>
super == <<spc, barrier, recheck>>
flags == <<pause, stopping>>
cont == <<await, stage, bell>>
control == <<result, cancelled, refs, holder>>
vars == <<lists, worker, signals, super, flags, accepted, cont, control>>
all == <<vars, used>>

Held(q, w) == \E i \in DOMAIN q : q[i] = w
Idle(w) == ~accepted[w]

TypeOK ==
    /\ submitted \in Seq(Works) /\ waiting \in Seq(Works) /\ completed \in Seq(Works)
    /\ pass \in Seq(Works) /\ taken \in Seq(Works)
    /\ hand \in Works \cup {None} /\ failing \in BOOLEAN /\ turn \in 0..Batch
    /\ wpc \in {"prepare", "poll", "resume", "take", "run", "send", "serve",
                "retire", "exited"}
    /\ wret \in {"prepare", "resume", "take", "retire"}
    /\ polled \in BOOLEAN
    /\ wake \in BOOLEAN /\ done \in BOOLEAN /\ stopfd \in BOOLEAN
    /\ pause \in {"none", "requested", "acknowledged"} /\ stopping \in BOOLEAN
    /\ spc \in {"loop", "wake", "detach", "deliver", "stop", "join", "freed"}
    /\ barrier \in BOOLEAN /\ recheck \in BOOLEAN
    /\ accepted \in [Works -> BOOLEAN]
    /\ await \in [Works -> {"no", "pending", "ready"}]
    /\ stage \in [Works -> 0..MaxStages]
    /\ bell \in SUBSET Works
    /\ result \in [Control -> BOOLEAN] /\ cancelled \in [Control -> BOOLEAN]
    /\ refs \in [Control -> 0..2]
    /\ holder \in [Control -> {"none", "held", "cancel", "ring", "release", "gone"}]
    /\ used \in Launches

\* md_fs_worker_start, once the worker has published its readiness.
Init ==
    /\ submitted = <<>> /\ waiting = <<>> /\ completed = <<>> /\ pass = <<>> /\ taken = <<>>
    /\ hand = None /\ failing = FALSE /\ turn = 0
    /\ wpc = "prepare" /\ wret = "prepare" /\ polled = FALSE
    /\ wake = FALSE /\ done = FALSE /\ stopfd = FALSE
    /\ pause = "none" /\ stopping = FALSE
    /\ spc = "loop" /\ barrier = FALSE /\ recheck = FALSE
    /\ accepted = [w \in Works |-> FALSE]
    /\ await = [w \in Works |-> "no"] /\ stage = [w \in Works |-> 0] /\ bell = {}
    /\ result = [c \in Control |-> FALSE] /\ cancelled = [c \in Control |-> FALSE]
    /\ refs = [c \in Control |-> 0] /\ holder = [c \in Control |-> "none"]
    /\ used \in Launches

-----------------------------------------------------------------------------
(* The supervisor thread. *)

\* md_fs_worker_submit, and md_fs_worker_control, which allocates its record
\* with one reference for the queue and one for the pending owner.  A stopping
\* or failed worker refuses.
Submit(w) ==
    /\ spc = "loop"
    /\ w \in used /\ Idle(w)
    /\ w \in Control => holder[w] = "none"
    /\ ~stopping /\ wpc # "exited"
    /\ submitted' = Append(submitted, w)
    /\ accepted' = [accepted EXCEPT ![w] = TRUE]
    /\ spc' = "wake"
    /\ refs' = [c \in Control |-> IF c = w THEN 2 ELSE refs[c]]
    /\ holder' = [c \in Control |-> IF c = w THEN "held" ELSE holder[c]]
    /\ UNCHANGED <<waiting, completed, pass, taken, worker, signals, barrier, recheck,
                   flags, cont, result, cancelled>>

\* The signal that follows submit, pause_begin and pause_end.
SendWake ==
    /\ spc = "wake"
    /\ wake' = TRUE
    /\ spc' = "loop"
    /\ UNCHANGED <<lists, worker, done, stopfd, barrier, recheck, flags, accepted,
                   cont, control>>

\* md_fs_worker_dispatch begins when the done signal is readable, or when the
\* supervisor rechecks completions that a barrier had held back.
DispatchAcknowledge ==
    /\ spc = "loop"
    /\ done \/ (recheck /\ ~barrier)
    /\ done' = FALSE
    /\ recheck' = IF ~barrier THEN FALSE ELSE recheck
    /\ spc' = "detach"
    /\ UNCHANGED <<lists, worker, wake, stopfd, barrier, flags, accepted, cont, control>>

\* Mistake: the detached list also stays on the queue.
DispatchKeeping ==
    /\ spc = "detach"
    /\ taken' = completed
    /\ spc' = "deliver"
    /\ UNCHANGED <<submitted, waiting, completed, pass, worker, signals, barrier, recheck,
                   flags, accepted, cont, control>>

DispatchDetach ==
    /\ spc = "detach"
    /\ taken' = completed
    /\ completed' = <<>>
    /\ spc' = "deliver"
    /\ UNCHANGED <<submitted, waiting, pass, worker, signals, barrier, recheck, flags,
                   accepted, cont, control>>

\* Mistake: the queue's reference is never dropped.
ReleaseNever(w) == UNCHANGED refs

\* control_release of a control record; other records belong to their owner.
Release(w) == refs' = [c \in Control |-> IF c = w THEN refs[c] - 1 ELSE refs[c]]

\* A completion is delivered, or put back while its task is behind a barrier.
\* Only guest tasks' records have a ready callback; control work has none.
Deliver ==
    /\ spc = "deliver"
    /\ taken # <<>>
    /\ LET w == Head(taken)
       IN  IF w \notin Control /\ barrier
           THEN /\ completed' = Append(completed, w)
                /\ UNCHANGED <<accepted, refs>>
           ELSE /\ accepted' = [accepted EXCEPT ![w] = FALSE]
                /\ Release(w)
                /\ UNCHANGED completed
    /\ taken' = Tail(taken)
    /\ UNCHANGED <<submitted, waiting, pass, worker, signals, super, flags, cont,
                   result, cancelled, holder>>

\* The end of dispatch: a failed worker's error ends the launch.
DispatchEnd ==
    /\ spc = "deliver"
    /\ taken = <<>>
    /\ spc' = IF wpc = "exited" THEN "stop" ELSE "loop"
    /\ stopping' = (stopping \/ wpc = "exited")
    /\ UNCHANGED <<lists, worker, signals, barrier, recheck, pause, accepted, cont, control>>

\* A memory barrier goes up; its release marks held completions for a recheck.
BarrierUp ==
    /\ spc = "loop" /\ ~barrier
    /\ barrier' = TRUE
    /\ UNCHANGED <<lists, worker, signals, spc, recheck, flags, accepted, cont, control>>

\* Mistake: the release of the barrier rechecks nothing.
BarrierDownForgets ==
    /\ spc = "loop" /\ barrier
    /\ barrier' = FALSE
    /\ UNCHANGED <<lists, worker, signals, spc, recheck, flags, accepted, cont, control>>

BarrierDown ==
    /\ spc = "loop" /\ barrier
    /\ barrier' = FALSE
    /\ recheck' = TRUE
    /\ UNCHANGED <<lists, worker, signals, spc, flags, accepted, cont, control>>

PauseBegin ==
    /\ spc = "loop"
    /\ pause = "none" /\ ~stopping /\ wpc # "exited"
    /\ pause' = "requested"
    /\ spc' = "wake"
    /\ UNCHANGED <<lists, worker, signals, barrier, recheck, stopping, accepted, cont, control>>

PauseEnd ==
    /\ spc = "loop"
    /\ pause # "none"
    /\ pause' = "none"
    /\ spc' = "wake"
    /\ UNCHANGED <<lists, worker, signals, barrier, recheck, stopping, accepted, cont, control>>

\* md_fs_worker_stop: refuse new work, signal the stop descriptor, wait for
\* the thread's exit, then release what was completed and never dispatched.
StopBegin ==
    /\ spc = "loop"
    /\ stopping' = TRUE
    /\ spc' = "stop"
    /\ UNCHANGED <<lists, worker, signals, barrier, recheck, pause, accepted, cont, control>>

StopSignal ==
    /\ spc = "stop"
    /\ stopfd' = TRUE
    /\ spc' = "join"
    /\ UNCHANGED <<lists, worker, wake, done, barrier, recheck, flags, accepted, cont, control>>

StopJoin ==
    /\ spc = "join"
    /\ wpc = "exited"
    /\ pause' = "none"
    /\ completed' = <<>>
    /\ accepted' = [w \in Works |-> accepted[w] /\ ~Held(completed, w)]
    /\ refs' = [c \in Control |-> IF Held(completed, c) THEN refs[c] - 1 ELSE refs[c]]
    /\ spc' = "freed"
    /\ UNCHANGED <<submitted, waiting, pass, taken, worker, signals, barrier, recheck,
                   stopping, cont, result, cancelled, holder>>

-----------------------------------------------------------------------------
(* The worker thread. *)

\* md_fs_service_prepare asks paused(): only here is a pause acknowledged.
Prepare ==
    /\ wpc = "prepare"
    /\ polled' = (pause # "none" /\ ~stopping)
    /\ pause' = IF pause = "requested" /\ ~stopping THEN "acknowledged" ELSE pause
    /\ done' = (done \/ (pause = "requested" /\ ~stopping))
    /\ wpc' = "poll"
    /\ UNCHANGED <<lists, hand, failing, turn, wret, wake, stopfd, stopping, super,
                   accepted, cont, control>>

\* The poll returns and the stop descriptor is readable, or serving failed.
PollStop ==
    /\ wpc = "poll"
    /\ stopfd \/ ~polled
    /\ wpc' = "retire" /\ polled' = FALSE
    /\ stopping' = TRUE
    /\ UNCHANGED <<lists, hand, failing, turn, wret, signals, pause, super,
                   accepted, cont, control>>

\* run_ready: acknowledge the wake signal and detach the waiting list.
PollWake ==
    /\ wpc = "poll"
    /\ ~stopfd /\ wake
    /\ wake' = FALSE
    /\ pass' = waiting
    /\ waiting' = <<>>
    /\ turn' = 0
    /\ wpc' = "resume"
    /\ UNCHANGED <<submitted, completed, taken, hand, failing, wret, polled, done, stopfd,
                   flags, super, accepted, cont, control>>

\* Another descriptor is ready: a broker notification or a socket request.
PollServe ==
    /\ wpc = "poll"
    /\ ~stopfd /\ ~polled
    /\ wpc' = "serve"
    /\ UNCHANGED <<lists, hand, failing, turn, wret, polled, signals, flags, super,
                   accepted, cont, control>>

\* Namespace work outside the queue ends; the broker may publish its record.
Serve(w) ==
    /\ wpc = "serve"
    /\ IF w = None
       THEN wpc' = "prepare" /\ UNCHANGED <<completed, accepted, wret>>
       ELSE /\ w \in used \ Control /\ Idle(w)
            /\ completed' = Append(completed, w)
            /\ accepted' = [accepted EXCEPT ![w] = TRUE]
            /\ wpc' = "send" /\ wret' = "prepare"
    /\ UNCHANGED <<submitted, waiting, pass, taken, hand, failing, turn, polled, signals,
                   flags, super, cont, control>>

\* What a waiting record's probe says: control_ready looks at the
\* cancellation first, then at the continuation.
Probe(w) == await[w] = "ready" \/ (w \in Control /\ cancelled[w])

\* resume_ready takes the next record of its pass: resumed when its answer is
\* there, the batch is not used up and no pause is wanted; put back otherwise.
Resume(fail) ==
    /\ wpc = "resume"
    /\ pass # <<>>
    /\ pass' = Tail(pass)
    /\ LET w == Head(pass)
       IN  IF turn < Batch /\ pause = "none" /\ Probe(w)
           THEN /\ hand' = w
                /\ failing' = (fail \/ (w \in Control /\ cancelled[w]))
                /\ turn' = turn + 1
                /\ wpc' = "run" /\ wret' = "resume"
                /\ UNCHANGED waiting
           ELSE /\ waiting' = Append(waiting, w)
                /\ UNCHANGED <<hand, failing, turn, wpc, wret>>
    /\ UNCHANGED <<submitted, completed, taken, polled, signals, flags, super, accepted,
                   cont, control>>

\* The pass ends; a full batch signals itself to look again.
ResumeEnd ==
    /\ wpc = "resume"
    /\ pass = <<>>
    /\ wake' = (wake \/ turn = Batch)
    /\ turn' = 0
    /\ wpc' = "take"
    /\ UNCHANGED <<lists, hand, failing, wret, polled, done, stopfd, flags, super,
                   accepted, cont, control>>

\* Mistake: a paused worker still takes from its queue.
AdmitsAlways == TRUE

Admits == pause = "none" \/ stopping

\* take_submitted, and the error a stopping worker passes to run.
Take ==
    /\ wpc = "take"
    /\ turn < Batch
    /\ Admits /\ submitted # <<>>
    /\ hand' = Head(submitted)
    /\ submitted' = Tail(submitted)
    /\ failing' = stopping
    /\ turn' = turn + 1
    /\ wpc' = "run" /\ wret' = "take"
    /\ UNCHANGED <<waiting, completed, pass, taken, polled, signals, flags, super,
                   accepted, cont, control>>

\* run_ready returns: nothing to take, or a full batch that signals itself.
TakeEnd ==
    /\ wpc = "take"
    /\ turn = Batch \/ ~Admits \/ submitted = <<>>
    /\ wake' = (wake \/ (turn = Batch /\ submitted # <<>> /\ pause = "none"))
    /\ turn' = 0
    /\ wpc' \in IF polled THEN {"prepare"} ELSE {"prepare", "serve"}
    /\ polled' = FALSE
    /\ UNCHANGED <<lists, hand, failing, wret, done, stopfd, flags, super,
                   accepted, cont, control>>

\* execute_work: run finishes and the record is published, or run installs a
\* wait and the record joins the waiting list.  control_run also stores its
\* result before it publishes.
RunWait ==
    /\ wpc = "run"
    /\ ~failing /\ ~(hand \in Control /\ cancelled[hand])
    /\ stage[hand] < MaxStages
    /\ stage' = [stage EXCEPT ![hand] = @ + 1]
    /\ await' = [await EXCEPT ![hand] = "pending"]
    /\ waiting' = Append(waiting, hand)
    /\ hand' = None
    /\ wpc' = wret /\ wret' = "prepare"
    /\ UNCHANGED <<submitted, completed, pass, taken, failing, turn, polled, signals,
                   flags, super, accepted, bell, control>>

RunPublish ==
    /\ wpc = "run"
    /\ await' = [await EXCEPT ![hand] = "no"]
    /\ completed' = Append(completed, hand)
    /\ result' = [c \in Control |-> result[c] \/ c = hand]
    /\ stage' = [stage EXCEPT ![hand] = 0]
    /\ hand' = None /\ failing' = FALSE
    /\ wpc' = "send"
    /\ UNCHANGED <<submitted, waiting, pass, taken, turn, wret, polled, signals, flags,
                   super, accepted, bell, cancelled, refs, holder>>

SendDone ==
    /\ wpc = "send"
    /\ done' = TRUE
    /\ wpc' = wret /\ wret' = "prepare"
    /\ UNCHANGED <<lists, hand, failing, turn, polled, wake, stopfd, flags, super,
                   accepted, cont, control>>

\* retire_work: waits first, then the queue, every callback with an error.
Retire ==
    /\ wpc = "retire"
    /\ \/ /\ waiting # <<>>
          /\ hand' = Head(waiting)
          /\ waiting' = Tail(waiting)
          /\ UNCHANGED submitted
       \/ /\ waiting = <<>> /\ submitted # <<>>
          /\ hand' = Head(submitted)
          /\ submitted' = Tail(submitted)
          /\ UNCHANGED waiting
    /\ failing' = TRUE
    /\ wpc' = "run" /\ wret' = "retire"
    /\ UNCHANGED <<completed, pass, taken, turn, polled, signals, flags, super, accepted,
                   cont, control>>

\* The thread publishes its exit and its last signal.
Exit ==
    /\ wpc = "retire"
    /\ waiting = <<>> /\ submitted = <<>>
    /\ done' = TRUE
    /\ wpc' = "exited"
    /\ UNCHANGED <<lists, hand, failing, turn, wret, polled, wake, stopfd, flags, super,
                   accepted, cont, control>>

-----------------------------------------------------------------------------
(* Producers of answers, and owners of pending control operations. *)

\* An asynchronous answer is published first and signalled afterwards
\* (finish of fuse_transport.c, for instance).
Produce(w) ==
    /\ await[w] = "pending"
    /\ await' = [await EXCEPT ![w] = "ready"]
    /\ bell' = bell \cup {w}
    /\ UNCHANGED <<lists, worker, signals, super, flags, accepted, stage, control>>

Ring(w) ==
    /\ w \in bell
    /\ bell' = bell \ {w}
    /\ wake' = TRUE
    /\ UNCHANGED <<lists, worker, done, stopfd, super, flags, accepted, await, stage, control>>

\* control_dispose: an unfinished operation is cancelled and the worker is
\* woken; then the owner's reference goes.
Dispose(c) ==
    /\ holder[c] = "held"
    /\ holder' = [holder EXCEPT ![c] = IF result[c] THEN "release" ELSE "cancel"]
    /\ UNCHANGED <<lists, worker, signals, super, flags, accepted, cont, result,
                   cancelled, refs>>

DisposeCancel(c) ==
    /\ holder[c] = "cancel"
    /\ cancelled' = [cancelled EXCEPT ![c] = TRUE]
    /\ holder' = [holder EXCEPT ![c] = "ring"]
    /\ UNCHANGED <<lists, worker, signals, super, flags, accepted, cont, result, refs>>

\* Mistake: a cancellation that does not wake the worker.
DisposeSilently(c) ==
    /\ holder[c] = "ring"
    /\ holder' = [holder EXCEPT ![c] = "release"]
    /\ UNCHANGED <<lists, worker, signals, super, flags, accepted, cont, result,
                   cancelled, refs>>

DisposeRing(c) ==
    /\ holder[c] = "ring"
    /\ wake' = TRUE
    /\ holder' = [holder EXCEPT ![c] = "release"]
    /\ UNCHANGED <<lists, worker, done, stopfd, super, flags, accepted, cont, result,
                   cancelled, refs>>

DisposeRelease(c) ==
    /\ holder[c] = "release"
    /\ refs' = [refs EXCEPT ![c] = @ - 1]
    /\ holder' = [holder EXCEPT ![c] = "gone"]
    /\ UNCHANGED <<lists, worker, signals, super, flags, accepted, cont, result, cancelled>>

\* The four steps in their order.
Disposal(c) == Dispose(c) \/ DisposeCancel(c) \/ DisposeRing(c) \/ DisposeRelease(c)

-----------------------------------------------------------------------------
Supervisor ==
    \/ \E w \in Works : Submit(w)
    \/ SendWake
    \/ DispatchAcknowledge \/ DispatchDetach \/ Deliver \/ DispatchEnd
    \/ BarrierUp \/ BarrierDown \/ PauseBegin \/ PauseEnd
    \/ StopBegin \/ StopSignal \/ StopJoin

Worker ==
    \/ Prepare \/ PollStop \/ PollWake \/ PollServe
    \/ \E w \in Works \cup {None} : Serve(w)
    \/ \E fail \in BOOLEAN : Resume(fail)
    \/ ResumeEnd \/ Take \/ TakeEnd \/ RunWait \/ RunPublish \/ SendDone
    \/ Retire \/ Exit

Others ==
    \/ \E w \in Works : Produce(w) \/ Ring(w)
    \/ \E c \in Control : Disposal(c)

Next == (Supervisor \/ Worker \/ Others) /\ UNCHANGED used

Spec == Init /\ [][Next]_all

-----------------------------------------------------------------------------
\* The number of places that hold a record.
Count(q, w) == IF Held(q, w) THEN 1 ELSE 0
Places(w) ==
    Count(submitted, w) + Count(waiting, w) + Count(completed, w) + Count(pass, w)
      + Count(taken, w) + (IF hand = w THEN 1 ELSE 0)

Distinct(q) == \A i, j \in DOMAIN q : q[i] = q[j] => i = j

\* Intrusive records travel through five lists and two threads: an accepted
\* record is in exactly one place, and a record that is nowhere is its
\* owner's again.  One linked twice would corrupt both lists; one dropped
\* would leave its task stopped for ever.  A thread that has exited is nobody's
\* custodian: what it had accepted it has published, even what was submitted
\* while it was failing.
OneCustodian ==
    /\ TypeOK
    /\ \A w \in Works : Places(w) = IF accepted[w] THEN 1 ELSE 0
    /\ Distinct(submitted) /\ Distinct(waiting) /\ Distinct(completed)
    /\ Distinct(pass) /\ Distinct(taken)
    /\ wpc = "exited" => submitted = <<>> /\ waiting = <<>> /\ pass = <<>> /\ hand = None

\* md_fs_worker_pause's contract: state==1 proves that the worker has stopped
\* all namespace work, inside and outside the queue, until the pause ends.
\* (A stopping worker reports -ESHUTDOWN instead.)
PauseIsQuiet ==
    pause = "acknowledged" /\ ~stopping =>
        hand = None /\ wpc \in {"prepare", "poll", "resume", "take"}

\* No signal is lost.  Accepted work has a wake-up coming: the descriptor is
\* readable or about to be, or the worker is on its way to the queue, or a
\* pause is in force, whose end will signal.  A pause the worker has not seen
\* has one, so that it is acknowledged.  A published completion has a dispatch
\* coming, or is held back by a barrier, whose release will dispatch it.
NoLostSignal ==
    /\ submitted # <<>> =>
        \/ wake \/ spc = "wake" \/ pause # "none" \/ stopping
        \/ wpc \in {"resume", "take"}
        \/ wpc \in {"run", "send"} /\ wret \in {"resume", "take"}
    /\ pause = "requested" /\ wpc = "poll" => wake \/ spc = "wake" \/ stopping
    /\ completed # <<>> =>
        \/ done \/ wpc = "send" \/ barrier \/ recheck
        \/ spc \in {"detach", "stop", "join", "freed"}

\* A control record is freed by its last user and by nobody earlier.
ControlReferences ==
    \A c \in Control :
        refs[c] = (IF accepted[c] THEN 1 ELSE 0)
                    + (IF holder[c] \in {"none", "gone"} THEN 0 ELSE 1)

-----------------------------------------------------------------------------
\* Both threads keep running; the memory operation that raised a barrier
\* or a pause lowers it, the pause once it is acknowledged; an answer comes to
\* a guest task's wait, and a pending control operation is disposed of.
Fairness ==
    /\ WF_vars(Worker /\ wpc # "poll")
    /\ SF_vars(PollWake) /\ WF_vars(wpc = "poll" /\ stopfd /\ PollStop)
    /\ WF_vars(Supervisor /\ spc # "loop") /\ SF_vars(DispatchAcknowledge)
    /\ SF_vars(BarrierDown) /\ SF_vars(pause = "acknowledged" /\ PauseEnd)
    /\ \A w \in Works \ Control : WF_vars(Produce(w))
    /\ \A w \in Works : WF_vars(Ring(w))
    /\ \A c \in Control : WF_vars(Disposal(c))

FairSpec == Spec /\ Fairness

\* Whatever is submitted, paused, held back, cancelled or stopped in between,
\* accepted work is completed or released.  Only pauses without end can starve
\* it: nothing in the code bounds how often the supervisor pauses the worker.
EveryWorkEnds ==
    <>[](pause = "none") => \A w \in Works : accepted[w] ~> ~accepted[w]
=============================================================================
