------------------------------ MODULE OfdOrder ------------------------------
(***************************************************************************)
(* Directory reads and seeks on shared open file descriptions: the         *)
(* registry of native/shroot/src/ofd_order.c and its three users.  The     *)
(* broker and the RPC peers run on the filesystem worker's thread; mapped  *)
(* requests are admitted by the supervisor's thread, which posts their     *)
(* work to the worker.  A read takes records first and advances the        *)
(* description only when its caller has copied them; until then the turn   *)
(* queue of the description's registry entry keeps others out.             *)
(*                                                                         *)
(* One action is what a thread does under the registry's mutex, or on the  *)
(* worker between two uses of it; hand is the request a thread is in the   *)
(* middle of.  An entry's line is the abstract queue of FifoTurn, which    *)
(* ResourceOrder implements: its first member is READY or RUNNING.  Each   *)
(* member of Ops is one request.                                           *)
(***************************************************************************)
EXTENDS Integers, Sequences, FiniteSets

CONSTANTS
    Ops,        \* requests
    Files,      \* open file descriptions, whatever descriptors name them
    Entries,    \* addresses of registry entries
    Menus,      \* the combinations of calls that the requests may be
    None,       \* a NULL pointer
    End         \* bound: the last directory position

Paths == {"broker", "mapped", "rpc"}
Kinds == {"read", "seek"}
Threads == {"worker", "supervisor"}

\* A call: by which path, what, on which description.  The broker leaves
\* seeks to the other two.
Calls == {c \in [path : Paths, kind : Kinds, file : Files] :
             ~(c.path = "broker" /\ c.kind = "seek")}

\* An entry is live only while a request holds it, so Ops addresses suffice.
ASSUME OfdAssumption ==
    /\ Menus \subseteq [Ops -> Calls]
    /\ None \notin Ops \cup Files \cup Entries
    /\ IsFiniteSet(Ops) /\ IsFiniteSet(Entries)
    /\ Cardinality(Entries) >= Cardinality(Ops)
    /\ End \in Nat

VARIABLES
    call,       \* the request's path, kind and description
    stage,      \* where the request is
    cancelled,  \* r->cancelled: the mapped request's task is gone
    copied,     \* r->delivered
    from,       \* the position a read took its records from
    entry,      \* op->entry
    file,       \* entry->fd: the description an entry pins, None when freed
    refs,       \* entry->refs
    line,       \* entry->queue
    jobs,       \* mapped work submitted to the worker
    pos,        \* the description's position in the kernel
    hand        \* the request a thread is in the middle of

vars == <<call, stage, cancelled, copied, from, entry, file, refs, line, jobs, pos, hand>>
registry == <<entry, file, refs, line>>

Stages == {"new", "waiting", "started", "posted", "ran", "offered", "finishing",
           "done", "retiring", "over"}
Positions == 0..End

\* The program's types; a freed entry has no reference and nobody in line.
TypeOK ==
    /\ call \in Menus
    /\ stage \in [Ops -> Stages]
    /\ cancelled \in [Ops -> BOOLEAN] /\ copied \in [Ops -> BOOLEAN]
    /\ from \in [Ops -> Positions]
    /\ entry \in [Ops -> Entries \cup {None}]
    /\ file \in [Entries -> Files \cup {None}]
    /\ refs \in [Entries -> Nat]
    /\ line \in [Entries -> Seq(Ops)]
    /\ jobs \in Seq(Ops)
    /\ pos \in [Files -> Positions]
    /\ hand \in [Threads -> Ops \cup {None}]
    /\ \A e \in Entries : file[e] = None => refs[e] = 0 /\ line[e] = <<>>

Init ==
    /\ call \in Menus
    /\ stage = [o \in Ops |-> "new"]
    /\ cancelled = [o \in Ops |-> FALSE] /\ copied = [o \in Ops |-> FALSE]
    /\ from = [o \in Ops |-> 0]
    /\ entry = [o \in Ops |-> None]
    /\ file = [e \in Entries |-> None]
    /\ refs = [e \in Entries |-> 0]
    /\ line = [e \in Entries |-> <<>>]
    /\ jobs = <<>>
    /\ pos = [f \in Files |-> 0]
    /\ hand = [t \in Threads |-> None]

-----------------------------------------------------------------------------
Mapped(o) == call[o].path = "mapped"
Read(o) == call[o].kind = "read"
Idle(t) == hand[t] = None

\* The request has the turn of its description: READY or RUNNING.
Turn(o) == entry[o] # None /\ line[entry[o]] # <<>> /\ Head(line[entry[o]]) = o

\* The entries that kcmp finds equal to the request's descriptor.
Matches(o) == {e \in Entries : file[e] = call[o].file}

\* The callers' reserve argument: reads that outlive their handler.
Reserves(o) == Read(o) /\ call[o].path # "broker"

\* Mistake: the search for an equal description is left out.
EnrollApart(o, e) ==
    /\ Reserves(o) /\ file[e] = None
    /\ file' = [file EXCEPT ![e] = call[o].file]
    /\ refs' = [refs EXCEPT ![e] = @ + 1]
    /\ entry' = [entry EXCEPT ![o] = e]
    /\ line' = [line EXCEPT ![e] = Append(@, o)]

\* md_ofd_order_begin, with an entry: the one of this description, or a new
\* one for a reserving caller.
Enroll(o, e) ==
    /\ IF Matches(o) # {} THEN e \in Matches(o)
       ELSE Reserves(o) /\ e = CHOOSE x \in Entries : file[x] = None
    /\ file' = [file EXCEPT ![e] = call[o].file]
    /\ refs' = [refs EXCEPT ![e] = @ + 1]
    /\ entry' = [entry EXCEPT ![o] = e]
    /\ line' = [line EXCEPT ![e] = Append(@, o)]

\* md_ofd_order_begin, without: nobody is active on the description.
Unordered(o) ==
    /\ Matches(o) = {}
    /\ ~Reserves(o)
    /\ UNCHANGED registry

\* Mistake: only the holder of the turn leaves the queue; a cancelled waiter stays.
LeaveInTurn(o, t) ==
    /\ IF entry[o] = None
       THEN /\ stage' = [stage EXCEPT ![o] = "over"]
            /\ hand' = [hand EXCEPT ![t] = None]
            /\ UNCHANGED line
       ELSE /\ stage' = [stage EXCEPT ![o] = "retiring"]
            /\ hand' = [hand EXCEPT ![t] = o]
            /\ line' = IF Turn(o) THEN [line EXCEPT ![entry[o]] = Tail(@)] ELSE line
    /\ UNCHANGED <<entry, file, refs>>

\* A queue without the request at position i.
Unlink(q, i) == [j \in 1..(Len(q) - 1) |-> IF j < i THEN q[j] ELSE q[j + 1]]

\* md_ofd_order_cancel or _complete on thread t: out of the queue under its
\* mutex; drop follows.  A request without a turn has nothing to return.
Leave(o, t) ==
    /\ IF entry[o] = None
       THEN /\ stage' = [stage EXCEPT ![o] = "over"]
            /\ hand' = [hand EXCEPT ![t] = None]
            /\ UNCHANGED line
       ELSE /\ stage' = [stage EXCEPT ![o] = "retiring"]
            /\ hand' = [hand EXCEPT ![t] = o]
            /\ \E i \in DOMAIN line[entry[o]] :
                  /\ line[entry[o]][i] = o
                  /\ line' = [line EXCEPT ![entry[o]] = Unlink(@, i)]
    /\ UNCHANGED <<entry, file, refs>>

\* drop: the last reference unlinks and frees the entry and its descriptor.
Drop(t) ==
    LET o == hand[t]
        e == entry[o]
    IN  /\ o # None /\ stage[o] = "retiring"
        /\ refs' = [refs EXCEPT ![e] = @ - 1]
        /\ file' = IF refs[e] = 1 THEN [file EXCEPT ![e] = None] ELSE file
        /\ entry' = [entry EXCEPT ![o] = None]
        /\ stage' = [stage EXCEPT ![o] = "over"]
        /\ hand' = [hand EXCEPT ![t] = None]
        /\ UNCHANGED <<call, cancelled, copied, from, line, jobs, pos>>

\* Where the description is after a read from p: the directory may be at its end.
After(p) == IF p < End THEN p + 1 ELSE End

\* The reserved position becomes the description's if the bytes were copied.
Commit(o, c) ==
    pos' = IF c THEN [pos EXCEPT ![call[o].file] = After(from[o])] ELSE pos

\* An operation that completes in its handler: a seek, or the broker's read,
\* which copies and commits before it goes on; or it fails and moves nothing.
Immediate(o) ==
    \/ \E p \in IF Read(o) THEN {After(pos[call[o].file])} ELSE Positions :
          pos' = [pos EXCEPT ![call[o].file] = p]
    \/ UNCHANGED pos

-----------------------------------------------------------------------------
\* The worker's thread: broker notifications and RPC peers.

\* A request arrives at its handler (dispatch, service_request).
Arrive(o) ==
    /\ Idle("worker") /\ stage[o] = "new" /\ ~Mapped(o)
    /\ \/ /\ Unordered(o)
          /\ stage' = [stage EXCEPT ![o] = "started"]
          /\ hand' = [hand EXCEPT !["worker"] = o]
       \/ \E e \in Entries :
             /\ Enroll(o, e)
             /\ IF line[e] = <<>>
                THEN /\ stage' = [stage EXCEPT ![o] = "started"]
                     /\ hand' = [hand EXCEPT !["worker"] = o]
                ELSE /\ stage' = [stage EXCEPT ![o] = "waiting"]
                     /\ UNCHANGED hand
    /\ UNCHANGED <<call, cancelled, copied, from, jobs, pos>>

\* The loop finds a waiting request ready and starts it.
Resume(o) ==
    /\ Idle("worker") /\ stage[o] = "waiting" /\ ~Mapped(o)
    /\ Turn(o)
    /\ stage' = [stage EXCEPT ![o] = "started"]
    /\ hand' = [hand EXCEPT !["worker"] = o]
    /\ UNCHANGED <<call, cancelled, copied, from, registry, jobs, pos>>

\* It executes: an RPC read reserves its records and keeps the turn.
Serve(o) ==
    /\ hand["worker"] = o /\ stage[o] = "started"
    /\ \/ /\ call[o].path = "rpc" /\ Read(o)
          /\ from' = [from EXCEPT ![o] = pos[call[o].file]]
          /\ stage' = [stage EXCEPT ![o] = "offered"]
          /\ hand' = [hand EXCEPT !["worker"] = None]
          /\ UNCHANGED <<registry, pos>>
       \/ /\ call[o].path = "rpc" /\ Read(o)
          /\ Leave(o, "worker")
          /\ UNCHANGED <<from, pos>>
       \/ /\ ~(call[o].path = "rpc" /\ Read(o))
          /\ Immediate(o)
          /\ Leave(o, "worker")
          /\ UNCHANGED from
    /\ UNCHANGED <<call, cancelled, copied, jobs>>

\* The peer answers, or its connection ends before the reply is out (not
\* copied) or after (possibly copied, so committed).
Answer(o, c) ==
    /\ Idle("worker") /\ stage[o] = "offered" /\ ~Mapped(o)
    /\ Commit(o, c)
    /\ Leave(o, "worker")
    /\ UNCHANGED <<call, cancelled, copied, from, jobs>>

\* A waiting caller is gone: the peer hung up, the notification is no longer valid.
Withdraw(o) ==
    /\ Idle("worker") /\ stage[o] = "waiting" /\ ~Mapped(o)
    /\ Leave(o, "worker")
    /\ UNCHANGED <<call, cancelled, copied, from, jobs, pos>>

\* run: the worker takes the next mapped request.
Run ==
    /\ Idle("worker") /\ jobs # <<>>
    /\ LET o == Head(jobs)
       IN  \/ /\ stage[o] = "posted" /\ Read(o)
              /\ from' = [from EXCEPT ![o] = pos[call[o].file]]
              /\ \E s \in {"ran", "done"} : stage' = [stage EXCEPT ![o] = s]
              /\ UNCHANGED pos
           \/ /\ stage[o] = "posted" /\ ~Read(o)
              /\ Immediate(o)
              /\ stage' = [stage EXCEPT ![o] = "done"]
              /\ UNCHANGED from
           \/ /\ stage[o] = "finishing"
              /\ Commit(o, copied[o])
              /\ stage' = [stage EXCEPT ![o] = "done"]
              /\ UNCHANGED from
    /\ jobs' = Tail(jobs)
    /\ UNCHANGED <<call, cancelled, copied, registry, hand>>

-----------------------------------------------------------------------------
\* The supervisor's thread: mapped requests.

\* submit: join the description's turn, or go straight to the worker.
Submit(o) ==
    /\ Idle("supervisor") /\ stage[o] = "new" /\ Mapped(o)
    /\ \/ /\ Unordered(o)
          /\ stage' = [stage EXCEPT ![o] = "posted"]
          /\ jobs' = Append(jobs, o)
       \/ \E e \in Entries :
             /\ Enroll(o, e)
             /\ IF line[e] = <<>>
                THEN /\ stage' = [stage EXCEPT ![o] = "posted"]
                     /\ jobs' = Append(jobs, o)
                ELSE /\ stage' = [stage EXCEPT ![o] = "waiting"]
                     /\ UNCHANGED jobs
    /\ UNCHANGED <<call, cancelled, copied, from, pos, hand>>

\* md_fs_buffer_progress: a waiting request has become ready.
Progress(o) ==
    /\ Idle("supervisor") /\ stage[o] = "waiting" /\ Mapped(o)
    /\ Turn(o)
    /\ stage' = [stage EXCEPT ![o] = "posted"]
    /\ jobs' = Append(jobs, o)
    /\ UNCHANGED <<call, cancelled, copied, from, registry, pos, hand>>

\* Mistake: the acknowledgement retires the turn before the worker has committed.
FinishEarly(o, c) ==
    /\ copied' = [copied EXCEPT ![o] = c]
    /\ stage' = [stage EXCEPT ![o] = "finishing"]
    /\ jobs' = Append(jobs, o)
    /\ line' = [line EXCEPT ![entry[o]] = Tail(@)]
    /\ UNCHANGED <<entry, file, refs>>

\* finish: the worker is to commit or give up the reservation.
Finish(o, c) ==
    /\ copied' = [copied EXCEPT ![o] = c]
    /\ stage' = [stage EXCEPT ![o] = "finishing"]
    /\ jobs' = Append(jobs, o)
    /\ UNCHANGED registry

\* complete: offer reserved records to the task, or give them up if it is gone.
Offer(o) ==
    /\ Idle("supervisor") /\ stage[o] = "ran"
    /\ IF cancelled[o] THEN Finish(o, FALSE)
       ELSE /\ stage' = [stage EXCEPT ![o] = "offered"]
            /\ UNCHANGED <<copied, jobs, registry>>
    /\ UNCHANGED <<call, cancelled, from, pos, hand>>

\* md_fs_buffer_ack: the task says whether it has copied them.
Ack(o, c) ==
    /\ Idle("supervisor") /\ stage[o] = "offered" /\ Mapped(o)
    /\ Finish(o, c)
    /\ UNCHANGED <<call, cancelled, from, pos, hand>>

\* complete, dispose: the request is over and returns its turn.
Dispose(o) ==
    /\ Idle("supervisor") /\ stage[o] = "done"
    /\ Leave(o, "supervisor")
    /\ UNCHANGED <<call, cancelled, copied, from, jobs, pos>>

\* md_fs_buffer_cancel: at once while waiting; a submitted request runs on; an
\* offered one may have been copied and is committed.
Cancel(o) ==
    /\ Idle("supervisor") /\ Mapped(o) /\ ~cancelled[o]
    /\ cancelled' = [cancelled EXCEPT ![o] = TRUE]
    /\ \/ /\ stage[o] = "waiting"
          /\ Leave(o, "supervisor")
          /\ UNCHANGED <<copied, jobs>>
       \/ /\ stage[o] \in {"posted", "ran", "finishing", "done"}
          /\ UNCHANGED <<stage, copied, jobs, registry, hand>>
       \/ /\ stage[o] = "offered"
          /\ Finish(o, TRUE)
          /\ UNCHANGED hand
    /\ UNCHANGED <<call, from, pos>>

-----------------------------------------------------------------------------
\* What the two loops do once requests are there, answers included.
Steps ==
    \/ \E t \in Threads : Drop(t)
    \/ \E o \in Ops : Resume(o) \/ Serve(o) \/ Progress(o) \/ Offer(o) \/ Dispose(o)
    \/ \E o \in Ops, c \in BOOLEAN : Answer(o, c) \/ Ack(o, c)
    \/ Run

Next ==
    \/ Steps
    \/ \E o \in Ops : Arrive(o) \/ Submit(o) \/ Withdraw(o) \/ Cancel(o)

Spec == Init /\ [][Next]_vars
FairSpec == Spec /\ WF_vars(Steps)

-----------------------------------------------------------------------------
\* A read has taken records and not yet settled them.
Reserved(o) == stage[o] \in {"ran", "offered", "finishing"}

\* An entry is freed exactly with its last request: a request's entry is live
\* and is that of its description, the count is the number of requests that
\* hold the pointer, and no description has two entries (md_ofd_order_begin on
\* one thread against drop on the other).
EntriesSound ==
    /\ TypeOK
    /\ \A e \in Entries : refs[e] = Cardinality({o \in Ops : entry[o] = e})
    /\ \A o \in Ops : entry[o] # None => file[entry[o]] = call[o].file
    /\ \A e1, e2 \in Entries : file[e1] # None /\ file[e1] = file[e2] => e1 = e2

\* The description stays where a read found it until that read is settled, so
\* the read's commit overwrites nobody's seek and skips nobody's records.
PositionHeld == \A o \in Ops : Reserved(o) => pos[call[o].file] = from[o]

\* No mapped request seeks on the description.
NoMappedSeek(f) == \A s \in Ops : Mapped(s) /\ call[s].file = f => Read(s)

\* The same where no mapped seek comes near: among reads by every path and the
\* seeks of RPC peers, a commit overwrites nothing, and two reads never hold
\* records of one description at once (the first commit would move the second).
HeldByWorker ==
    \A o \in Ops : Reserved(o) /\ NoMappedSeek(call[o].file) => pos[call[o].file] = from[o]

\* A request that waits for its turn is served or withdrawn: turns are handed
\* on by every way of ending, on either thread.
WaitersEnd == \A o \in Ops : stage[o] = "waiting" ~> stage[o] = "over"
=============================================================================
