----------------------------- MODULE Publication -----------------------------
(***************************************************************************)
(* Promotion of native leaves in the inode store (inode_publication.c,     *)
(* under the admission of inode_db.c).  A guest file may live as a plain   *)
(* name of its parent's directory (native) or as an object of the store    *)
(* that catalogue rows name.  Promotion moves it from the first form to    *)
(* the second in steps that a failure, the death of the process or a       *)
(* power cut may separate; whoever enters the store next completes them.   *)
(*                                                                         *)
(* Owners are the processes that have the store open.  The gate (a file    *)
(* lock) serialises them and is released by death.  External: rename is    *)
(* atomic and reaches the disk when both directories are synced, an SQL    *)
(* commit is durable with synchronous=FULL, and the mapped hint survives   *)
(* processes but comes back from a power cut with any value.               *)
(***************************************************************************)
EXTENDS Naturals, FiniteSets

CONSTANTS Owners,       \* processes
          Inspectors,   \* the ones that open the store for inspection only
          Leaves,       \* private regular files
          None,
          MaxFaults     \* bound on failures, deaths and power cuts

ASSUME InspectorsAssumption == Inspectors \subseteq Owners
ASSUME NoneAssumption == None \notin Owners /\ None \notin Leaves
ASSUME FaultsAssumption == MaxFaults \in Nat

VARIABLES
    loc,        \* where a body is, as a running system sees it
    durable,    \* where it may be after a power cut
    catalogue,  \* leaves with committed object and name rows
    intent,     \* the committed row of native_publication
    pending,    \* the shared hint
    gate,       \* holder of the store lock
    opened,     \* owners whose open succeeded
    pc,         \* step of the owner's operation
    leaf,       \* the leaf it publishes
    watcher,    \* the owner with a watch on the parent
    publishing, \* what the watch has read of the markers
    faults

vars == <<loc, durable, catalogue, intent, pending, gate, opened, pc, leaf, watcher, publishing, faults>>

Places == {"unborn", "native", "object", "gone"}

Init ==
    /\ loc = [f \in Leaves |-> "unborn"]
    /\ durable = [f \in Leaves |-> {"unborn"}]
    /\ catalogue = {} /\ intent = None /\ pending = FALSE
    /\ gate = None /\ opened = {}
    /\ pc = [o \in Owners |-> "out"]
    /\ leaf = [o \in Owners |-> None]
    /\ watcher = None /\ publishing = FALSE /\ faults = 0

At(o, step) == pc[o] = step
Goto(o, step) == pc' = [pc EXCEPT ![o] = step]

\* The end of every operation: mdi_finish, or the unlock of a failed begin.
Unlock(o) ==
    /\ gate' = None
    /\ pc' = [pc EXCEPT ![o] = "out"]
    /\ leaf' = [leaf EXCEPT ![o] = None]

-----------------------------------------------------------------------------
\* Admission.

\* begin takes the gate and recovers if the hint says so; the first begin,
\* mdi_publication_open, always does.
Enter(o) ==
    /\ At(o, "out") /\ gate = None
    /\ gate' = o
    /\ Goto(o, IF o \in opened /\ ~pending THEN "operating" ELSE "recover")
    /\ UNCHANGED <<loc, durable, catalogue, intent, pending, opened, leaf, watcher, publishing, faults>>

\* Mistake: recovery without an intent leaves out the end marker.
RecoverNoneUnmarked(o) ==
    /\ At(o, "recover") /\ intent = None
    /\ pending' = (pending /\ o \in Inspectors)
    /\ opened' = opened \cup {o}
    /\ Goto(o, "operating")
    /\ UNCHANGED <<loc, durable, catalogue, intent, gate, leaf, watcher, publishing, faults>>

\* mdi_publication_recover without an intent: the work was finished but for
\* the end marker and the hint.
RecoverNone(o) ==
    /\ At(o, "recover") /\ intent = None
    /\ publishing' = (publishing /\ (o \in Inspectors \/ ~pending))
    /\ pending' = (pending /\ o \in Inspectors)
    /\ opened' = opened \cup {o}
    /\ Goto(o, "operating")
    /\ UNCHANGED <<loc, durable, catalogue, intent, gate, leaf, watcher, faults>>

\* An inspector reports EBUSY.
RecoverBusy(o) ==
    /\ At(o, "recover") /\ intent # None /\ o \in Inspectors
    /\ Unlock(o)
    /\ UNCHANGED <<loc, durable, catalogue, intent, pending, opened, watcher, publishing, faults>>

RecoverBegin(o) ==
    /\ At(o, "recover") /\ intent # None /\ o \notin Inspectors
    /\ pending' = TRUE
    /\ leaf' = [leaf EXCEPT ![o] = intent]
    /\ Goto(o, "check")
    /\ UNCHANGED <<loc, durable, catalogue, intent, gate, opened, watcher, publishing, faults>>

Leave(o) ==
    /\ At(o, "operating")
    /\ Unlock(o)
    /\ UNCHANGED <<loc, durable, catalogue, intent, pending, opened, watcher, publishing, faults>>

-----------------------------------------------------------------------------
\* Operations on native leaves, which write no row and sync nothing, and the
\* registration of a watch, all under the gate.

Create(o, f) ==
    /\ At(o, "operating") /\ o \notin Inspectors /\ loc[f] = "unborn"
    /\ loc' = [loc EXCEPT ![f] = "native"]
    /\ durable' = [durable EXCEPT ![f] = @ \cup {"native"}]
    /\ UNCHANGED <<catalogue, intent, pending, gate, opened, pc, leaf, watcher, publishing, faults>>

Unlink(o, f) ==
    /\ At(o, "operating") /\ o \notin Inspectors /\ loc[f] = "native"
    /\ loc' = [loc EXCEPT ![f] = "gone"]
    /\ durable' = [durable EXCEPT ![f] = @ \cup {"gone"}]
    /\ UNCHANGED <<catalogue, intent, pending, gate, opened, pc, leaf, watcher, publishing, faults>>

Register(o) ==
    /\ At(o, "operating") /\ o \notin Inspectors /\ watcher = None
    /\ watcher' = o /\ publishing' = FALSE
    /\ UNCHANGED <<loc, durable, catalogue, intent, pending, gate, opened, pc, leaf, faults>>

-----------------------------------------------------------------------------
\* mdi_publication_promote.

\* Refused for catalogued and inspected leaves; no object has the leaf's name.
Promote(o, f) ==
    /\ At(o, "operating") /\ o \notin Inspectors
    /\ loc[f] = "native" /\ f \notin catalogue
    /\ leaf' = [leaf EXCEPT ![o] = f]
    /\ Goto(o, "sync")
    /\ UNCHANGED <<loc, durable, catalogue, intent, pending, gate, opened, watcher, publishing, faults>>

\* Mistake: the native name is not synced before the intent.
SyncNothing(o) ==
    /\ At(o, "sync")
    /\ Goto(o, "hint")
    /\ UNCHANGED <<loc, durable, catalogue, intent, pending, gate, opened, leaf, watcher, publishing, faults>>

\* The body and its directory reach the disk before the intent does.
SyncSource(o) ==
    /\ At(o, "sync")
    /\ durable' = [durable EXCEPT ![leaf[o]] = {loc[leaf[o]]}]
    /\ Goto(o, "hint")
    /\ UNCHANGED <<loc, catalogue, intent, pending, gate, opened, leaf, watcher, publishing, faults>>

\* Mistake: the shared hint is not set before the intent.
HintNothing(o) ==
    /\ At(o, "hint")
    /\ Goto(o, "record")
    /\ UNCHANGED <<loc, durable, catalogue, intent, pending, gate, opened, leaf, watcher, publishing, faults>>

\* Set before the intent can be committed.
Hint(o) ==
    /\ At(o, "hint")
    /\ pending' = TRUE
    /\ Goto(o, "record")
    /\ UNCHANGED <<loc, durable, catalogue, intent, gate, opened, leaf, watcher, publishing, faults>>

Record(o) ==
    /\ At(o, "record")
    /\ intent' = leaf[o]
    /\ Goto(o, "check")
    /\ UNCHANGED <<loc, durable, catalogue, pending, gate, opened, leaf, watcher, publishing, faults>>

\* publish(), also the body of recovery.

\* Mistake: watches are not told that a publication begins.
CheckUnmarked(o) ==
    /\ At(o, "check") /\ loc[leaf[o]] \in {"native", "object"}
    /\ Goto(o, "move")
    /\ UNCHANGED <<loc, durable, catalogue, intent, pending, gate, opened, leaf, watcher, publishing, faults>>

Begun(o) ==
    /\ publishing' = (watcher # None)
    /\ Goto(o, "move")
    /\ UNCHANGED <<gate, leaf>>

\* Mistake: recovery insists on the native name, as a first attempt does.
CheckSource(o) ==
    /\ At(o, "check")
    /\ IF loc[leaf[o]] = "native" THEN Begun(o) ELSE Unlock(o) /\ UNCHANGED publishing
    /\ UNCHANGED <<loc, durable, catalogue, intent, pending, opened, watcher, faults>>

\* Exactly one of the source name and the target object is the leaf, else
\* ESTALE; then watches are told that a publication begins.
Check(o) ==
    /\ At(o, "check")
    /\ IF loc[leaf[o]] \in {"native", "object"} THEN Begun(o) ELSE Unlock(o) /\ UNCHANGED publishing
    /\ UNCHANGED <<loc, durable, catalogue, intent, pending, opened, watcher, faults>>

\* renameat2, unless an earlier attempt has moved the body.
Move(o) ==
    /\ At(o, "move")
    /\ loc' = [loc EXCEPT ![leaf[o]] = "object"]
    /\ durable' = [durable EXCEPT ![leaf[o]] = @ \cup {"object"}]
    /\ Goto(o, "settle")
    /\ UNCHANGED <<catalogue, intent, pending, gate, opened, leaf, watcher, publishing, faults>>

\* Mistake: the two directories are not synced after the rename.
SettleNothing(o) ==
    /\ At(o, "settle")
    /\ Goto(o, "commit")
    /\ UNCHANGED <<loc, durable, catalogue, intent, pending, gate, opened, leaf, watcher, publishing, faults>>

\* Both directories are synced.
Settle(o) ==
    /\ At(o, "settle")
    /\ durable' = [durable EXCEPT ![leaf[o]] = {loc[leaf[o]]}]
    /\ Goto(o, "commit")
    /\ UNCHANGED <<loc, catalogue, intent, pending, gate, opened, leaf, watcher, publishing, faults>>

\* One transaction adds the rows and deletes the intent.
Commit(o) ==
    /\ At(o, "commit")
    /\ catalogue' = catalogue \cup {leaf[o]}
    /\ intent' = None
    /\ Goto(o, "end")
    /\ UNCHANGED <<loc, durable, pending, gate, opened, leaf, watcher, publishing, faults>>

End(o) ==
    /\ At(o, "end")
    /\ publishing' = FALSE
    /\ Goto(o, "clear")
    /\ UNCHANGED <<loc, durable, catalogue, intent, pending, gate, opened, leaf, watcher, faults>>

\* The hint is cleared; the operation, or the open, goes on.
Clear(o) ==
    /\ At(o, "clear")
    /\ pending' = FALSE
    /\ opened' = opened \cup {o}
    /\ leaf' = [leaf EXCEPT ![o] = None]
    /\ Goto(o, "operating")
    /\ UNCHANGED <<loc, durable, catalogue, intent, gate, watcher, publishing, faults>>

Publish(o) ==
    \/ SyncSource(o) \/ Hint(o) \/ Record(o) \/ Check(o) \/ Move(o)
    \/ Settle(o) \/ Commit(o) \/ End(o) \/ Clear(o)

-----------------------------------------------------------------------------
Faulty == faults < MaxFaults /\ faults' = faults + 1

\* A query, sync, rename, commit or marker fails: the error ends the
\* operation and leaves everything else to the next one.
Fail(o) ==
    /\ Faulty
    /\ pc[o] \in {"recover", "sync", "record", "check", "move", "settle", "commit", "end"}
    /\ Unlock(o)
    /\ UNCHANGED <<loc, durable, catalogue, intent, pending, opened, watcher, publishing>>

\* Death of a process (external): its lock, its transaction and its watch go.
Die(o) ==
    /\ Faulty
    /\ o \in opened \/ pc[o] # "out"
    /\ pc' = [pc EXCEPT ![o] = "out"]
    /\ leaf' = [leaf EXCEPT ![o] = None]
    /\ gate' = IF gate = o THEN None ELSE gate
    /\ opened' = opened \ {o}
    /\ watcher' = IF watcher = o THEN None ELSE watcher
    /\ publishing' = (publishing /\ watcher # o)
    /\ UNCHANGED <<loc, durable, catalogue, intent, pending>>

\* A power cut (external).
Power ==
    /\ Faulty
    /\ pc' = [o \in Owners |-> "out"]
    /\ leaf' = [o \in Owners |-> None]
    /\ gate' = None /\ opened' = {} /\ watcher' = None /\ publishing' = FALSE
    /\ loc' \in {l \in [Leaves -> Places] : \A f \in Leaves : l[f] \in durable[f]}
    /\ durable' = [f \in Leaves |-> {loc'[f]}]
    /\ pending' \in BOOLEAN
    /\ UNCHANGED <<catalogue, intent>>

Next ==
    \/ \E o \in Owners :
        \/ Enter(o) \/ RecoverNone(o) \/ RecoverBusy(o) \/ RecoverBegin(o) \/ Leave(o)
        \/ Register(o) \/ Publish(o) \/ Fail(o) \/ Die(o)
        \/ \E f \in Leaves : Create(o, f) \/ Unlink(o, f) \/ Promote(o, f)
    \/ Power

Spec == Init /\ [][Next]_vars

\* Operations end, and the owners that may write keep coming.
FairSpec ==
    /\ Spec
    /\ \A o \in Owners :
        WF_vars(RecoverNone(o) \/ RecoverBusy(o) \/ RecoverBegin(o) \/ Leave(o) \/ Publish(o))
    /\ \A o \in Owners \ Inspectors : SF_vars(Enter(o))

-----------------------------------------------------------------------------
\* Types; the gate is held by whoever is inside, and a body is on the disk
\* at least where it is now.
TypeOK ==
    /\ loc \in [Leaves -> Places] /\ durable \in [Leaves -> SUBSET Places]
    /\ \A f \in Leaves : loc[f] \in durable[f]
    /\ catalogue \subseteq Leaves /\ intent \in Leaves \cup {None} /\ pending \in BOOLEAN
    /\ opened \subseteq Owners /\ watcher \in Owners \cup {None} /\ publishing \in BOOLEAN
    /\ pc \in [Owners -> {"out", "recover", "operating", "sync", "hint", "record", "check",
                          "move", "settle", "commit", "end", "clear"}]
    /\ leaf \in [Owners -> Leaves \cup {None}]
    /\ gate \in Owners \cup {None} /\ \A o \in Owners : pc[o] # "out" <=> gate = o

\* No operation sees a half-published namespace: while one runs there is no
\* intent, and the leaves that live as objects are exactly the catalogued
\* ones, whatever failures, deaths and power cuts came before it.
ReadsWhole ==
    (\E o \in Owners : pc[o] = "operating") =>
        intent = None /\ \A f \in Leaves : loc[f] = "object" <=> f \in catalogue

\* Recovery can always finish: what a committed intent names exists in one of
\* its two places and will after a power cut, so publish() never answers
\* ESTALE for good.
RecoveryFinds == intent # None => durable[intent] \subseteq {"native", "object"}

\* A catalogued body cannot fall back behind its rows.
CataloguedIsDurable == \A f \in catalogue : durable[f] = {"object"}

\* A watch that was told of the beginning of a publication is told of its
\* end before it could miss anything: by the one who publishes, or by the
\* next operation, which the hint sends through recovery.
WatchEnds ==
    publishing => /\ \A o \in Owners \ Inspectors : pc[o] # "operating"
                  /\ gate = None => pending

\* The physical move is hidden from every watch, the move that recovery does
\* for a dead owner included.
MovesAreHidden ==
    [][\A f \in Leaves : loc[f] = "native" /\ loc'[f] = "object" /\ watcher # None => publishing]_vars

\* An interrupted promotion is completed once the faults are over.
Recovers == intent # None ~> intent = None

=============================================================================
