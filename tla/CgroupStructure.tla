--------------------------- MODULE CgroupStructure ----------------------------
(***************************************************************************)
(* Every step keeps members in groups that exist, limits where a control   *)
(* shows them, the counters of the hierarchy equal to what they count, and *)
(* the types; and how tasks get into groups, and groups lose directories.  *)
(***************************************************************************)
EXTENDS CgroupInvariant, FiniteSetTheorems, TLAPS

-----------------------------------------------------------------------------
\* The places of members and the order in which groups come to exist.

(* A step that touches none of the state Places speaks of.                 *)
LEMMA PlacesQuiet ==
    ASSUME Places, UNCHANGED <<task, at, counted, zombie, halted, used, dir, freeze, max, subtree, lock>>
    PROVE  Places'
BY Zenon DEF Places, AttachAllowed, Live

(* A step by which members only leave.                                     *)
LEMMA PlacesLeave ==
    ASSUME TypeOK, Places, NEW m \in Members, lock' = Free, Discard(m), Uncharge(m),
           UNCHANGED <<groups, used>>
    PROVE  Places'
BY SMTT(20) DEF Places, Discard, Uncharge, TypeOK, groups

\* A reservation puts the newborn into a group that is there.
LEMMA PlacesReserve ==
    ASSUME TypeOK, Places, NEW p \in Members, NEW c \in Members, NEW g \in Groups \cup {None},
           NEW thread, Reserve(p, c, g, thread),
           g # None => dir[g] # "absent", g = None => dir[Root] = "absent"
    PROVE  Places'
<1>1. /\ task' = [task EXCEPT ![c] = "reserved"] /\ at' = [at EXCEPT ![c] = g]
      /\ halted' = [halted EXCEPT ![c] = FALSE] /\ task[c] = "none" /\ lock = Free
      /\ UNCHANGED <<dir, subtree, max, freeze, zombie, lock, used>>
  BY Zenon DEF Reserve, groups, wakeup
<1>2. \A m \in Members : counted'[m] => m = c \/ counted[m]
  BY Zenon DEF Reserve
<1>3. \A m \in Members : task'[m] = "none" => m # c /\ task[m] = "none"
  BY Zenon, <1>1 DEF TypeOK
<1>4. \A m \in Members : task'[m] = "none" => at'[m] = None /\ ~counted'[m]
  BY <1>1, <1>2, <1>3, SMTT(20) DEF TypeOK, Places
<1>5. \A m \in Members : task'[m] = "exec" => ~counted'[m]
  BY ZenonT(30), <1>1, <1>2 DEF TypeOK, Places
<1> QED
  BY <1>1, <1>4, <1>5, SMTT(20) DEF TypeOK, Places

\* md_cgroup_mkdir adds a group below one that is there.
LEMMA PlacesMkdir ==
    ASSUME TypeOK, Places, NEW g \in Groups, Mkdir(g)
    PROVE  Places'
<1>1. PICK p \in Groups : IsChild(g, p) /\ dir[p] = "live"
  BY Zenon DEF Mkdir
<1>2. /\ dir' = [dir EXCEPT ![g] = "live"] /\ dir[g] = "absent" /\ lock.op # "move"
      /\ UNCHANGED <<task, at, counted, zombie, halted, used, freeze, max, subtree, lock>>
  BY ZenonT(30) DEF Mkdir, pids, births, wakeup
<1>3. \A h \in Groups : dir'[h] # "absent" => \A a \in Up[h] : dir'[a] # "absent"
  <2>1. \A h \in Groups : dir[h] # "absent" => dir'[h] # "absent"
    BY Zenon, <1>2 DEF TypeOK
  <2>2. Up[g] = Up[p] \cup {g} /\ Up[g] \subseteq Groups
    BY ZenonT(30), <1>1, CgroupAssumption DEF IsChild
  <2>3. \A a \in Up[g] : dir'[a] # "absent"
    BY SMTT(30), <1>1, <1>2, <2>1, <2>2 DEF Places, TypeOK
  <2> QED
    BY SMTT(30), <1>2, <2>1, <2>3, CgroupAssumption DEF Places, TypeOK
<1>4. g # Root
  BY SMTT(30), <1>1, <1>2, CgroupAssumption DEF Places
<1> QED
  BY <1>2, <1>3, <1>4, SMTT(20) DEF Places, TypeOK

\* One turn of a migration puts the member into a group that is there.
LEMMA PlacesMove ==
    ASSUME TypeOK, Places, NEW m \in Members, Move(m)
    PROVE  Places'
<1>1. /\ at' = [at EXCEPT ![m] = lock.to] /\ lock.op = "move" /\ m \in lock.left
      /\ UNCHANGED <<dir, subtree, max, freeze, task, counted, zombie, halted>>
      /\ used' = used
  BY Zenon DEF Move, groups, FreezerChanged
<1>2. lock # Free /\ lock.op # "exec"
  BY <1>1 DEF Free
<1>3. lock.to \in Groups /\ AttachAllowed(lock.to) /\ lock.left \subseteq Live
  BY Zenon, <1>2 DEF Places
<1>4. task[m] = "live" /\ dir[lock.to] = "live"
  BY Zenon, <1>1, <1>3 DEF Live, AttachAllowed
<1>5. \/ lock' = Free
      \/ /\ lock'.op = "move" /\ lock'.to \in Groups /\ AttachAllowed(lock.to)'
         /\ lock'.left \subseteq Live'
  <2>1. CASE lock.left = {m}
    BY Zenon, <2>1 DEF Move
  <2>2. CASE lock.left # {m}
    <3>1. lock' = [lock EXCEPT !.left = @ \ {m}]
      BY Zenon, <2>2 DEF Move
    <3>2. lock \in [op : {"free", "move", "exec"}, to : Groups \cup {None}, left : SUBSET Members]
      BY Zenon DEF TypeOK
    <3>3. lock'.op = lock.op /\ lock'.to = lock.to /\ lock'.left = lock.left \ {m}
      BY Zenon, <3>1, <3>2
    <3> QED
      BY Zenon, <1>1, <1>3, <3>3 DEF AttachAllowed, Live
  <2> QED
    BY Zenon, <2>1, <2>2
<1>6. \A x \in Members : at'[x] # None => dir'[at'[x]] # "absent"
  BY Zenon, <1>1, <1>4 DEF Places, TypeOK
<1>7. \A x \in Members : task'[x] = "none" => at'[x] = None /\ ~counted'[x]
  BY SMTT(30), <1>1, <1>4 DEF Places, TypeOK
<1>8. \A x \in Members : task'[x] # "none" /\ at'[x] = None => dir'[Root] = "absent"
  BY <1>1, <1>3, CgroupAssumption, SMTT(20) DEF Places, TypeOK
<1> QED
  BY <1>1, <1>5, <1>6, <1>7, <1>8, SMTT(20) DEF Places, TypeOK

\* An exec takes its member out of the tasks and puts it back where it was.
LEMMA PlacesExec ==
    ASSUME TypeOK, Places, NEW m \in Members, NEW l \in Members,
           ExecBegin(m, l) \/ ExecPublish(m, l) \/ ExecDies(m, l)
    PROVE  Places'
<1>1. CASE ExecBegin(m, l)
  <2>1. /\ lock = Free /\ task[m] = "live" /\ task' = [task EXCEPT ![m] = "exec"]
        /\ counted' = [counted EXCEPT ![m] = FALSE]
        /\ UNCHANGED <<at, zombie, halted, used, dir, max, freeze, lock>>
    BY Zenon, <1>1 DEF ExecBegin, Uncharge, groups, wakeup
  <2> QED
    BY <2>1, SMTT(20) DEF Places, TypeOK
<1>2. CASE ExecPublish(m, l)
  <2>1. /\ task[m] = "exec" /\ task' = [task EXCEPT ![m] = "live"] /\ lock' = Replacing(l)
        /\ counted' = [counted EXCEPT ![m] = TRUE]
        /\ UNCHANGED <<at, zombie, halted, used, dir, max, freeze>>
    BY Zenon, <1>2 DEF ExecPublish, groups
  <2>2. lock'.op = "exec"
    BY Zenon, <2>1 DEF Replacing
  <2> QED
    BY <2>1, <2>2, SMTT(20) DEF Places, TypeOK
<1>3. CASE ExecDies(m, l)
  <2>1. /\ lock = Free /\ task[m] = "exec" /\ task[l] = "live"
        /\ task' = [task EXCEPT ![l] = "departed", ![m] = "none"]
        /\ zombie' = [zombie EXCEPT ![l] = TRUE] /\ at' = [at EXCEPT ![m] = None]
        /\ counted' = [counted EXCEPT ![m] = FALSE] /\ halted' = [halted EXCEPT ![m] = FALSE]
        /\ UNCHANGED <<used, dir, max, freeze, lock>>
    BY Zenon, <1>3 DEF ExecDies, Uncharge, groups, wakeup
  <2> QED
    BY <2>1, SMTT(20) DEF Places, TypeOK
<1> QED
  BY Zenon, <1>1, <1>2, <1>3

(* Every step keeps members in groups that exist.                          *)
LEMMA PlacesNext ==
    ASSUME TypeOK, Places, Next
    PROVE  Places'
<1>1. CASE Directories
  <2>1. CASE Mount
    <3>1. /\ lock.op # "move" /\ dir[Root] = "absent" /\ dir' = [dir EXCEPT ![Root] = "live"]
          /\ at' = [m \in Members |-> IF task[m] = "none" THEN None ELSE Root]
          /\ UNCHANGED <<task, counted, zombie, halted, used, freeze, max, lock>>
      BY Zenon, <2>1 DEF Mount, wakeup
    <3> QED
      BY <3>1, CgroupAssumption, SMTT(20) DEF Places, TypeOK
  <2>2. ASSUME NEW g \in Groups, Rmdir(g)
        PROVE  Places'
    <3>1. /\ lock.op # "move" /\ dir[g] = "live" /\ dir' = [dir EXCEPT ![g] = "removed"]
          /\ UNCHANGED <<task, at, counted, zombie, halted, used, freeze, max, lock>>
      BY Zenon, <2>2 DEF Rmdir, wakeup, pids, births
    <3> QED
      BY <3>1, SMTT(20) DEF Places, TypeOK
  <2>3. ASSUME NEW g \in Groups, Enable(g)
        PROVE  Places'
    <3>1. lock = Free /\ UNCHANGED <<task, at, counted, zombie, halted, used, dir, freeze, max, lock>>
      BY Zenon, <2>3 DEF Enable, wakeup, pids, births
    <3> QED
      BY Zenon, <3>1 DEF Places
  <2>4. ASSUME NEW g \in Groups, Disable(g)
        PROVE  Places'
    <3>1. /\ lock = Free /\ \A h \in Groups : max[h] = None => max'[h] = None
          /\ UNCHANGED <<task, at, counted, zombie, halted, used, dir, freeze, lock>>
      BY Zenon, <2>4 DEF Disable, wakeup, births
    <3> QED
      BY Zenon, <3>1 DEF Places
  <2> QED
    BY SMTT(30), <1>1, <2>1, <2>2, <2>3, <2>4, PlacesMkdir DEF Directories
<1>2. CASE Births
  <2>1. ASSUME NEW p \in Members, NEW c \in Members, NEW thread, Fork(p, c, thread)
        PROVE  Places'
    <3>1. Reserve(p, c, at[p], thread) /\ task[p] = "live"
      BY Zenon, <2>1 DEF Fork, Reserve
    <3>2. /\ at[p] \in Groups \cup {None} /\ (at[p] # None => dir[at[p]] # "absent")
          /\ (at[p] = None => dir[Root] = "absent")
      BY Zenon, <3>1 DEF Places, TypeOK
    <3> QED
      BY Zenon, <3>1, <3>2, PlacesReserve
  <2>2. ASSUME NEW p \in Members, NEW c \in Members, NEW g \in Groups, NEW thread,
               CloneInto(p, c, g, thread)
        PROVE  Places'
    <3>1. Reserve(p, c, g, thread) /\ dir[g] = "live" /\ g # None
      BY Zenon, <2>2, CgroupAssumption DEF CloneInto, AttachAllowed
    <3> QED
      BY Zenon, <3>1, PlacesReserve
  <2>3. ASSUME NEW p, NEW g, Refuse(p, g)
        PROVE  Places'
    <3>1. /\ \A m \in Members : counted'[m] => counted[m]
          /\ lock = Free /\ UNCHANGED <<groups, births, wakeup, halted>>
      BY Zenon, <2>3 DEF Refuse
    <3> QED
      BY Zenon, <3>1 DEF Places, groups, births, wakeup
  <2> QED
    BY Zenon, <1>2, <2>1, <2>2, <2>3 DEF Births, ForkRefused, CloneRefused
<1>3. CASE Migration
  <2>1. ASSUME NEW m \in Members, NEW g \in Groups, WriteProcs(m, g)
        PROVE  Places'
    <3> DEFINE all == {t \in Members : task[t] = "live" /\ process[t] = process[m]}
    <3>1. /\ AttachAllowed(g) /\ lock' = Moving(g, all)
          /\ UNCHANGED <<task, at, counted, zombie, halted, used, dir, subtree, max, freeze>>
      BY Zenon, <2>1 DEF WriteProcs, groups, pids, births
    <3>2. lock'.op = "move" /\ lock'.to = g /\ lock'.left = all
      BY Zenon, <3>1 DEF Moving
    <3>3. AttachAllowed(lock.to)' /\ lock'.left \subseteq Live'
      BY Zenon, <3>1, <3>2 DEF AttachAllowed, Live
    <3> QED
      BY Zenon, <3>1, <3>2, <3>3 DEF Places
  <2>2. ASSUME NEW m \in Members, WriteThreads(m)
        PROVE  Places'
    <3>1. /\ task[m] = "live" /\ at[m] # None /\ AttachAllowed(at[m]) /\ lock' = Moving(at[m], {m})
          /\ UNCHANGED <<task, at, counted, zombie, halted, used, dir, subtree, max, freeze>>
      BY Zenon, <2>2 DEF WriteThreads, groups, pids, births
    <3>2. at[m] \in Groups
      BY Zenon, <3>1 DEF TypeOK
    <3>3. lock'.op = "move" /\ lock'.to = at[m] /\ lock'.left = {m}
      BY Zenon, <3>1 DEF Moving
    <3>4. AttachAllowed(lock.to)' /\ lock'.left \subseteq Live'
      BY Zenon, <3>1, <3>3 DEF AttachAllowed, Live
    <3> QED
      BY Zenon, <3>1, <3>2, <3>3, <3>4 DEF Places
  <2> QED
    BY Zenon, <1>3, <2>1, <2>2, PlacesMove DEF Migration
<1>4. CASE Counting
  <2>1. CASE ReadCurrent
    <3>1. /\ \A m \in Members : counted'[m] => counted[m]
          /\ lock = Free /\ UNCHANGED <<groups, births, wakeup, halted>>
      BY Zenon, <2>1 DEF ReadCurrent
    <3> QED
      BY <3>1 DEF Places, groups, births, wakeup
  <2>2. ASSUME NEW g \in Groups, ReadFailures(g)
        PROVE  Places'
    BY <2>2, PlacesQuiet DEF ReadFailures, groups, births, wakeup
  <2>3. ASSUME NEW g \in Groups, NEW n \in Limits \cup {None}, WriteMax(g, n)
        PROVE  Places'
    <3>1. /\ lock = Free /\ dir[g] = "live" /\ max' = [max EXCEPT ![g] = n]
          /\ UNCHANGED <<task, at, counted, zombie, halted, used, dir, freeze, lock>>
      BY Zenon, <2>3 DEF WriteMax, pids, births, wakeup
    <3>2. \A h \in Groups : dir[h] = "absent" => max'[h] = max[h]
      BY Zenon, <3>1 DEF TypeOK
    <3> QED
      BY Zenon, <3>1, <3>2 DEF Places
  <2>4. ASSUME NEW m \in Members, Wait(m)
        PROVE  Places'
    <3>1. UNCHANGED <<task, at, counted, halted, used, dir, subtree, max, freeze, lock>>
      BY Zenon, <2>4 DEF Wait, groups, pids, wakeup
    <3>2. \A x \in Members : zombie'[x] => zombie[x]
      BY Zenon, <2>4 DEF Wait, TypeOK
    <3> QED
      BY Zenon, <3>1, <3>2 DEF Places, AttachAllowed, Live
  <2>5. ASSUME NEW m \in Members, CollectLimits(m)
        PROVE  Places'
    <3>1. lock = Free /\ UNCHANGED <<task, at, zombie, halted, used, dir, max, freeze, lock>>
      BY Zenon, <2>5 DEF CollectLimits, groups, births, wakeup
    <3>2. \A x \in Members : counted'[x] => counted[x]
      BY ZenonT(30), <2>5 DEF CollectLimits, Uncharge, TypeOK
    <3> QED
      BY Zenon, <3>1, <3>2 DEF Places
  <2>6. ASSUME NEW m \in Members, Reuse(m)
        PROVE  Places'
    <3>1. UNCHANGED <<task, at, counted, halted, used, dir, subtree, max, freeze, lock>>
      BY Zenon, <2>6 DEF Reuse, groups, pids, wakeup
    <3>2. \A x \in Members : zombie'[x] => zombie[x] \/ task[x] = "departed"
      BY Zenon, <2>6 DEF Reuse, TypeOK
    <3> QED
      BY Zenon, <3>1, <3>2 DEF Places, AttachAllowed, Live
  <2>7. ASSUME NEW m \in Members, Reap(m)
        PROVE  Places'
    <3>1. lock' = Free /\ Discard(m) /\ Uncharge(m) /\ UNCHANGED <<groups, used>>
      BY Zenon, <2>7 DEF Reap, wakeup
    <3> QED
      BY Zenon, <3>1, PlacesLeave
  <2> QED
    BY ZenonT(30), <1>4, <2>1, <2>2, <2>3, <2>4, <2>5, <2>6, <2>7 DEF Counting
<1>5. ASSUME NEW m \in Members, Publish(m)
      PROVE  Places'
  <2>1. /\ lock = Free /\ task[m] = "reserved" /\ task' = [task EXCEPT ![m] = "live"]
        /\ UNCHANGED <<at, counted, zombie, halted, used, dir, max, freeze, lock>>
    BY Zenon, <1>5 DEF Publish, groups, pids, wakeup
  <2> QED
    BY <2>1, SMTT(20) DEF Places, TypeOK
<1>6. ASSUME NEW m \in Members, Abort(m) \/ Forget(m) \/ Replace(m)
      PROVE  Places'
  <2>1. lock' = Free /\ Discard(m) /\ Uncharge(m) /\ UNCHANGED <<groups, used>>
    BY Zenon, <1>6 DEF Abort, Forget, Replace, Leave, MayExit, wakeup
  <2> QED
    BY Zenon, <2>1, PlacesLeave
<1>7. ASSUME NEW m \in Members, Depart(m)
      PROVE  Places'
  <2>1. /\ lock = Free /\ task[m] = "live" /\ task' = [task EXCEPT ![m] = "departed"]
        /\ zombie' = [zombie EXCEPT ![m] = process[m] = m]
        /\ UNCHANGED <<at, counted, halted, used, dir, max, freeze, lock>>
    BY Zenon, <1>7 DEF Depart, MayExit, groups, pids, wakeup
  <2> QED
    BY <2>1, SMTT(20) DEF Places, TypeOK
<1>8. ASSUME NEW m \in Members, NEW b \in BOOLEAN, Halt(m, b)
      PROVE  Places'
  <2>1. used /\ UNCHANGED <<task, at, counted, zombie, used, dir, subtree, max, freeze, lock>>
    BY Zenon, <1>8 DEF Halt, groups, pids, births, wakeup
  <2> QED
    BY Zenon, <2>1 DEF Places, AttachAllowed, Live
<1>9. ASSUME NEW g \in Groups, NEW b \in BOOLEAN, WriteFreeze(g, b)
      PROVE  Places'
  <2>1. /\ dir[g] = "live" /\ lock = Free /\ freeze' = [freeze EXCEPT ![g] = b]
        /\ UNCHANGED <<task, at, counted, zombie, halted, dir, max, subtree, lock>>
    BY Zenon, <1>9 DEF WriteFreeze, pids, births
  <2>2. dir[Root] # "absent"
    BY ZenonT(30), <2>1, CgroupAssumption DEF Places
  <2>3. \A h \in Groups : dir'[h] = "absent" => ~freeze'[h] /\ max'[h] = None
    BY <2>1 DEF Places, TypeOK
  <2>4. (\A m \in Members : halted'[m] => used') /\ (used' => dir'[Root] # "absent")
    BY Zenon, <1>9, <2>1, <2>2 DEF WriteFreeze, FreezerChanged
  <2>5. /\ \A m \in Members : task'[m] = "none" => at'[m] = None /\ ~counted'[m]
        /\ \A m \in Members : task'[m] = "exec" => ~counted'[m]
        /\ \A m \in Members : at'[m] # None => dir'[at'[m]] # "absent"
        /\ \A m \in Members : task'[m] # "none" /\ at'[m] = None => dir'[Root] = "absent"
        /\ \A m \in Members : zombie'[m] => task'[m] = "departed"
        /\ \A h \in Groups : dir'[h] # "absent" => \A a \in Up[h] : dir'[a] # "absent"
        /\ lock' = Free
    BY Zenon, <2>1 DEF Places
  <2> QED
    BY <2>3, <2>4, <2>5, Zenon DEF Places
<1>10. ASSUME NEW w \in Watched, ReadEvents(w)
       PROVE  Places'
  BY Zenon, <1>10, PlacesQuiet DEF ReadEvents, groups, pids, births, wakeup
<1>11. CASE Look
  BY Zenon, <1>11, PlacesQuiet DEF Look, groups, pids, births
<1>12. CASE Execs
  BY Zenon, <1>6, <1>12, PlacesExec DEF Execs
<1> QED
  BY Zenon, <1>1, <1>2, <1>3, <1>4, <1>5, <1>6, <1>7, <1>8, <1>9, <1>10, <1>11, <1>12 DEF Next, Step

-----------------------------------------------------------------------------
\* The tree: what lives in a live directory, and where limits are.

\* A task or a reservation that keeps its group.
Inside(m, g) == task[m] \in {"live", "reserved"} /\ at[m] = g

(* A task or a reservation gets into a group where another one is, where it *)
(* may be attached, or by the return of an exec.                           *)
LEMMA Arrivals ==
    ASSUME TypeOK, Places, Next, NEW x \in Members, NEW g \in Groups, Inside(x, g)', ~Inside(x, g)
    PROVE  \/ Occupied(g) \/ AttachAllowed(g)'
           \/ task[x] = "exec" /\ task'[x] = "live" /\ at[x] = g
<1> DEFINE Goal == \/ Occupied(g) \/ AttachAllowed(g)'
                   \/ task[x] = "exec" /\ task'[x] = "live" /\ at[x] = g
<1>1. g # None
  BY Zenon, CgroupAssumption
<1>2. CASE UNCHANGED <<task, at>>
  BY Zenon, <1>2 DEF Inside
<1>3. ASSUME NEW m \in Members, Discard(m)
      PROVE  Goal
  BY Zenon, <1>3 DEF Inside, Discard, TypeOK
<1>4. CASE Directories
  <2>1. CASE Mount
    <3>1. /\ at' = [m \in Members |-> IF task[m] = "none" THEN None ELSE Root]
          /\ dir' = [dir EXCEPT ![Root] = "live"]
      BY Zenon, <2>1 DEF Mount
    <3>2. g = Root /\ dir'[g] = "live"
      BY Zenon, <1>1, <3>1, CgroupAssumption DEF Inside, TypeOK
    <3> QED
      BY Zenon, <3>2 DEF AttachAllowed
  <2>2. ASSUME NEW h \in Groups, Mkdir(h) \/ Rmdir(h) \/ Enable(h) \/ Disable(h)
        PROVE  UNCHANGED <<task, at>>
    BY Zenon, <2>2 DEF Mkdir, Rmdir, Enable, Disable, births
  <2> QED
    BY Zenon, <1>2, <1>4, <2>1, <2>2 DEF Directories
<1>5. CASE Births
  <2>1. ASSUME NEW p \in Members, NEW c \in Members, NEW h, NEW thread, Reserve(p, c, h, thread)
        PROVE  h = g /\ task[p] = "live" /\ UNCHANGED groups
    <3>1. /\ task' = [task EXCEPT ![c] = "reserved"] /\ at' = [at EXCEPT ![c] = h]
          /\ task[p] = "live" /\ UNCHANGED groups
      BY Zenon, <2>1 DEF Reserve
    <3> QED
      BY Zenon, <3>1 DEF Inside, TypeOK
  <2>2. ASSUME NEW p \in Members, NEW c \in Members, NEW thread, Fork(p, c, thread)
        PROVE  Goal
    BY Zenon, <2>1, <2>2 DEF Fork, Occupied
  <2>3. ASSUME NEW p \in Members, NEW c \in Members, NEW h \in Groups, NEW thread,
               CloneInto(p, c, h, thread)
        PROVE  Goal
    BY Zenon, <2>1, <2>3 DEF CloneInto, AttachAllowed, groups
  <2>4. ASSUME NEW p, NEW h, Refuse(p, h)
        PROVE  UNCHANGED <<task, at>>
    BY Zenon, <2>4 DEF Refuse, births
  <2> QED
    BY Zenon, <1>2, <1>5, <2>2, <2>3, <2>4 DEF Births, ForkRefused, CloneRefused
<1>6. CASE Migration
  <2>1. ASSUME NEW m \in Members, NEW h, WriteThreads(m) \/ WriteProcs(m, h)
        PROVE  UNCHANGED <<task, at>>
    BY Zenon, <2>1 DEF WriteThreads, WriteProcs, births
  <2>2. ASSUME NEW m \in Members, Move(m)
        PROVE  Goal
    <3>1. lock.op = "move" /\ lock # Free /\ lock.op # "exec"
      BY <2>2 DEF Move, Free
    <3>2. AttachAllowed(lock.to)
      BY Zenon, <3>1 DEF Places
    <3>3. at' = [at EXCEPT ![m] = lock.to] /\ UNCHANGED <<task, dir, subtree>>
      BY Zenon, <2>2 DEF Move, groups
    <3>4. lock.to = g
      BY Zenon, <3>3 DEF Inside, TypeOK
    <3> QED
      BY Zenon, <3>2, <3>3, <3>4 DEF AttachAllowed
  <2> QED
    BY Zenon, <1>2, <1>6, <2>1, <2>2 DEF Migration
<1>7. CASE Counting
  <2>1. ASSUME NEW h, NEW n, ReadCurrent \/ ReadFailures(h) \/ WriteMax(h, n)
        PROVE  UNCHANGED <<task, at>>
    BY Zenon, <2>1 DEF ReadCurrent, ReadFailures, WriteMax, births
  <2>2. ASSUME NEW m, Wait(m) \/ Reuse(m) \/ CollectLimits(m)
        PROVE  UNCHANGED <<task, at>>
    BY Zenon, <2>2 DEF Wait, Reuse, CollectLimits, births
  <2> QED
    BY Zenon, <1>2, <1>3, <1>7, <2>1, <2>2 DEF Counting, Reap
<1>8. ASSUME NEW m \in Members, Publish(m)
      PROVE  Goal
  BY Zenon, <1>8 DEF Publish, Inside, TypeOK
<1>9. ASSUME NEW m \in Members, Depart(m)
      PROVE  Goal
  BY Zenon, <1>9 DEF Depart, Inside, TypeOK
<1>10. CASE Execs
  <2>1. ASSUME NEW m \in Members, NEW l \in Members, ExecBegin(m, l)
        PROVE  Goal
    BY Zenon, <2>1 DEF ExecBegin, Inside, TypeOK
  <2>2. ASSUME NEW m \in Members, NEW l \in Members, ExecPublish(m, l)
        PROVE  Goal
    BY Zenon, <2>2 DEF ExecPublish, Inside, TypeOK
  <2>3. ASSUME NEW m \in Members, NEW l \in Members, ExecDies(m, l)
        PROVE  Goal
    <3>1. /\ task' = [task EXCEPT ![l] = "departed", ![m] = "none"]
          /\ at' = [at EXCEPT ![m] = None]
      BY Zenon, <2>3 DEF ExecDies
    <3> QED
      BY Zenon, <1>1, <3>1 DEF Inside, TypeOK
  <2> QED
    BY Zenon, <1>3, <1>10, <2>1, <2>2, <2>3 DEF Execs, Replace, Leave
<1>11. ASSUME NEW m, NEW b, NEW h, Halt(m, b) \/ WriteFreeze(h, b) \/ ReadEvents(h) \/ Look
       PROVE  UNCHANGED <<task, at>>
  BY Zenon, <1>11 DEF Halt, WriteFreeze, ReadEvents, Look, births
<1>12. ASSUME NEW m \in Members, Abort(m) \/ Forget(m)
       PROVE  Goal
  BY Zenon, <1>3, <1>12 DEF Abort, Forget, Leave
<1> QED
  BY Zenon, <1>2, <1>4, <1>5, <1>6, <1>7, <1>8, <1>9, <1>10, <1>11, <1>12 DEF Next, Step

(* What writes the fields of a group.                                      *)
LEMMA GroupsChange ==
    ASSUME Next
    PROVE  \/ UNCHANGED groups \/ Directories
           \/ \E g \in Groups, n \in Limits \cup {None} : WriteMax(g, n)
           \/ \E g \in Groups, b \in BOOLEAN : WriteFreeze(g, b)
<1>1. ASSUME NEW p, NEW c, NEW g, NEW thread, Reserve(p, c, g, thread) \/ Refuse(p, g)
      PROVE  UNCHANGED groups
  BY Zenon, <1>1 DEF Reserve, Refuse
<1>2. CASE Births
  BY Zenon, <1>1, <1>2 DEF Births, Fork, CloneInto, ForkRefused, CloneRefused
<1>3. CASE Migration
  <2>1. ASSUME NEW m, NEW g, WriteThreads(m) \/ WriteProcs(m, g) \/ Move(m)
        PROVE  UNCHANGED groups
    BY Zenon, <2>1 DEF WriteThreads, WriteProcs, Move
  <2> QED
    BY Zenon, <1>3, <2>1 DEF Migration
<1>4. CASE ReadCurrent \/ \E g \in Groups : ReadFailures(g)
  BY Zenon, <1>4 DEF ReadCurrent, ReadFailures
<1>5. ASSUME NEW m, Wait(m) \/ Reuse(m) \/ CollectLimits(m) \/ Reap(m)
      PROVE  UNCHANGED groups
  BY Zenon, <1>5 DEF Wait, Reuse, CollectLimits, Reap
<1>6. ASSUME NEW m, NEW b, Publish(m) \/ Abort(m) \/ Depart(m) \/ Forget(m) \/ Halt(m, b)
      PROVE  UNCHANGED groups
  BY Zenon, <1>6 DEF Publish, Abort, Depart, Forget, Leave, Halt
<1>8. CASE Execs
  <2>1. ASSUME NEW m, NEW l, ExecBegin(m, l) \/ ExecPublish(m, l) \/ ExecDies(m, l) \/ Replace(l)
        PROVE  UNCHANGED groups
    BY Zenon, <2>1 DEF ExecBegin, ExecPublish, ExecDies, Replace, Leave
  <2> QED
    BY Zenon, <1>8, <2>1 DEF Execs
<1>7. ASSUME NEW w, ReadEvents(w) \/ Look
      PROVE  UNCHANGED groups
  BY Zenon, <1>7 DEF ReadEvents, Look
<1> QED
  BY Zenon, <1>2, <1>3, <1>4, <1>5, <1>6, <1>7, <1>8 DEF Next, Step, Counting

(* Nobody removes the directory of a group that is kept, or gives its       *)
(* children a controller.                                                  *)
LEMMA GroupsKept ==
    ASSUME TypeOK, Next, NEW g \in Groups, Occupied(g)
    PROVE  (dir[g] = "live" => dir'[g] = "live") /\ (g # Root /\ subtree'[g] => subtree[g])
<1> DEFINE Goal == (dir[g] = "live" => dir'[g] = "live") /\ (g # Root /\ subtree'[g] => subtree[g])
<1>1. CASE Mount
  BY Zenon, <1>1 DEF Mount, TypeOK
<1>2. ASSUME NEW h \in Groups, Mkdir(h)
      PROVE  Goal
  BY Zenon, <1>2 DEF Mkdir, TypeOK
<1>3. ASSUME NEW h \in Groups, Rmdir(h)
      PROVE  Goal
  BY Zenon, <1>3 DEF Rmdir, TypeOK
<1>4. ASSUME NEW h \in Groups, Enable(h)
      PROVE  Goal
  BY Zenon, <1>4 DEF Enable, TypeOK
<1>5. ASSUME NEW h \in Groups, Disable(h)
      PROVE  Goal
  <2>1. subtree' = [subtree EXCEPT ![h] = FALSE] /\ dir' = dir
    BY Zenon, <1>5 DEF Disable
  <2> QED
    BY Zenon, <2>1 DEF TypeOK
<1>6. ASSUME NEW h, NEW n, NEW b, WriteMax(h, n) \/ WriteFreeze(h, b) \/ UNCHANGED groups
      PROVE  Goal
  BY Zenon, <1>6 DEF WriteMax, WriteFreeze, groups
<1> QED
  BY Zenon, <1>1, <1>2, <1>3, <1>4, <1>5, <1>6, GroupsChange DEF Directories

(* Every step keeps live directories below live directories.               *)
LEMMA RootedNext ==
    ASSUME TypeOK, Rooted, Next
    PROVE  Rooted'
<1>1. CASE Mount
  BY SMTT(30), <1>1, CgroupAssumption DEF Mount, Rooted, TypeOK
<1>2. ASSUME NEW g \in Groups, Mkdir(g)
      PROVE  Rooted'
  <2>1. PICK p \in Groups : IsChild(g, p) /\ dir[p] = "live"
    BY Zenon, <1>2 DEF Mkdir
  <2>2. \A a \in Up[g] : dir[a] = "live" \/ a = g
    BY Zenon, <2>1 DEF Rooted, IsChild
  <2>3. dir' = [dir EXCEPT ![g] = "live"] /\ dir[g] = "absent"
    BY Zenon, <1>2 DEF Mkdir
  <2> QED
    BY <2>2, <2>3, CgroupAssumption DEF Rooted, TypeOK
<1>3. ASSUME NEW g \in Groups, Rmdir(g)
      PROVE  Rooted'
  <2>1. dir' = [dir EXCEPT ![g] = "removed"] /\ \A c \in Groups : IsChild(c, g) => dir[c] # "live"
    BY Zenon, <1>3 DEF Rmdir
  <2>2. ASSUME NEW c \in Groups, c # g, dir[c] = "live", g \in Up[c]
        PROVE  FALSE
    <3>1. PICK d \in Up[c] : d # g /\ Up[d] = Up[g] \cup {d}
      BY Zenon, <2>2, WalkAssumption
    <3>2. d \in Groups /\ dir[d] = "live"
      BY Zenon, <2>2, <3>1, CgroupAssumption DEF Rooted
    <3> QED
      BY Zenon, <2>1, <3>1, <3>2 DEF IsChild
  <2> QED
    BY <2>1, <2>2, CgroupAssumption DEF Rooted, TypeOK
<1>4. CASE UNCHANGED dir
  BY Zenon, <1>4 DEF Rooted
<1>5. ASSUME NEW g \in Groups, Enable(g) \/ Disable(g)
      PROVE  dir' = dir
  BY Zenon, <1>5 DEF Enable, Disable
<1>6. ASSUME NEW g \in Groups, NEW n, NEW b, WriteMax(g, n) \/ WriteFreeze(g, b)
      PROVE  dir' = dir
  BY Zenon, <1>6 DEF WriteMax, WriteFreeze
<1>7. CASE UNCHANGED groups
  BY Zenon, <1>4, <1>7 DEF groups
<1> QED
  BY ZenonT(30), <1>1, <1>2, <1>3, <1>4, <1>5, <1>6, <1>7, GroupsChange DEF Directories

(* Every step keeps limits where a control shows them.                     *)
LEMMA LimitedNext ==
    ASSUME TypeOK, Places, Limited, Next
    PROVE  Limited'
<1>1. ASSUME NEW g \in Groups, dir[g] = "absent", \A h \in Groups \ {g} : dir'[h] = dir[h],
             max' = max, subtree' = subtree
      PROVE  Limited'
  BY Zenon, <1>1 DEF Limited, Places, Enabled, Available, TypeOK
<1>2. ASSUME NEW g \in Groups, Rmdir(g)
      PROVE  Limited'
  BY Zenon, <1>2 DEF Rmdir, Limited, Enabled, Available, TypeOK
<1>3. ASSUME NEW g \in Groups, Enable(g)
      PROVE  Limited'
  BY Zenon, <1>3 DEF Enable, Limited, Enabled, Available, TypeOK
<1>4. ASSUME NEW g \in Groups, Disable(g)
      PROVE  Limited'
  <2>1. /\ subtree' = [subtree EXCEPT ![g] = FALSE] /\ dir' = dir
        /\ \A c \in Groups : max'[c] = IF IsChild(c, g) /\ dir[c] = "live" THEN None ELSE max[c]
    BY Zenon, <1>4 DEF Disable
  <2> SUFFICES ASSUME NEW c \in Groups, max'[c] # None, dir[c] = "live"
               PROVE  Enabled(c)'
    BY Zenon, <2>1 DEF Limited
  <2>2. ~IsChild(c, g) /\ Enabled(c)
    BY Zenon, <2>1 DEF Limited
  <2> QED
    BY Zenon, <2>1, <2>2 DEF Enabled, Available, TypeOK
<1>5. ASSUME NEW g \in Groups, NEW n \in Limits \cup {None}, WriteMax(g, n)
      PROVE  Limited'
  BY Zenon, <1>5 DEF WriteMax, Limited, Enabled, Available, TypeOK
<1>6. CASE UNCHANGED groups
  BY Zenon, <1>6 DEF Limited, Enabled, Available, groups
<1>7. ASSUME NEW g \in Groups, NEW b \in BOOLEAN, WriteFreeze(g, b)
      PROVE  Limited'
  BY Zenon, <1>7 DEF WriteFreeze, Limited, Enabled, Available
<1>8. CASE Mount
  <2>1. /\ Root \in Groups /\ dir[Root] = "absent" /\ \A h \in Groups \ {Root} : dir'[h] = dir[h]
        /\ max' = max /\ subtree' = subtree
    BY <1>8, CgroupAssumption DEF Mount, TypeOK
  <2> QED
    BY ZenonT(30), <1>1, <2>1
<1>9. ASSUME NEW g \in Groups, Mkdir(g)
      PROVE  Limited'
  <2>1. /\ dir[g] = "absent" /\ \A h \in Groups \ {g} : dir'[h] = dir[h]
        /\ max' = max /\ subtree' = subtree
    BY Zenon, <1>9 DEF Mkdir, TypeOK
  <2> QED
    BY Zenon, <1>1, <2>1
<1> QED
  BY Zenon, <1>2, <1>3, <1>4, <1>5, <1>6, <1>7, <1>8, <1>9, GroupsChange DEF Directories

-----------------------------------------------------------------------------
\* Counting members along ->parent.

(* The members of a set below a group are finitely many.                   *)
LEMMA BelowFinite ==
    ASSUME NEW S \in SUBSET Members, NEW f, NEW g
    PROVE  /\ IsFiniteSet({m \in S : g \in Chain(f[m])})
           /\ Cardinality({m \in S : g \in Chain(f[m])}) \in Nat
<1> DEFINE B == {m \in S : g \in Chain(f[m])}
<1>1. IsFiniteSet(Members) /\ B \subseteq Members
  BY Zenon, CgroupAssumption
<1>2. IsFiniteSet(B)
  BY Zenon, <1>1, FS_Subset
<1> QED
  BY Zenon, <1>2, FS_CardinalityType

\* A tally gives every group a number.
LEMMA TallyType ==
    ASSUME NEW S \in SUBSET Members, NEW f
    PROVE  Tally(S, f) \in [Groups -> Nat]
BY Zenon, BelowFinite DEF Tally

(* The place of members outside the set does not matter.                   *)
LEMMA TallySame ==
    ASSUME NEW S \in SUBSET Members, NEW f, NEW h, \A m \in S : h[m] = f[m]
    PROVE  Tally(S, h) = Tally(S, f)
<1> SUFFICES ASSUME NEW g \in Groups
             PROVE  {m \in S : g \in Chain(h[m])} = {m \in S : g \in Chain(f[m])}
  BY Zenon DEF Tally
<1> QED
  BY Zenon

(* A new member counts in the groups above its place.                      *)
LEMMA TallyAdd ==
    ASSUME NEW S \in SUBSET Members, NEW f, NEW h, NEW m \in Members \ S,
           \A x \in S : h[x] = f[x]
    PROVE  Tally(S \cup {m}, h) = Add(Tally(S, f), Chain(h[m]), 1)
<1> SUFFICES ASSUME NEW g \in Groups
             PROVE  Cardinality({x \in S \cup {m} : g \in Chain(h[x])})
                      = Cardinality({x \in S : g \in Chain(f[x])}) + (IF g \in Chain(h[m]) THEN 1 ELSE 0)
  BY Zenon DEF Tally, Add
<1> DEFINE B == {x \in S : g \in Chain(f[x])}
           C == {x \in S \cup {m} : g \in Chain(h[x])}
<1>1. IsFiniteSet(B) /\ Cardinality(B) \in Nat
  BY Zenon, BelowFinite
<1>2. CASE g \in Chain(h[m])
  <2>1. C = B \cup {m} /\ m \notin B
    BY Zenon, <1>2
  <2> HIDE DEF B, C
  <2>2. Cardinality(C) = Cardinality(B) + 1
    BY Zenon, <1>1, <2>1, FS_AddElement
  <2> QED
    BY Zenon, <1>2, <2>2 DEF B, C
<1>3. CASE g \notin Chain(h[m])
  <2>1. C = B
    BY Zenon, <1>3
  <2> HIDE DEF B, C
  <2>2. Cardinality(C) = Cardinality(B) + 0
    BY <1>1, <2>1
  <2> QED
    BY Zenon, <1>3, <2>2 DEF B, C
<1> QED
  BY Zenon, <1>2, <1>3

(* A member that goes no longer counts there.                              *)
LEMMA TallyRemove ==
    ASSUME NEW S \in SUBSET Members, NEW f, NEW h, NEW m \in S,
           \A x \in S \ {m} : h[x] = f[x]
    PROVE  Tally(S \ {m}, h) = Add(Tally(S, f), Chain(f[m]), -1)
<1> DEFINE T == S \ {m}
<1>1. T \in SUBSET Members /\ m \in Members \ T /\ S = T \cup {m}
  BY Zenon
<1>2. Tally(T, h) = Tally(T, f)
  BY Zenon, <1>1, TallySame
<1>3. Tally(T \cup {m}, f) = Add(Tally(T, f), Chain(f[m]), 1)
  BY ZenonT(30), <1>1, TallyAdd
<1>4. Tally(T, f) \in [Groups -> Nat]
  BY Zenon, <1>1, TallyType
<1> HIDE DEF T
<1>5. Add(Add(Tally(T, f), Chain(f[m]), 1), Chain(f[m]), -1) = Tally(T, f)
  BY <1>4 DEF Add
<1> QED
  BY Zenon, <1>1, <1>2, <1>3, <1>5 DEF T

(* A member that moves leaves one branch and enters another.               *)
LEMMA TallyMove ==
    ASSUME NEW S \in SUBSET Members, NEW f, NEW h, NEW m \in S,
           \A x \in S \ {m} : h[x] = f[x]
    PROVE  Tally(S, h) = Add(Add(Tally(S, f), Chain(f[m]), -1), Chain(h[m]), 1)
<1> DEFINE T == S \ {m}
<1>1. T \in SUBSET Members /\ m \in Members \ T /\ S = T \cup {m}
  BY SMTT(30)
<1>2. Tally(T, h) = Add(Tally(S, f), Chain(f[m]), -1)
  BY SMTT(30), TallyRemove
<1>3. Tally(T \cup {m}, h) = Add(Tally(T, h), Chain(h[m]), 1)
  BY <1>1, TallyAdd
<1> QED
  BY Zenon, <1>1, <1>2, <1>3

(* The common part of the two branches does not change.                    *)
LEMMA TallyBranches ==
    ASSUME NEW S \in SUBSET Members, NEW f, NEW h, NEW m \in S,
           \A x \in S \ {m} : h[x] = f[x]
    PROVE  Tally(S, h)
             = Add(Add(Tally(S, f), Chain(f[m]) \ Chain(h[m]), -1), Chain(h[m]) \ Chain(f[m]), 1)
<1>1. Tally(S, h) = Add(Add(Tally(S, f), Chain(f[m]), -1), Chain(h[m]), 1)
  BY Zenon, TallyMove
<1>2. Tally(S, f) \in [Groups -> Nat]
  BY Zenon, TallyType
<1>3. Add(Add(Tally(S, f), Chain(f[m]), -1), Chain(h[m]), 1)
        = Add(Add(Tally(S, f), Chain(f[m]) \ Chain(h[m]), -1), Chain(h[m]) \ Chain(f[m]), 1)
  BY <1>2 DEF Add
<1> QED
  BY Zenon, <1>1, <1>3

(* Several members that are no longer counted.                             *)
LEMMA TallyMinus ==
    ASSUME NEW S \in SUBSET Members, NEW D \in SUBSET S, NEW f
    PROVE  \A g \in Groups :
               Tally(S \ D, f)[g] = Tally(S, f)[g] - Cardinality({m \in D : g \in Chain(f[m])})
<1> SUFFICES ASSUME NEW g \in Groups
             PROVE  Cardinality({m \in S \ D : g \in Chain(f[m])})
                      = Cardinality({m \in S : g \in Chain(f[m])}) - Cardinality({m \in D : g \in Chain(f[m])})
  BY Zenon DEF Tally
<1> DEFINE A == {m \in S : g \in Chain(f[m])}
           B == {m \in D : g \in Chain(f[m])}
           C == {m \in S \ D : g \in Chain(f[m])}
<1>1. IsFiniteSet(A) /\ IsFiniteSet(B) /\ Cardinality(A) \in Nat /\ Cardinality(B) \in Nat
  BY ZenonT(30), BelowFinite
<1>2. C = A \ B /\ A \cap B = B
  BY Zenon
<1> HIDE DEF A, B, C
<1>3. Cardinality(A \ B) = Cardinality(A) - Cardinality(A \cap B)
  BY Zenon, <1>1, FS_Difference
<1> QED
  BY Zenon, <1>1, <1>2, <1>3 DEF A, B, C

-----------------------------------------------------------------------------
\* One lemma for each way the counters change.

(* Before the mount no member has a place.                                 *)
LEMMA Unmounted ==
    ASSUME TypeOK, Places, dir[Root] = "absent"
    PROVE  /\ at = [m \in Members |-> None]
           /\ Stopped = {}
           /\ \A S \in SUBSET Members : Tally(S, at) = [g \in Groups |-> 0]
<1>1. \A m \in Members : at[m] = None
  BY CgroupAssumption DEF TypeOK, Places
<1>2. at = [m \in Members |-> None]
  BY Zenon, <1>1 DEF TypeOK
<1>3. Stopped = {}
  BY Zenon DEF Stopped, Live, Places
<1>4. ASSUME NEW S \in SUBSET Members
      PROVE  Tally(S, at) = [g \in Groups |-> 0]
  <2>1. \A g \in Groups : {m \in S : g \in Chain(at[m])} = {}
    BY Zenon, <1>1 DEF Chain
  <2> QED
    BY Zenon, <2>1, FS_EmptySet DEF Tally
<1> QED
  BY Zenon, <1>2, <1>3, <1>4

\* The actions that neither touch a counter nor what it counts.
Uncounted ==
    UNCHANGED <<task, at, counted, halted, charged, populated, stopped>>

\* md_cgroup_mount counts the tasks that are there into the root.
LEMMA CountsMount ==
    ASSUME TypeOK, Places, Counts, Mount
    PROVE  Counts'
<1>1. /\ dir[Root] = "absent"
      /\ at' = [m \in Members |-> IF task[m] = "none" THEN None ELSE Root]
      /\ populated' = [populated EXCEPT ![Root] = Cardinality({m \in Members : task[m] = "live"})]
      /\ charged' = [charged EXCEPT ![Root] = Cardinality({m \in Members : counted[m]})]
      /\ UNCHANGED <<counted, stopped, task, halted>>
  BY Zenon DEF Mount
<1>2. /\ charged = [g \in Groups |-> 0] /\ populated = [g \in Groups |-> 0] /\ stopped = [g \in Groups |-> 0]
      /\ Stopped = {}
  BY Zenon, <1>1, Unmounted DEF Counts, Charged, Live, Stopped
<1>3. ASSUME NEW S \in SUBSET Members, \A m \in S : task[m] # "none"
      PROVE  Tally(S, at') = [g \in Groups |-> IF g = Root THEN Cardinality(S) ELSE 0]
  <2>1. ASSUME NEW g \in Groups
        PROVE  {m \in S : g \in Chain(at'[m])} = IF g = Root THEN S ELSE {}
    <3>1. \A m \in S : Chain(at'[m]) = {Root}
      BY Zenon, <1>1, <1>3, CgroupAssumption DEF Chain
    <3> QED
      BY Zenon, <3>1
  <2> QED
    BY Zenon, <2>1, FS_EmptySet DEF Tally
<1>4. Charged' = Charged /\ Live' = Live /\ Stopped' = {}
  BY Zenon, <1>1, <1>2 DEF Charged, Live, Stopped
<1>5. \A m \in Charged \cup Live : task[m] # "none"
  BY Zenon DEF Charged, Live, Places
<1>6. Charged \in SUBSET Members /\ Live \in SUBSET Members /\ {} \in SUBSET Members
  BY Zenon DEF Charged, Live
<1>7. charged' = Tally(Charged, at')
  <2>1. charged' = [g \in Groups |-> IF g = Root THEN Cardinality(Charged) ELSE 0]
    BY Zenon, <1>1, <1>2, CgroupAssumption DEF Charged
  <2> QED
    BY Zenon, <2>1, <1>3, <1>5, <1>6
<1>8. populated' = Tally(Live, at')
  <2>1. populated' = [g \in Groups |-> IF g = Root THEN Cardinality(Live) ELSE 0]
    BY Zenon, <1>1, <1>2, CgroupAssumption DEF Live
  <2> QED
    BY Zenon, <2>1, <1>3, <1>5, <1>6
<1>9. stopped' = Tally({}, at')
  BY Zenon, <1>1, <1>2, <1>3, <1>6, FS_EmptySet
<1> QED
  BY Zenon, <1>4, <1>7, <1>8, <1>9 DEF Counts

\* The unary minus of Integers keeps zero.
LEMMA Negation ==
    ASSUME NEW n \in Int
    PROVE  (n = 0 => -n = 0)
<1>1. -n = 0 - n
  OBVIOUS
<1>2. n = 0 => 0 - n = 0
  OBVIOUS
<1> QED
  BY <1>1, <1>2, Zenon

(* A walk that adds nothing or starts nowhere leaves a counter alone.      *)
LEMMA AddNothing ==
    ASSUME NEW c \in [Groups -> Int], NEW s, NEW n \in Int
    PROVE  /\ Add(c, s, 0) = c /\ Add(c, {}, n) = c
           /\ Add(c, s, n) \in [Groups -> Int]
BY DEF Add

\* What the counters count are members, and the counters are numbers.
LEMMA CountsTyped ==
    ASSUME Counts
    PROVE  /\ Live \in SUBSET Members /\ Stopped \in SUBSET Members /\ Charged \in SUBSET Members
           /\ charged \in [Groups -> Nat] /\ populated \in [Groups -> Nat] /\ stopped \in [Groups -> Nat]
BY Zenon, TallyType DEF Counts, Live, Stopped, Charged

(* membership_change from nowhere counts a newborn.                        *)
LEMMA JoinCounts ==
    ASSUME Counts, NEW m \in Members \ Live, MembershipChange(m, None, at[m])
    PROVE  /\ populated' = Tally(Live \cup {m}, at)
           /\ stopped' = Tally(IF halted[m] THEN Stopped \cup {m} ELSE Stopped, at)
<1> DEFINE n == IF halted[m] THEN 1 ELSE 0
           X == Chain(at[m])
<1>1. /\ populated' = Add(Add(populated, {}, -1), X, 1)
      /\ stopped' = Add(Add(stopped, {}, -n), X, n)
  <2>1. Chain(None) \ X = {} /\ X \ Chain(None) = X
    BY Zenon DEF Chain
  <2> QED
    BY Zenon, <2>1 DEF MembershipChange
<1>2. /\ Live \in SUBSET Members /\ Stopped \in SUBSET Members
      /\ populated \in [Groups -> Int] /\ stopped \in [Groups -> Int]
  BY CountsTyped
<1>3. m \in Members \ Stopped /\ n \in Int /\ -n \in Int /\ -1 \in Int
  BY DEF Stopped
<1>4. populated' = Add(populated, X, 1) /\ stopped' = Add(stopped, X, n)
  BY Zenon, <1>1, <1>2, <1>3, AddNothing
<1>5. Tally(Live \cup {m}, at) = Add(populated, X, 1)
  BY SMTT(30), <1>2, TallyAdd DEF Counts
<1>6. Tally(Stopped \cup {m}, at) = Add(stopped, X, 1)
  BY SMTT(30), <1>2, <1>3, TallyAdd DEF Counts
<1>7. Add(stopped, X, 0) = Tally(Stopped, at)
  BY <1>2, AddNothing DEF Counts
<1> QED
  BY Zenon, <1>4, <1>5, <1>6, <1>7

(* membership_change to nowhere forgets a task that exits.                 *)
LEMMA LeaveCounts ==
    ASSUME Counts, NEW m \in Live, MembershipChange(m, at[m], None),
           NEW h, \A x \in Live \ {m} : h[x] = at[x]
    PROVE  /\ populated' = Tally(Live \ {m}, h)
           /\ stopped' = Tally(Stopped \ {m}, h)
<1> DEFINE n == IF halted[m] THEN 1 ELSE 0
           X == Chain(at[m])
<1>1. /\ populated' = Add(Add(populated, X, -1), {}, 1)
      /\ stopped' = Add(Add(stopped, X, -n), {}, n)
  <2>1. Chain(None) \ X = {} /\ X \ Chain(None) = X
    BY Zenon DEF Chain
  <2> QED
    BY Zenon, <2>1 DEF MembershipChange
<1>2. /\ Live \in SUBSET Members /\ Stopped \in SUBSET Members
      /\ populated \in [Groups -> Int] /\ stopped \in [Groups -> Int]
  BY CountsTyped
<1>3. n \in Int /\ -n \in Int /\ -1 \in Int /\ 1 \in Int /\ Stopped \subseteq Live
  BY DEF Stopped
<1>4. populated' = Add(populated, X, -1) /\ stopped' = Add(stopped, X, -n)
  BY Zenon, <1>1, <1>2, <1>3, AddNothing
<1>5. Tally(Live \ {m}, h) = Add(populated, X, -1)
  <2>1. Tally(Live \ {m}, h) = Add(Tally(Live, at), Chain(at[m]), -1)
    BY <1>2, TallyRemove
  <2>2. populated = Tally(Live, at)
    BY Zenon DEF Counts
  <2> QED
    BY <2>1, <2>2, Zenon
<1>6. CASE halted[m]
  <2>1. m \in Stopped /\ \A x \in Stopped \ {m} : h[x] = at[x]
    BY Zenon, <1>3, <1>6 DEF Stopped
  <2>2. Tally(Stopped \ {m}, h) = Add(stopped, X, -1)
    <3>1. Tally(Stopped \ {m}, h) = Add(Tally(Stopped, at), Chain(at[m]), -1)
      BY <1>2, <2>1, TallyRemove
    <3>2. stopped = Tally(Stopped, at)
      BY Zenon DEF Counts
    <3> QED
      BY <3>1, <3>2, Zenon
  <2> QED
    BY Zenon, <1>4, <1>5, <1>6, <2>2
<1>7. CASE ~halted[m]
  <2>1. Stopped \ {m} = Stopped /\ \A x \in Stopped : h[x] = at[x]
    BY Zenon, <1>3, <1>7 DEF Stopped
  <2>2. Tally(Stopped \ {m}, h) = stopped
    <3>1. Tally(Stopped, h) = Tally(Stopped, at)
      BY Zenon, <1>2, <2>1, TallySame
    <3> QED
      BY Zenon, <2>1, <3>1 DEF Counts
  <2>3. n = 0
    BY <1>7, Zenon
  <2>4. Add(stopped, X, 0) = stopped
    BY Zenon, <1>2, <1>3, AddNothing
  <2>5. Add(stopped, X, -n) = stopped
    BY <1>3, <2>3, <2>4, Negation, Zenon
  <2> QED
    BY <1>4, <1>5, <2>2, <2>5, Zenon
<1> QED
  BY Zenon, <1>6, <1>7

(* membership_change between groups moves a task.                          *)
LEMMA MoveCounts ==
    ASSUME Counts, NEW m \in Live, NEW g, MembershipChange(m, at[m], g),
           NEW h, \A x \in Live \ {m} : h[x] = at[x], h[m] = g
    PROVE  /\ populated' = Tally(Live, h)
           /\ stopped' = Tally(Stopped, h)
<1> DEFINE n == IF halted[m] THEN 1 ELSE 0
           O == Chain(at[m]) \ Chain(g)
           I == Chain(g) \ Chain(at[m])
<1>1. /\ populated' = Add(Add(populated, O, -1), I, 1)
      /\ stopped' = Add(Add(stopped, O, -n), I, n)
  BY Zenon DEF MembershipChange
<1>2. /\ Live \in SUBSET Members /\ Stopped \in SUBSET Members
      /\ populated \in [Groups -> Int] /\ stopped \in [Groups -> Int]
  BY CountsTyped
<1>3. populated' = Tally(Live, h)
  <2>1. Tally(Live, h) = Add(Add(Tally(Live, at), Chain(at[m]) \ Chain(h[m]), -1),
                             Chain(h[m]) \ Chain(at[m]), 1)
    <3>1. \A x \in Live \ {m} : h[x] = at[x]
      OBVIOUS
    <3> QED
      BY <1>2, <3>1, TallyBranches, SMTT(20)
  <2>2. Tally(Live, h) = Add(Add(Tally(Live, at), O, -1), I, 1)
    BY <2>1, Zenon
  <2>3. populated = Tally(Live, at)
    BY Zenon DEF Counts
  <2> QED
    BY <1>1, <2>2, <2>3, Zenon
<1>4. CASE halted[m]
  <2>1. m \in Stopped /\ \A x \in Stopped \ {m} : h[x] = at[x]
    BY Zenon, <1>4 DEF Stopped
  <2>2. Tally(Stopped, h) = Add(Add(stopped, O, -1), I, 1)
    <3>1. Tally(Stopped, h)
            = Add(Add(Tally(Stopped, at), Chain(at[m]) \ Chain(h[m]), -1), Chain(h[m]) \ Chain(at[m]), 1)
      BY <1>2, <2>1, TallyBranches, SMTT(20)
    <3>2. stopped = Tally(Stopped, at)
      BY Zenon DEF Counts
    <3> QED
      BY Zenon, <3>1, <3>2
  <2>3. n = 1
    BY <1>4, Zenon
  <2> QED
    BY <1>1, <1>3, <2>2, <2>3, Zenon
<1>5. CASE ~halted[m]
  <2>1. \A x \in Stopped : h[x] = at[x]
    BY Zenon, <1>5 DEF Stopped
  <2>2. Tally(Stopped, h) = stopped
    BY Zenon, <1>2, <2>1, TallySame DEF Counts
  <2>3. n = 0
    BY <1>5, Zenon
  <2>6. n \in Int
    OBVIOUS
  <2>4. Add(stopped, O, 0) = stopped /\ Add(stopped, I, 0) = stopped
    BY Zenon, <1>2, <2>6, AddNothing
  <2>5. Add(stopped, O, -n) = stopped /\ Add(stopped, I, n) = stopped
    BY <2>3, <2>4, <2>6, Negation, Zenon
  <2> QED
    BY <1>1, <1>3, <2>2, <2>5, Zenon
<1> QED
  BY Zenon, <1>4, <1>5

(* pids_reconcile leaves the count of what is still charged.               *)
LEMMA ReconciledCounts ==
    ASSUME Counts
    PROVE  /\ Reconciled = Tally(Charged \ Stale, at)
           /\ Charged \ Stale \in SUBSET Members
<1>1. Stale \in SUBSET Charged /\ Charged \in SUBSET Members
  BY Zenon DEF Stale, Charged
<1>2. \A g \in Groups : Tally(Charged \ Stale, at)[g]
                          = Tally(Charged, at)[g] - Cardinality({m \in Stale : g \in Chain(at[m])})
  BY Zenon, <1>1, TallyMinus
<1>3. Charged \ Stale \in SUBSET Members
  BY Zenon, <1>1
<1>5. Tally(Charged \ Stale, at) \in [Groups -> Nat]
  BY Zenon, <1>3, TallyType
<1>4. charged = Tally(Charged, at)
  BY Zenon DEF Counts
<1> QED
  BY Zenon, <1>2, <1>3, <1>4, <1>5 DEF Reconciled

(* pids_uncharge takes out one member.                                     *)
LEMMA UnchargeCounts ==
    ASSUME TypeOK, Counts, NEW m \in Members, Uncharge(m),
           NEW h, \A x \in Charged \ {m} : h[x] = at[x]
    PROVE  charged' = Tally(Charged', h)
<1>1. Charged' = Charged \ {m} /\ Charged \in SUBSET Members
  BY Zenon DEF Uncharge, Charged, TypeOK
<1>2. CASE counted[m]
  <2>1. m \in Charged /\ charged' = Add(charged, Chain(at[m]), -1)
    BY Zenon, <1>2 DEF Uncharge, Charged
  <2>2. Tally(Charged \ {m}, h) = Add(Tally(Charged, at), Chain(at[m]), -1)
    BY <1>1, <2>1, TallyRemove
  <2> QED
    BY Zenon, <1>1, <2>1, <2>2 DEF Counts
<1>3. CASE ~counted[m]
  <2>1. Charged' = Charged /\ charged' = charged /\ \A x \in Charged : h[x] = at[x]
    BY Zenon, <1>1, <1>3 DEF Uncharge, Charged
  <2>2. Tally(Charged, h) = Tally(Charged, at)
    BY Zenon, <1>1, <2>1, TallySame
  <2> QED
    BY Zenon, <2>1, <2>2 DEF Counts
<1> QED
  BY Zenon, <1>2, <1>3

\* A reconciliation, of pids_reserve or pids.current, keeps the counters exact.
LEMMA CountsRefuse ==
    ASSUME Counts, charged' = Reconciled,
           counted' = [m \in Members |-> counted[m] /\ m \notin Stale],
           UNCHANGED <<task, at, halted, populated, stopped>>
    PROVE  Counts'
<1>1. Charged' = Charged \ Stale /\ Live' = Live /\ Stopped' = Stopped
  BY Zenon DEF Charged, Live, Stopped
<1> QED
  BY Zenon, <1>1, ReconciledCounts DEF Counts

\* pids_reserve charges the newborn, after a reconciliation or without.
LEMMA CountsReserve ==
    ASSUME TypeOK, Places, Counts, NEW p \in Members, NEW c \in Members,
           NEW g \in Groups \cup {None}, NEW thread, Reserve(p, c, g, thread)
    PROVE  Counts'
<1> DEFINE S == IF Full(g, charged) THEN Charged \ Stale ELSE Charged
           count == IF Full(g, charged) THEN Reconciled ELSE charged
<1>1. /\ task[c] = "none" /\ charged' = Add(count, Chain(g), 1)
      /\ counted' = [m \in Members |-> m = c \/ (counted[m] /\ ~(Full(g, charged) /\ m \in Stale))]
      /\ task' = [task EXCEPT ![c] = "reserved"]
      /\ at' = [at EXCEPT ![c] = g]
      /\ halted' = [halted EXCEPT ![c] = FALSE]
      /\ UNCHANGED <<populated, stopped>>
  BY Zenon DEF Reserve, events
<1>2. count = Tally(S, at) /\ S \in SUBSET Members
  BY Zenon, ReconciledCounts DEF Counts, Charged
<1>3. c \in Members \ S
  BY Zenon, <1>1 DEF Charged, Places
<1>4. at'[c] = g /\ \A x \in Members \ {c} : at'[x] = at[x]
  BY Zenon, <1>1 DEF TypeOK
<1>5. Charged' = S \cup {c}
  BY Zenon, <1>1 DEF Charged
<1>6. charged' = Tally(Charged', at')
  <2> HIDE DEF S, count
  <2>1. \A x \in S : at'[x] = at[x]
    BY Zenon, <1>2, <1>3, <1>4
  <2>2. Tally(S \cup {c}, at') = Add(Tally(S, at), Chain(at'[c]), 1)
    BY Zenon, <1>2, <1>3, <2>1, TallyAdd
  <2> QED
    BY Zenon, <1>1, <1>2, <1>4, <1>5, <2>2
<1>7. Live' = Live /\ Stopped' = Stopped /\ c \notin Live
  BY Zenon, <1>1 DEF Live, Stopped, TypeOK
<1>8. Live \in SUBSET Members /\ Stopped \in SUBSET Members /\ Stopped \subseteq Live
  BY Zenon DEF Live, Stopped
<1>9. Tally(Live, at') = Tally(Live, at) /\ Tally(Stopped, at') = Tally(Stopped, at)
  BY SMTT(30), <1>4, <1>7, <1>8, TallySame
<1> QED
  BY Zenon, <1>1, <1>6, <1>7, <1>9 DEF Counts

\* md_cgroup_member_publish counts the newborn as populating its groups.
LEMMA CountsPublish ==
    ASSUME TypeOK, Counts, NEW c \in Members, Publish(c)
    PROVE  Counts'
<1>1. /\ task[c] = "reserved" /\ MembershipChange(c, None, at[c])
      /\ task' = [task EXCEPT ![c] = "live"]
      /\ UNCHANGED <<charged, counted, at, halted>>
  BY Zenon DEF Publish, pids
<1>2. c \in Members \ Live /\ Live' = Live \cup {c} /\ Charged' = Charged
  BY <1>1 DEF Live, Charged, TypeOK
<1>3. Stopped' = IF halted[c] THEN Stopped \cup {c} ELSE Stopped
  BY Zenon, <1>1, <1>2 DEF Stopped
<1> QED
  BY Zenon, <1>1, <1>2, <1>3, JoinCounts DEF Counts

\* membership_change takes a task that ends out of the groups it populated.
LEMMA CountsLeave ==
    ASSUME Counts, NEW m \in Live, MembershipChange(m, at[m], None), Live' = Live \ {m},
           \A x \in Live \ {m} : at'[x] = at[x] /\ halted'[x] = halted[x]
    PROVE  populated' = Tally(Live', at') /\ stopped' = Tally(Stopped', at')
<1>1. Stopped' = Stopped \ {m}
  BY Zenon DEF Stopped
<1>2. \A x \in Live \ {m} : at'[x] = at[x]
  BY Zenon
<1> QED
  BY ZenonT(30), <1>1, <1>2, LeaveCounts

\* A member that is not published populates nothing when it goes.
LEMMA CountsUnpublished ==
    ASSUME TypeOK, Counts, NEW m \in Members, task[m] # "live", task' = [task EXCEPT ![m] = "none"],
           \A x \in Members \ {m} : at'[x] = at[x] /\ halted'[x] = halted[x],
           UNCHANGED <<populated, stopped>>
    PROVE  populated' = Tally(Live', at') /\ stopped' = Tally(Stopped', at')
<1>1. m \notin Live /\ Live' = Live /\ Live \in SUBSET Members
  BY DEF Live, TypeOK
<1>2. Stopped' = Stopped /\ Stopped \subseteq Live /\ Stopped \in SUBSET Members
  BY Zenon, <1>1 DEF Stopped, Live
<1>3. \A x \in Live : at'[x] = at[x]
  BY Zenon, <1>1
<1>4. Tally(Live, at') = Tally(Live, at) /\ Tally(Stopped, at') = Tally(Stopped, at)
  BY Zenon, <1>1, <1>2, <1>3, TallySame
<1> QED
  BY Zenon, <1>1, <1>2, <1>4 DEF Counts

(* What md_cgroup_member_release leaves alone.                             *)
LEMMA DiscardOthers ==
    ASSUME TypeOK, NEW m \in Members, Discard(m)
    PROVE  /\ task' = [task EXCEPT ![m] = "none"]
           /\ \A x \in Members \ {m} : at'[x] = at[x] /\ halted'[x] = halted[x]
BY Zenon DEF Discard, TypeOK

\* One turn of a migration moves all three counts with the member.
LEMMA CountsMove ==
    ASSUME TypeOK, Places, Counts, NEW m \in Members, Move(m)
    PROVE  Counts'
<1> DEFINE g == lock.to
<1>1. /\ m \in lock.left /\ MembershipChange(m, at[m], g) /\ Recharge(m, g)
      /\ at' = [at EXCEPT ![m] = g]
      /\ UNCHANGED <<counted, task, halted>>
  BY Zenon DEF Move
<1>2. m \in Live
  BY <1>1 DEF Move, Places, Free
<1>3. at'[m] = g /\ \A x \in Members \ {m} : at'[x] = at[x]
  BY Zenon, <1>1 DEF TypeOK
<1>4. Live' = Live /\ Stopped' = Stopped /\ Charged' = Charged /\ Live \in SUBSET Members
      /\ Charged \in SUBSET Members
  BY Zenon, <1>1 DEF Live, Stopped, Charged
<1> HIDE DEF g
<1>5. populated' = Tally(Live, at') /\ stopped' = Tally(Stopped, at')
  <2>1. \A x \in Live \ {m} : at'[x] = at[x]
    BY Zenon, <1>3, <1>4
  <2> QED
    BY ZenonT(30), <1>1, <1>2, <1>3, <2>1, MoveCounts
<1>6. charged' = Tally(Charged, at')
  <2>1. CASE counted[m] /\ at[m] # g
    <3>1. m \in Charged /\ charged' = Add(Add(charged, Chain(at[m]), -1), Chain(g), 1)
      BY Zenon, <1>1, <2>1 DEF Charged, Recharge
    <3>2. \A x \in Charged \ {m} : at'[x] = at[x]
      BY Zenon, <1>3, <1>4
    <3>3. Tally(Charged, at') = Add(Add(Tally(Charged, at), Chain(at[m]), -1), Chain(at'[m]), 1)
      BY Zenon, <1>4, <3>1, <3>2, TallyMove
    <3> QED
      BY Zenon, <1>3, <3>1, <3>3 DEF Counts
  <2>2. CASE ~(counted[m] /\ at[m] # g)
    <3>1. charged' = charged /\ \A x \in Charged : at'[x] = at[x]
      BY Zenon, <1>1, <1>3, <1>4, <2>2 DEF Charged, Recharge
    <3> QED
      BY Zenon, <1>4, <3>1, TallySame DEF Counts
  <2> QED
    BY Zenon, <2>1, <2>2
<1> QED
  BY Zenon, <1>4, <1>5, <1>6 DEF Counts

\* md_cgroup_member_frozen counts the member it marks.
LEMMA CountsFrozen ==
    ASSUME TypeOK, Counts, NEW m \in Members, NEW b \in BOOLEAN, Frozen(m, b),
           UNCHANGED <<task, at, counted, charged>>
    PROVE  Counts'
<1> DEFINE s == IF task[m] = "live" THEN Chain(at[m]) ELSE {}
<1>1. /\ halted[m] # b /\ halted' = [halted EXCEPT ![m] = b] /\ UNCHANGED populated
      /\ stopped' = Add(stopped, s, IF b THEN 1 ELSE -1)
  BY Zenon DEF Frozen
<1>2. Live' = Live /\ Charged' = Charged
  BY Zenon DEF Live, Charged
<1>3. Stopped \in SUBSET Members /\ stopped \in [Groups -> Int]
  BY CountsTyped
<1>4. stopped' = Tally(Stopped', at)
  <2>1. CASE task[m] # "live"
    <3>1. Stopped' = Stopped /\ s = {}
      BY Zenon, <1>1, <2>1 DEF Stopped, Live, TypeOK
    <3>2. Add(stopped, {}, IF b THEN 1 ELSE -1) = stopped
      BY <1>3, AddNothing
    <3> QED
      BY Zenon, <1>1, <3>1, <3>2 DEF Counts
  <2>2. CASE task[m] = "live" /\ b
    <3>1. m \in Live /\ halted'[m] /\ ~halted[m] /\ \A x \in Members \ {m} : halted'[x] = halted[x]
      BY Zenon, <1>1, <2>2 DEF Live, TypeOK
    <3>3. Stopped' = Stopped \cup {m} /\ m \in Members \ Stopped
      BY Zenon, <1>2, <3>1 DEF Stopped, Live
    <3>2. Tally(Stopped \cup {m}, at) = Add(Tally(Stopped, at), Chain(at[m]), 1)
      BY <1>3, <3>3, TallyAdd
    <3> QED
      BY Zenon, <1>1, <2>2, <3>2, <3>3 DEF Counts
  <2>3. CASE task[m] = "live" /\ ~b
    <3>1. Stopped' = Stopped \ {m} /\ m \in Stopped
      BY Zenon, <1>1, <2>3 DEF Stopped, Live, TypeOK
    <3>2. Tally(Stopped \ {m}, at) = Add(Tally(Stopped, at), Chain(at[m]), -1)
      <4>1. Stopped \in SUBSET Members /\ \A x \in Stopped \ {m} : at[x] = at[x]
        BY <1>3, Zenon
      <4> QED
        BY <3>1, <4>1, TallyRemove
    <3> QED
      BY Zenon, <1>1, <2>3, <3>1, <3>2 DEF Counts
  <2> QED
    BY Zenon, <2>1, <2>2, <2>3
<1> QED
  BY Zenon, <1>1, <1>2, <1>4 DEF Counts

\* What writes neither counters nor members keeps them exact.
LEMMA CountsQuiet ==
    ASSUME Counts, Uncounted
    PROVE  Counts'
<1>1. Charged' = Charged /\ Live' = Live /\ Stopped' = Stopped
  BY Zenon DEF Uncounted, Charged, Live, Stopped
<1> QED
  BY Zenon, <1>1 DEF Counts, Uncounted

\* An exec takes its member out of the counts and brings it back.
LEMMA CountsExec ==
    ASSUME TypeOK, Counts, NEW m \in Members, NEW l \in Members,
           ExecBegin(m, l) \/ ExecPublish(m, l) \/ ExecDies(m, l)
    PROVE  Counts'
<1>1. CASE ExecBegin(m, l)
  <2>1. /\ task[m] = "live" /\ Uncharge(m) /\ MembershipChange(m, at[m], None)
        /\ task' = [task EXCEPT ![m] = "exec"] /\ UNCHANGED <<at, halted>>
    BY Zenon, <1>1 DEF ExecBegin
  <2>2. m \in Live /\ Live' = Live \ {m}
    BY <2>1 DEF Live, TypeOK
  <2>3. populated' = Tally(Live', at') /\ stopped' = Tally(Stopped', at')
    BY Zenon, <2>1, <2>2, CountsLeave
  <2>4. charged' = Tally(Charged', at')
    BY Zenon, <2>1, UnchargeCounts
  <2> QED
    BY Zenon, <2>3, <2>4 DEF Counts
<1>2. CASE ExecPublish(m, l)
  <2>1. /\ task[m] = "exec" /\ MembershipChange(m, None, at[m])
        /\ charged' = IF counted[m] THEN charged ELSE Add(charged, Chain(at[m]), 1)
        /\ counted' = [counted EXCEPT ![m] = TRUE]
        /\ task' = [task EXCEPT ![m] = "live"] /\ UNCHANGED <<at, halted>>
    BY Zenon, <1>2 DEF ExecPublish
  <2>2. m \in Members \ Live /\ Live' = Live \cup {m}
    BY <2>1 DEF Live, TypeOK
  <2>3. Stopped' = IF halted[m] THEN Stopped \cup {m} ELSE Stopped
    BY Zenon, <2>1, <2>2 DEF Stopped
  <2>4. Charged' = Charged \cup {m} /\ Charged \in SUBSET Members
    BY <2>1 DEF Charged, TypeOK
  <2>5. CASE counted[m]
    <3>1. Charged' = Charged
      BY Zenon, <2>4, <2>5 DEF Charged
    <3> QED
      BY Zenon, <2>1, <2>2, <2>3, <2>5, <3>1, JoinCounts DEF Counts
  <2>6. CASE ~counted[m]
    <3>1. m \in Members \ Charged
      BY Zenon, <2>6 DEF Charged
    <3>2. Tally(Charged \cup {m}, at) = Add(Tally(Charged, at), Chain(at[m]), 1)
      BY <2>4, <3>1, TallyAdd
    <3>3. charged' = Tally(Charged', at)
      BY Zenon, <2>1, <2>4, <2>6, <3>2 DEF Counts
    <3> QED
      BY Zenon, <2>1, <2>2, <2>3, <3>3, JoinCounts DEF Counts
  <2> QED
    BY Zenon, <2>5, <2>6
<1>3. CASE ExecDies(m, l)
  <2>1. /\ task[m] = "exec" /\ task[l] = "live" /\ Uncharge(m) /\ MembershipChange(l, at[l], None)
        /\ task' = [task EXCEPT ![l] = "departed", ![m] = "none"]
        /\ at' = [at EXCEPT ![m] = None] /\ halted' = [halted EXCEPT ![m] = FALSE]
    BY Zenon, <1>3 DEF ExecDies
  <2>2. l \in Live /\ m \notin Live /\ Live' = Live \ {l}
    BY <2>1 DEF Live, TypeOK
  <2>3. \A x \in Members \ {m} : at'[x] = at[x] /\ halted'[x] = halted[x]
    BY Zenon, <2>1 DEF TypeOK
  <2>4. \A x \in Live \ {l} : at'[x] = at[x] /\ halted'[x] = halted[x]
    BY Zenon, <2>2, <2>3 DEF Live
  <2>5. populated' = Tally(Live', at') /\ stopped' = Tally(Stopped', at')
    BY Zenon, <2>1, <2>2, <2>4, CountsLeave
  <2>6. charged' = Tally(Charged', at')
    BY Zenon, <2>1, <2>3, UnchargeCounts DEF Charged
  <2> QED
    BY Zenon, <2>5, <2>6 DEF Counts
<1> QED
  BY Zenon, <1>1, <1>2, <1>3

(* Every step keeps the counters equal to what they count.                 *)
LEMMA CountsNext ==
    ASSUME TypeOK, Places, Counts, Next
    PROVE  Counts'
<1>1. CASE Directories
  <2>1. CASE Mount
    BY Zenon, <2>1, CountsMount
  <2>2. ASSUME NEW g \in Groups, Mkdir(g) \/ Rmdir(g) \/ Enable(g) \/ Disable(g)
        PROVE  Counts'
    <3>1. Uncounted
      BY Zenon, <2>2 DEF Mkdir, Rmdir, Enable, Disable, Uncounted, pids, events, births
    <3> QED
      BY Zenon, <3>1, CountsQuiet
  <2> QED
    BY Zenon, <1>1, <2>1, <2>2 DEF Directories
<1>2. CASE Births
  <2>1. ASSUME NEW p \in Members, NEW g \in Groups \cup {None}, Refuse(p, g)
        PROVE  Counts'
    <3>1. /\ charged' = Reconciled
          /\ counted' = [m \in Members |-> counted[m] /\ m \notin Stale]
          /\ UNCHANGED <<task, at, halted, populated, stopped>>
      BY Zenon, <2>1 DEF Refuse, events, births
    <3> QED
      BY Zenon, <3>1, CountsRefuse
  <2>2. \A p \in Members : at[p] \in Groups \cup {None}
    BY Zenon DEF TypeOK
  <2> QED
    BY Zenon, <1>2, <2>1, <2>2, CountsReserve DEF Births, Fork, CloneInto, ForkRefused, CloneRefused
<1>3. CASE Migration
  <2>1. ASSUME NEW m \in Members, WriteThreads(m) \/ \E g \in Groups : WriteProcs(m, g)
        PROVE  Counts'
    <3>1. Uncounted
      BY Zenon, <2>1 DEF WriteThreads, WriteProcs, Uncounted, pids, events, births
    <3> QED
      BY <3>1, CountsQuiet
  <2> QED
    BY Zenon, <1>3, <2>1, CountsMove DEF Migration
<1>4. CASE Counting
  <2>1. CASE ReadCurrent
    <3>1. /\ charged' = Reconciled
          /\ counted' = [m \in Members |-> counted[m] /\ m \notin Stale]
          /\ UNCHANGED <<task, at, halted, populated, stopped>>
      BY Zenon, <2>1 DEF ReadCurrent, events, births
    <3> QED
      BY Zenon, <3>1, CountsRefuse
  <2>2. ASSUME NEW g \in Groups, ReadFailures(g) \/ \E n \in Limits \cup {None} : WriteMax(g, n)
        PROVE  Counts'
    <3>1. Uncounted
      BY Zenon, <2>2 DEF ReadFailures, WriteMax, Uncounted, pids, events, births
    <3> QED
      BY <3>1, CountsQuiet
  <2>3. ASSUME NEW m \in Members, Wait(m) \/ Reuse(m)
        PROVE  Counts'
    <3>1. Uncounted
      BY Zenon, <2>3 DEF Wait, Reuse, Uncounted, pids, events
    <3> QED
      BY <3>1, CountsQuiet
  <2>4. ASSUME NEW m \in Members, CollectLimits(m)
        PROVE  Counts'
    <3>1. Uncharge(m) /\ UNCHANGED <<task, at, halted, populated, stopped>>
      BY Zenon, <2>4 DEF CollectLimits, events, births
    <3>2. Live' = Live /\ Stopped' = Stopped
      BY Zenon, <3>1 DEF Live, Stopped
    <3>3. charged' = Tally(Charged', at)
      BY Zenon, <3>1, UnchargeCounts
    <3> QED
      BY Zenon, <3>1, <3>2, <3>3 DEF Counts
  <2>5. ASSUME NEW m \in Members, Reap(m)
        PROVE  Counts'
    <3>1. task[m] # "live" /\ Uncharge(m) /\ Discard(m) /\ UNCHANGED <<populated, stopped>>
      BY Zenon, <2>5 DEF Reap, events
    <3>2. /\ task' = [task EXCEPT ![m] = "none"]
          /\ \A x \in Members \ {m} : at'[x] = at[x] /\ halted'[x] = halted[x]
      BY Zenon, <3>1, DiscardOthers
    <3>3. populated' = Tally(Live', at') /\ stopped' = Tally(Stopped', at')
      BY Zenon, <3>1, <3>2, CountsUnpublished
    <3>4. charged' = Tally(Charged', at')
      BY Zenon, <3>1, <3>2, UnchargeCounts DEF Charged
    <3> QED
      BY Zenon, <3>3, <3>4 DEF Counts
  <2> QED
    BY Zenon, <1>4, <2>1, <2>2, <2>3, <2>4, <2>5 DEF Counting
<1>5. ASSUME NEW m \in Members, Abort(m)
      PROVE  Counts'
  <2>1. task[m] # "live" /\ Uncharge(m) /\ Discard(m) /\ UNCHANGED <<populated, stopped>>
    BY <1>5 DEF Abort, events
  <2>2. /\ task' = [task EXCEPT ![m] = "none"]
        /\ \A x \in Members \ {m} : at'[x] = at[x] /\ halted'[x] = halted[x]
    BY SMTT(30), <2>1, DiscardOthers
  <2>3. populated' = Tally(Live', at') /\ stopped' = Tally(Stopped', at')
    BY Zenon, <2>1, <2>2, CountsUnpublished
  <2>4. charged' = Tally(Charged', at')
    BY <2>1, <2>2, UnchargeCounts DEF Charged
  <2> QED
    BY <2>3, <2>4 DEF Counts
<1>6. ASSUME NEW m \in Members, Depart(m)
      PROVE  Counts'
  <2>1. /\ task[m] = "live" /\ MembershipChange(m, at[m], None)
        /\ task' = [task EXCEPT ![m] = "departed"]
        /\ UNCHANGED <<charged, counted, at, halted>>
    BY Zenon, <1>6 DEF Depart, MayExit, pids
  <2>2. Charged' = Charged /\ m \in Live /\ Live' = Live \ {m}
    BY <2>1 DEF Charged, Live, TypeOK
  <2> QED
    BY Zenon, <2>1, <2>2, CountsLeave DEF Counts
<1>7. ASSUME NEW m \in Members, Forget(m) \/ Replace(m)
      PROVE  Counts'
  <2>1. task[m] = "live" /\ Uncharge(m) /\ MembershipChange(m, at[m], None) /\ Discard(m)
    BY Zenon, <1>7 DEF Forget, Replace, Leave, MayExit
  <2>2. /\ task' = [task EXCEPT ![m] = "none"]
        /\ \A x \in Members \ {m} : at'[x] = at[x] /\ halted'[x] = halted[x]
    BY Zenon, <2>1, DiscardOthers
  <2>5. m \in Live /\ Live' = Live \ {m} /\ Live \subseteq Members
    BY <2>1, <2>2 DEF Live, TypeOK
  <2>3. populated' = Tally(Live', at') /\ stopped' = Tally(Stopped', at')
    BY Zenon, <2>1, <2>2, <2>5, CountsLeave
  <2>4. charged' = Tally(Charged', at')
    BY Zenon, <2>1, <2>2, UnchargeCounts DEF Charged
  <2> QED
    BY <2>3, <2>4 DEF Counts
<1>8. ASSUME NEW m \in Members, NEW b \in BOOLEAN, Halt(m, b)
      PROVE  Counts'
  <2>1. Frozen(m, b) /\ UNCHANGED <<task, at, counted, charged>>
    BY Zenon, <1>8 DEF Halt, pids, births
  <2> QED
    BY Zenon, <2>1, CountsFrozen
<1>9. ASSUME NEW g \in Groups, NEW b \in BOOLEAN, WriteFreeze(g, b)
      PROVE  Counts'
  <2>1. Uncounted
    BY Zenon, <1>9 DEF WriteFreeze, Uncounted, pids, births
  <2> QED
    BY Zenon, <2>1, CountsQuiet
<1>10. ASSUME NEW w \in Watched, ReadEvents(w)
       PROVE  Counts'
  <2>1. Uncounted
    BY Zenon, <1>10 DEF ReadEvents, Uncounted, pids, births
  <2> QED
    BY <2>1, CountsQuiet
<1>11. CASE Look
  <2>1. Uncounted
    BY Zenon, <1>11 DEF Look, Uncounted, pids, events, births
  <2> QED
    BY Zenon, <2>1, CountsQuiet
<1>12. CASE Execs
  BY Zenon, <1>7, <1>12, CountsExec DEF Execs
<1> QED
  BY Zenon, <1>1, <1>2, <1>3, <1>4, <1>5, <1>6, <1>7, <1>8, <1>9, <1>10, <1>11, <1>12, CountsPublish
     DEF Next, Step

-----------------------------------------------------------------------------
\* The types.

\* frozen_event leaves flags.
LEMMA ReportTyped ==
    ASSUME TypeOK, NEW s, NEW c, Report(s, c)
    PROVE  frozen' \in [Groups -> BOOLEAN] /\ ready' \in [Watched -> BOOLEAN]
BY Zenon DEF Report, TypeOK

\* membership_change leaves flags, and the effective state as it was.
LEMMA MembershipTyped ==
    ASSUME TypeOK, NEW m, NEW old, NEW next, MembershipChange(m, old, next)
    PROVE  /\ frozen' \in [Groups -> BOOLEAN] /\ ready' \in [Watched -> BOOLEAN]
           /\ effective' = effective
BY Zenon, ReportTyped DEF MembershipChange

\* A released member keeps the types of its fields.
LEMMA DiscardTyped ==
    ASSUME TypeOK, NEW m \in Members, Discard(m)
    PROVE  /\ task' \in [Members -> {"none", "reserved", "live", "exec", "departed"}]
           /\ at' \in [Members -> Groups \cup {None}]
           /\ process' \in [Members -> Members \cup {None}]
           /\ maker' \in [Members -> Members \cup {None}]
           /\ zombie' \in [Members -> BOOLEAN]
           /\ freezing' \in [Members -> BOOLEAN]
           /\ halted' \in [Members -> BOOLEAN]
BY Zenon DEF Discard, TypeOK

\* An assignment to one element keeps the type of an array.
LEMMA Update ==
    ASSUME NEW S, NEW T, NEW f \in [S -> T], NEW x, NEW y \in T
    PROVE  [f EXCEPT ![x] = y] \in [S -> T]
BY Zenon

\* What is left to do when the mutex is free, and when an exec returns.
LEMMA LockTyped ==
    ASSUME NEW l \in Members
    PROVE  {Free, Replacing(l)}
             \subseteq [op : {"free", "move", "exec"}, to : Groups \cup {None}, left : SUBSET Members]
BY DEF Free, Replacing

\* Directories and their controls.
LEMMA TypeDirectories ==
    ASSUME TypeOK, charged' \in [Groups -> Int], populated' \in [Groups -> Int],
           stopped' \in [Groups -> Int], writes' \in Menus, Directories
    PROVE  TypeOK'
<1>1. CASE Mount
  <2>1. at' \in [Members -> Groups \cup {None}]
    BY Zenon, <1>1, CgroupAssumption DEF Mount
  <2>2. dir' \in [Groups -> {"absent", "live", "removed"}]
    BY Zenon, <1>1, Update DEF Mount, TypeOK
  <2> QED
    BY Zenon, <1>1, <2>1, <2>2 DEF Mount, TypeOK, wakeup
<1>2. ASSUME NEW g \in Groups, Mkdir(g)
      PROVE  TypeOK'
  <2>1. Freezing(g, freeze) \in BOOLEAN
    BY Zenon DEF Freezing
  <2>2. dir' \in [Groups -> {"absent", "live", "removed"}]
    BY Zenon, <1>2, Update DEF Mkdir, TypeOK
  <2>3. effective' \in [Groups -> BOOLEAN] /\ frozen' \in [Groups -> BOOLEAN]
    BY Zenon, <1>2, <2>1, Update DEF Mkdir, TypeOK
  <2> QED
    BY Zenon, <1>2, <2>2, <2>3 DEF Mkdir, TypeOK, wakeup, pids, births
<1>3. ASSUME NEW g \in Groups, Rmdir(g)
      PROVE  TypeOK'
  <2>1. dir' \in [Groups -> {"absent", "live", "removed"}]
    BY Zenon, <1>3, Update DEF Rmdir, TypeOK
  <2>2. ready' \in [Watched -> BOOLEAN]
    BY Zenon, <1>3 DEF Rmdir
  <2> QED
    BY Zenon, <1>3, <2>1, <2>2 DEF Rmdir, TypeOK, wakeup, pids, births
<1>4. ASSUME NEW g \in Groups, Enable(g)
      PROVE  TypeOK'
  <2>1. subtree' \in [Groups -> BOOLEAN]
    BY Zenon, <1>4, Update DEF Enable, TypeOK
  <2> QED
    BY Zenon, <1>4, <2>1 DEF Enable, TypeOK, wakeup, pids, events, births
<1>5. ASSUME NEW g \in Groups, Disable(g)
      PROVE  TypeOK'
  <2>1. subtree' \in [Groups -> BOOLEAN]
    BY Zenon, <1>5, Update DEF Disable, TypeOK
  <2>2. max' \in [Groups -> Limits \cup {None}] /\ refused' \in SUBSET Groups
    BY Zenon, <1>5 DEF Disable, TypeOK
  <2> QED
    BY Zenon, <1>5, <2>1, <2>2 DEF Disable, TypeOK, wakeup, events, births
<1> QED
  BY Zenon, <1>1, <1>2, <1>3, <1>4, <1>5 DEF Directories

\* pids_reserve charges a refusal to a group that is there.
LEMMA OwnerIsGroup ==
    ASSUME NEW g \in Groups \cup {None}
    PROVE  Owner(g) \in Groups
<1> DEFINE on == {a \in Chain(g) : Enabled(a)}
<1>1. CASE on = {}
  BY Zenon, <1>1, CgroupAssumption DEF Owner
<1>2. CASE on # {}
  <2>1. g \in Groups /\ on \in (SUBSET Up[g]) \ {{}}
    <3>1. g # None
      BY <1>2 DEF Chain
    <3> QED
      BY <1>2, <3>1 DEF Chain
  <2>2. \E a \in on : on \subseteq Up[a]
    <3> HIDE DEF on
    <3> QED
      BY <2>1, WalkAssumption
  <2>3. Owner(g) = CHOOSE a \in on : on \subseteq Up[a]
    BY Zenon, <1>2 DEF Owner
  <2>4. Owner(g) \in on
    BY Zenon, <2>2, <2>3
  <2> QED
    BY Zenon, <2>1, <2>4, CgroupAssumption
<1> QED
  BY Zenon, <1>1, <1>2

\* Reservations, granted and refused.
LEMMA TypeBirths ==
    ASSUME TypeOK, charged' \in [Groups -> Int], populated' \in [Groups -> Int],
           stopped' \in [Groups -> Int], writes' \in Menus, Births
    PROVE  TypeOK'
<1>1. ASSUME NEW p \in Members, NEW c \in Members, NEW g \in Groups \cup {None},
             NEW thread \in BOOLEAN, Reserve(p, c, g, thread)
      PROVE  TypeOK'
  <2>1. freezing' \in [Members -> BOOLEAN] /\ halted' \in [Members -> BOOLEAN]
    <3>1. Freezing(g, freeze) \in BOOLEAN
      BY Zenon DEF Freezing
    <3> QED
      BY Zenon, <1>1, <3>1, Update DEF Reserve, TypeOK
  <2>2. counted' \in [Members -> BOOLEAN]
    BY Zenon, <1>1 DEF Reserve
  <2>3. /\ task' \in [Members -> {"none", "reserved", "live", "exec", "departed"}]
        /\ at' \in [Members -> Groups \cup {None}]
    BY Zenon, <1>1, Update DEF Reserve, TypeOK
  <2>4. process' \in [Members -> Members \cup {None}] /\ maker' \in [Members -> Members \cup {None}]
    BY Zenon, <1>1, Update DEF Reserve, TypeOK
  <2> QED
    BY Zenon, <1>1, <2>1, <2>2, <2>3, <2>4 DEF Reserve, TypeOK, groups, wakeup, events
<1>2. ASSUME NEW p \in Members, NEW g \in Groups \cup {None}, Refuse(p, g)
      PROVE  TypeOK'
  <2>1. refused' \in SUBSET Groups
    BY Zenon, <1>2, OwnerIsGroup DEF Refuse, TypeOK
  <2>2. counted' \in [Members -> BOOLEAN]
    BY Zenon, <1>2 DEF Refuse
  <2> QED
    BY Zenon, <1>2, <2>1, <2>2 DEF Refuse, TypeOK, groups, wakeup, events, births
<1>3. \A p \in Members : at[p] \in Groups \cup {None}
  BY Zenon DEF TypeOK
<1> QED
  BY Zenon, <1>1, <1>2, <1>3 DEF Births, Fork, CloneInto, ForkRefused, CloneRefused

\* Migrations.
LEMMA TypeMigration ==
    ASSUME TypeOK, charged' \in [Groups -> Int], populated' \in [Groups -> Int],
           stopped' \in [Groups -> Int], writes' \in Menus, Migration
    PROVE  TypeOK'
<1> DEFINE Locks == [op : {"free", "move", "exec"}, to : Groups \cup {None}, left : SUBSET Members]
<1>1. \A g \in Groups, s \in SUBSET Members : Moving(g, s) \in Locks
  BY DEF Moving
<1>2. ASSUME NEW m \in Members, NEW g \in Groups, WriteProcs(m, g)
      PROVE  TypeOK'
  <2>1. lock' \in Locks
    BY Zenon, <1>1, <1>2 DEF WriteProcs
  <2> QED
    BY Zenon, <1>2, <2>1 DEF WriteProcs, TypeOK, groups, pids, events, births
<1>3. ASSUME NEW m \in Members, WriteThreads(m)
      PROVE  TypeOK'
  <2>1. at[m] \in Groups /\ {m} \in SUBSET Members
    BY Zenon, <1>3 DEF WriteThreads, TypeOK
  <2>2. lock' \in Locks
    BY Zenon, <1>1, <1>3, <2>1 DEF WriteThreads
  <2> QED
    BY Zenon, <1>3, <2>2 DEF WriteThreads, TypeOK, groups, pids, events, births
<1>4. ASSUME NEW m \in Members, Move(m)
      PROVE  TypeOK'
  <2>1. /\ frozen' \in [Groups -> BOOLEAN] /\ ready' \in [Watched -> BOOLEAN]
        /\ effective' = effective
    BY Zenon, <1>4, MembershipTyped DEF Move
  <2>2. freezing' \in [Members -> BOOLEAN]
    <3>1. Freezing(lock.to, freeze) \in BOOLEAN
      BY Zenon DEF Freezing
    <3> QED
      BY Zenon, <1>4, <3>1, Update DEF Move, TypeOK
  <2>3. lock \in Locks /\ lock' = IF lock.left = {m} THEN Free ELSE [lock EXCEPT !.left = @ \ {m}]
    BY Zenon, <1>4 DEF Move, TypeOK
  <2>4. lock' \in Locks
    BY <2>3 DEF Free
  <2>5. at' \in [Members -> Groups \cup {None}]
    <3>1. lock.to \in Groups \cup {None}
      BY <2>3
    <3> QED
      BY Zenon, <1>4, <3>1, Update DEF Move, TypeOK
  <2>6. used' \in BOOLEAN /\ dirty' \in BOOLEAN
    BY Zenon, <1>4 DEF Move, TypeOK, FreezerChanged
  <2> QED
    BY Zenon, <1>4, <2>1, <2>2, <2>4, <2>5, <2>6 DEF Move, TypeOK, groups
<1> QED
  BY Zenon, <1>2, <1>3, <1>4 DEF Migration

\* pids_uncharge leaves flags.
LEMMA UnchargeTyped ==
    ASSUME TypeOK, NEW m \in Members, Uncharge(m)
    PROVE  counted' \in [Members -> BOOLEAN]
BY Zenon, Update DEF Uncharge, TypeOK

\* The pids controls and collected zombies.
LEMMA TypeCounting ==
    ASSUME TypeOK, charged' \in [Groups -> Int], populated' \in [Groups -> Int],
           stopped' \in [Groups -> Int], writes' \in Menus, Counting
    PROVE  TypeOK'
<1>1. CASE ReadCurrent
  <2>1. counted' \in [Members -> BOOLEAN]
    BY Zenon, <1>1 DEF ReadCurrent
  <2> QED
    BY Zenon, <1>1, <2>1 DEF ReadCurrent, TypeOK, groups, wakeup, events, births
<1>2. ASSUME NEW g \in Groups, ReadFailures(g)
      PROVE  TypeOK'
  <2>1. refused' \in SUBSET Groups
    BY Zenon, <1>2 DEF ReadFailures, TypeOK
  <2> QED
    BY Zenon, <1>2, <2>1 DEF ReadFailures, TypeOK, groups, wakeup, events, births
<1>3. ASSUME NEW g \in Groups, NEW n \in Limits \cup {None}, WriteMax(g, n)
      PROVE  TypeOK'
  <2>1. max' \in [Groups -> Limits \cup {None}]
    BY Zenon, <1>3, Update DEF WriteMax, TypeOK
  <2> QED
    BY Zenon, <1>3, <2>1 DEF WriteMax, TypeOK, pids, wakeup, events, births
<1>4. ASSUME NEW m \in Members, Wait(m) \/ Reuse(m)
      PROVE  TypeOK'
  <2>1. zombie' \in [Members -> BOOLEAN]
    BY Zenon, <1>4, Update DEF Wait, Reuse, TypeOK
  <2> QED
    BY Zenon, <1>4, <2>1 DEF Wait, Reuse, TypeOK, groups, pids, wakeup, events
<1>5. ASSUME NEW m \in Members, CollectLimits(m)
      PROVE  TypeOK'
  <2>1. counted' \in [Members -> BOOLEAN]
    BY Zenon, <1>5, UnchargeTyped DEF CollectLimits
  <2> QED
    BY Zenon, <1>5, <2>1 DEF CollectLimits, TypeOK, groups, wakeup, events, births
<1>6. ASSUME NEW m \in Members, Reap(m)
      PROVE  TypeOK'
  <2>1. counted' \in [Members -> BOOLEAN]
    BY Zenon, <1>6, UnchargeTyped DEF Reap
  <2>2. Discard(m) /\ UNCHANGED <<groups, refused, events, wakeup, effective, seen>>
    BY Zenon, <1>6 DEF Reap
  <2> QED
    BY Zenon, <2>1, <2>2, DiscardTyped DEF TypeOK, groups, wakeup, events
<1> QED
  BY Zenon, <1>1, <1>2, <1>3, <1>4, <1>5, <1>6 DEF Counting

\* Tasks are published and end.
LEMMA TypeTasks ==
    ASSUME TypeOK, charged' \in [Groups -> Int], populated' \in [Groups -> Int],
           stopped' \in [Groups -> Int], writes' \in Menus, NEW m \in Members,
           Publish(m) \/ Abort(m) \/ Depart(m) \/ Forget(m) \/ Replace(m)
    PROVE  TypeOK'
<1>1. CASE Publish(m)
  <2>1. /\ frozen' \in [Groups -> BOOLEAN] /\ ready' \in [Watched -> BOOLEAN]
        /\ effective' = effective
    BY Zenon, <1>1, MembershipTyped DEF Publish
  <2>2. task' \in [Members -> {"none", "reserved", "live", "exec", "departed"}]
    BY Zenon, <1>1, Update DEF Publish, TypeOK
  <2>3. maker' \in [Members -> Members \cup {None}]
    BY Zenon, <1>1, Update DEF Publish, TypeOK
  <2> QED
    BY Zenon, <1>1, <2>1, <2>2, <2>3 DEF Publish, TypeOK, groups, pids, wakeup
<1>2. CASE Abort(m)
  <2>1. counted' \in [Members -> BOOLEAN]
    BY Zenon, <1>2, UnchargeTyped DEF Abort
  <2>2. Discard(m) /\ UNCHANGED <<groups, refused, events, wakeup, effective, seen>>
    BY Zenon, <1>2 DEF Abort
  <2> QED
    BY Zenon, <2>1, <2>2, DiscardTyped DEF TypeOK, groups, wakeup, events
<1>3. CASE Depart(m)
  <2>1. /\ frozen' \in [Groups -> BOOLEAN] /\ ready' \in [Watched -> BOOLEAN]
        /\ effective' = effective
    BY Zenon, <1>3, MembershipTyped DEF Depart
  <2>2. task' \in [Members -> {"none", "reserved", "live", "exec", "departed"}]
    BY Zenon, <1>3, Update DEF Depart, TypeOK
  <2>3. zombie' \in [Members -> BOOLEAN]
    BY ZenonT(30), <1>3, Update DEF Depart, TypeOK
  <2> QED
    BY Zenon, <1>3, <2>1, <2>2, <2>3 DEF Depart, TypeOK, groups, pids, wakeup
<1>4. CASE Forget(m) \/ Replace(m)
  <2>1. Leave(m) /\ (UNCHANGED lock \/ lock' = Free)
    BY Zenon, <1>4 DEF Forget, Replace
  <2>2. counted' \in [Members -> BOOLEAN]
    BY Zenon, <2>1, UnchargeTyped DEF Leave
  <2>3. /\ frozen' \in [Groups -> BOOLEAN] /\ ready' \in [Watched -> BOOLEAN]
        /\ effective' = effective
    BY Zenon, <2>1, MembershipTyped DEF Leave
  <2>4. Discard(m) /\ UNCHANGED <<groups, refused, used, dirty, seen>>
    BY Zenon, <2>1 DEF Leave
  <2>5. lock' \in [op : {"free", "move", "exec"}, to : Groups \cup {None}, left : SUBSET Members]
    BY Zenon, <2>1, LockTyped DEF TypeOK
  <2> QED
    BY Zenon, <2>2, <2>3, <2>4, <2>5, DiscardTyped DEF TypeOK, groups
<1> QED
  BY Zenon, <1>1, <1>2, <1>3, <1>4

\* Execs begin, return and fail.
LEMMA TypeExec ==
    ASSUME TypeOK, charged' \in [Groups -> Int], populated' \in [Groups -> Int],
           stopped' \in [Groups -> Int], writes' \in Menus, NEW m \in Members, NEW l \in Members,
           ExecBegin(m, l) \/ ExecPublish(m, l) \/ ExecDies(m, l)
    PROVE  TypeOK'
<1> DEFINE T == {"none", "reserved", "live", "exec", "departed"}
<1>1. m \in Members \cup {None} /\ l \in Members \cup {None} /\ None \in Members \cup {None}
  BY Zenon
<1>2. CASE ExecBegin(m, l)
  <2>1. counted' \in [Members -> BOOLEAN]
    BY Zenon, <1>2, UnchargeTyped DEF ExecBegin
  <2>2. /\ frozen' \in [Groups -> BOOLEAN] /\ ready' \in [Watched -> BOOLEAN]
        /\ effective' = effective
    BY Zenon, <1>2, MembershipTyped DEF ExecBegin
  <2>3. task' \in [Members -> T] /\ maker' \in [Members -> Members \cup {None}]
    BY Zenon, <1>1, <1>2, Update DEF ExecBegin, TypeOK
  <2> QED
    BY Zenon, <1>2, <2>1, <2>2, <2>3 DEF ExecBegin, TypeOK, groups, wakeup
<1>3. CASE ExecPublish(m, l)
  <2>1. counted' \in [Members -> BOOLEAN]
    BY Zenon, <1>3, Update DEF ExecPublish, TypeOK
  <2>2. /\ frozen' \in [Groups -> BOOLEAN] /\ ready' \in [Watched -> BOOLEAN]
        /\ effective' = effective
    BY Zenon, <1>3, MembershipTyped DEF ExecPublish
  <2>3. task' \in [Members -> T] /\ maker' \in [Members -> Members \cup {None}]
    BY Zenon, <1>1, <1>3, Update DEF ExecPublish, TypeOK
  <2>4. process' \in [Members -> Members \cup {None}]
    BY Zenon, <1>3 DEF ExecPublish, TypeOK
  <2>5. lock' \in [op : {"free", "move", "exec"}, to : Groups \cup {None}, left : SUBSET Members]
    BY Zenon, <1>3, LockTyped DEF ExecPublish
  <2> QED
    BY Zenon, <1>3, <2>1, <2>2, <2>3, <2>4, <2>5 DEF ExecPublish, TypeOK, groups
<1>4. CASE ExecDies(m, l)
  <2>1. counted' \in [Members -> BOOLEAN]
    BY Zenon, <1>4, UnchargeTyped DEF ExecDies
  <2>2. /\ frozen' \in [Groups -> BOOLEAN] /\ ready' \in [Watched -> BOOLEAN]
        /\ effective' = effective
    BY Zenon, <1>4, MembershipTyped DEF ExecDies
  <2>3. task' \in [Members -> T]
    BY Zenon, <1>4, Update DEF ExecDies, TypeOK
  <2>4. /\ at' \in [Members -> Groups \cup {None}]
        /\ process' \in [Members -> Members \cup {None}] /\ maker' \in [Members -> Members \cup {None}]
    BY Zenon, <1>4, Update DEF ExecDies, TypeOK
  <2>5. /\ zombie' \in [Members -> BOOLEAN] /\ freezing' \in [Members -> BOOLEAN]
        /\ halted' \in [Members -> BOOLEAN]
    BY Zenon, <1>4, Update DEF ExecDies, TypeOK
  <2> QED
    BY Zenon, <1>4, <2>1, <2>2, <2>3, <2>4, <2>5 DEF ExecDies, TypeOK, groups, wakeup
<1> QED
  BY Zenon, <1>2, <1>3, <1>4

\* The freezer and the reader of cgroup.events.
LEMMA TypeFreezer ==
    ASSUME TypeOK, charged' \in [Groups -> Int], populated' \in [Groups -> Int],
           stopped' \in [Groups -> Int], writes' \in Menus,
           \/ \E m \in Members, b \in BOOLEAN : Halt(m, b)
           \/ \E g \in Groups, b \in BOOLEAN : WriteFreeze(g, b)
           \/ \E w \in Watched : ReadEvents(w)
           \/ Look
    PROVE  TypeOK'
<1>1. ASSUME NEW m \in Members, NEW b \in BOOLEAN, Halt(m, b)
      PROVE  TypeOK'
  <2>1. frozen' \in [Groups -> BOOLEAN] /\ ready' \in [Watched -> BOOLEAN]
    BY Zenon, <1>1, ReportTyped DEF Halt, Frozen
  <2>2. effective' = effective /\ halted' \in [Members -> BOOLEAN]
    BY Zenon, <1>1, Update DEF Halt, Frozen, TypeOK
  <2> QED
    BY Zenon, <1>1, <2>1, <2>2 DEF Halt, TypeOK, groups, pids, births, wakeup
<1>2. ASSUME NEW g \in Groups, NEW b \in BOOLEAN, WriteFreeze(g, b)
      PROVE  TypeOK'
  <2>1. \A h : Freezing(h, freeze') \in BOOLEAN
    BY Zenon DEF Freezing
  <2>2. frozen' \in [Groups -> BOOLEAN] /\ ready' \in [Watched -> BOOLEAN]
    BY Zenon, <1>2, ReportTyped DEF WriteFreeze
  <2>3. effective' \in [Groups -> BOOLEAN]
    BY Zenon, <1>2, <2>1 DEF WriteFreeze, TypeOK
  <2>4. freezing' \in [Members -> BOOLEAN]
    BY Zenon, <1>2 DEF WriteFreeze
  <2>5. freeze' \in [Groups -> BOOLEAN]
    BY Zenon, <1>2, Update DEF WriteFreeze, TypeOK
  <2> QED
    BY Zenon, <1>2, <2>2, <2>3, <2>4, <2>5 DEF WriteFreeze, FreezerChanged, TypeOK, pids, births
<1>3. ASSUME NEW w \in Watched, ReadEvents(w)
      PROVE  TypeOK'
  <2> DEFINE e == [populated |-> populated[w] # 0, frozen |-> frozen[w]]
             R == {Unread} \cup [populated : BOOLEAN, frozen : BOOLEAN]
  <2>1. frozen[w] \in BOOLEAN
    BY Zenon, CgroupAssumption DEF TypeOK
  <2>2. e \in R /\ seen \in [Watched -> R]
    <3>1. e \in [populated : BOOLEAN, frozen : BOOLEAN]
      BY <2>1
    <3> QED
      BY Zenon, <3>1 DEF TypeOK
  <2>3. seen' = [seen EXCEPT ![w] = e]
    BY Zenon, <1>3 DEF ReadEvents
  <2>4. ready' \in [Watched -> BOOLEAN]
    BY Zenon, <1>3, Update DEF ReadEvents, TypeOK
  <2> HIDE DEF e, R
  <2>5. seen' \in [Watched -> R]
    BY Zenon, <2>2, <2>3, Update
  <2> QED
    BY Zenon, <1>3, <2>4, <2>5 DEF ReadEvents, R, TypeOK, groups, pids, births, wakeup
<1>4. CASE Look
  <2>1. dirty' \in BOOLEAN
    BY Zenon, <1>4 DEF Look
  <2> QED
    BY Zenon, <1>4, <2>1 DEF Look, TypeOK, groups, pids, events, births
<1> QED
  BY Zenon, <1>1, <1>2, <1>3, <1>4

(* Every step keeps the types.                                             *)
LEMMA TypeNext ==
    ASSUME TypeOK, Places, Counts, Next
    PROVE  TypeOK'
<1>1. /\ charged' \in [Groups -> Int] /\ populated' \in [Groups -> Int]
      /\ stopped' \in [Groups -> Int]
  <2>1. Counts'
    BY Zenon, CountsNext
  <2>2. /\ Charged' \in SUBSET Members /\ Live' \in SUBSET Members
        /\ Stopped' \in SUBSET Members
    BY Zenon DEF Charged, Live, Stopped
  <2>3. /\ charged' \in [Groups -> Nat] /\ populated' \in [Groups -> Nat]
        /\ stopped' \in [Groups -> Nat]
    BY Zenon, <2>1, <2>2, TallyType DEF Counts
  <2> QED
    BY <2>3
<1>2. writes' \in Menus
  BY Zenon DEF Next, TypeOK
<1>3. Step
  BY Zenon DEF Next
<1> QED
  BY Zenon, <1>1, <1>2, <1>3, TypeDirectories, TypeBirths, TypeMigration, TypeCounting, TypeTasks,
     TypeExec, TypeFreezer DEF Step, Execs
===============================================================================
