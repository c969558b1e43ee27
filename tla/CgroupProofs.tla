----------------------------- MODULE CgroupProofs -----------------------------
(***************************************************************************)
(* The invariants of the control-group hierarchy for any tree of groups    *)
(* and any number of tasks.  First every step keeps the freezer's state,   *)
(* and what a reader of cgroup.events was shown, in agreement with the     *)
(* controls and the counters; then the inductive invariant and what it     *)
(* implies.  Last the freezer's event loop: it drives the hierarchy as     *)
(* Cgroup allows, and loses neither a freeze nor a thaw.                   *)
(***************************************************************************)
EXTENDS Freezer, CgroupStructure

-----------------------------------------------------------------------------
\* The freezer.

(* A report over the groups whose counters changed keeps the agreement.    *)
LEMMA AgreedReport ==
    ASSUME TypeOK, Agreed, NEW s, NEW c, Report(s, c), effective' = effective,
           \A g \in Groups : g \notin s => stopped'[g] = stopped[g] /\ populated'[g] = populated[g]
    PROVE  Agreed'
<1> SUFFICES ASSUME NEW g \in Groups
             PROVE  frozen'[g] <=> effective'[g] /\ stopped'[g] = populated'[g]
  BY Zenon DEF Agreed
<1>1. CASE g \in s
  <2>1. effective'[g] \in BOOLEAN
    BY Zenon DEF TypeOK
  <2>2. frozen'[g] = (effective'[g] /\ stopped'[g] = populated'[g])
    BY Zenon, <1>1 DEF Report
  <2> QED
    BY <2>1, <2>2, Zenon
<1>2. CASE g \notin s
  <2>1. frozen'[g] = frozen[g]
    BY Zenon, <1>2 DEF Report
  <2> QED
    BY Zenon, <1>2, <2>1 DEF Agreed
<1> QED
  BY Zenon, <1>1, <1>2

\* membership_change recomputes frozen wherever it changes a counter.
LEMMA AgreedMembership ==
    ASSUME TypeOK, Agreed, NEW m \in Members, NEW old, NEW next, MembershipChange(m, old, next)
    PROVE  Agreed'
<1> DEFINE out == Chain(old) \ Chain(next)
           in == Chain(next) \ Chain(old)
           n == IF halted[m] THEN 1 ELSE 0
<1>1. PICK c : Report(out \cup in, c)
  BY Zenon DEF MembershipChange
<1>2. /\ populated' = Add(Add(populated, out, -1), in, 1)
      /\ stopped' = Add(Add(stopped, out, -n), in, n)
      /\ effective' = effective
  BY ZenonT(30) DEF MembershipChange
<1>3. \A g \in Groups : g \notin out \cup in => stopped'[g] = stopped[g] /\ populated'[g] = populated[g]
  <2> HIDE DEF out, in, n
  <2> QED
    BY SMTT(30), <1>2 DEF Add, TypeOK
<1> HIDE DEF out, in, n
<1> QED
  BY Zenon, <1>1, <1>2, <1>3, AgreedReport

(* A group that has not been made has nobody below it.                     *)
LEMMA NobodyBelow ==
    ASSUME TypeOK, Places, Counts, NEW g \in Groups, dir[g] = "absent"
    PROVE  stopped[g] = populated[g] /\ populated[g] = 0
<1>1. \A m \in Members : g \notin Chain(at[m])
  <2> SUFFICES ASSUME NEW m \in Members, g \in Chain(at[m])
               PROVE  FALSE
    BY Zenon
  <2>1. at[m] # None /\ at[m] \in Groups /\ g \in Up[at[m]]
    BY Zenon DEF Chain, TypeOK
  <2> QED
    BY Zenon, <2>1 DEF Places
<1>2. ASSUME NEW S \in SUBSET Members
      PROVE  Tally(S, at)[g] = 0
  <2>1. {m \in S : g \in Chain(at[m])} = {}
    BY Zenon, <1>1
  <2> QED
    BY Zenon, <2>1, FS_EmptySet DEF Tally
<1> QED
  BY Zenon, <1>2, CountsTyped DEF Counts

(* Every step keeps groups frozen exactly when told so and all stopped.    *)
LEMMA AgreedNext ==
    ASSUME TypeOK, Places, Counts, Effective, Agreed, Next
    PROVE  Agreed'
<1>1. CASE UNCHANGED <<effective, frozen, populated, stopped>>
  BY Zenon, <1>1 DEF Agreed
<1>2. CASE Directories
  <2>1. CASE Mount
    <3>1. ~effective[Root] /\ ~frozen[Root]
      BY SMTT(30), <2>1, CgroupAssumption DEF Mount, Effective, Agreed
    <3> QED
      BY SMTT(30), <2>1, <3>1 DEF Mount, Agreed, TypeOK
  <2>2. ASSUME NEW g \in Groups, Mkdir(g)
        PROVE  Agreed'
    <3>1. stopped[g] = populated[g]
      BY Zenon, <2>2, NobodyBelow DEF Mkdir
    <3> QED
      BY SMTT(30), <2>2, <3>1 DEF Mkdir, Agreed, TypeOK
  <2>3. ASSUME NEW g \in Groups, Rmdir(g) \/ Enable(g) \/ Disable(g)
        PROVE  Agreed'
    BY Zenon, <1>1, <2>3 DEF Rmdir, Enable, Disable, events
  <2> QED
    BY SMTT(30), <1>2, <2>1, <2>2, <2>3 DEF Directories
<1>3. CASE Births
  <2>1. ASSUME NEW p, NEW c, NEW g, NEW thread, Reserve(p, c, g, thread) \/ Refuse(p, g)
        PROVE  Agreed'
    BY Zenon, <1>1, <2>1 DEF Reserve, Refuse, events
  <2> QED
    BY Zenon, <1>3, <2>1 DEF Births, Fork, CloneInto, ForkRefused, CloneRefused
<1>4. CASE Migration
  <2>1. ASSUME NEW m, NEW g, WriteThreads(m) \/ WriteProcs(m, g)
        PROVE  Agreed'
    BY Zenon, <1>1, <2>1 DEF WriteThreads, WriteProcs, events
  <2> QED
    BY Zenon, <1>4, <2>1, AgreedMembership DEF Migration, Move
<1>5. CASE Counting
  <2>1. ASSUME NEW g, NEW n, ReadCurrent \/ ReadFailures(g) \/ WriteMax(g, n)
        PROVE  Agreed'
    BY Zenon, <1>1, <2>1 DEF ReadCurrent, ReadFailures, WriteMax, events
  <2>2. ASSUME NEW m, Wait(m) \/ Reuse(m) \/ CollectLimits(m) \/ Reap(m)
        PROVE  Agreed'
    BY Zenon, <1>1, <2>2 DEF Wait, Reuse, CollectLimits, Reap, events
  <2> QED
    BY Zenon, <1>5, <2>1, <2>2 DEF Counting
<1>6. ASSUME NEW m \in Members, Publish(m) \/ Depart(m) \/ Forget(m)
      PROVE  Agreed'
  BY Zenon, <1>6, AgreedMembership DEF Publish, Depart, Forget, Leave
<1>7. ASSUME NEW m \in Members, Abort(m)
      PROVE  Agreed'
  BY Zenon, <1>1, <1>7 DEF Abort, events
<1>8. ASSUME NEW m \in Members, NEW b \in BOOLEAN, Halt(m, b)
      PROVE  Agreed'
  <2> DEFINE s == IF task[m] = "live" THEN Chain(at[m]) ELSE {}
  <2>1. /\ stopped' = Add(stopped, s, IF b THEN 1 ELSE -1) /\ populated' = populated
        /\ effective' = effective /\ Report(s, {})
    BY ZenonT(30), <1>8 DEF Halt, Frozen
  <2> HIDE DEF s
  <2>2. \A g \in Groups : g \notin s => stopped'[g] = stopped[g] /\ populated'[g] = populated[g]
    BY SMTT(30), <2>1 DEF Add, TypeOK
  <2> QED
    BY Zenon, <2>1, <2>2, AgreedReport
<1>9. ASSUME NEW g \in Groups, NEW b \in BOOLEAN, WriteFreeze(g, b)
      PROVE  Agreed'
  BY ZenonT(30), <1>9 DEF WriteFreeze, Report, Agreed, TypeOK
<1>10. ASSUME NEW w \in Watched, ReadEvents(w)
       PROVE  Agreed'
  BY Zenon, <1>1, <1>10 DEF ReadEvents
<1>11. CASE Look
  BY ZenonT(30), <1>1, <1>11 DEF Look, events
<1>12. CASE Execs
  <2>1. ASSUME NEW m \in Members, NEW l \in Members,
               ExecBegin(m, l) \/ ExecPublish(m, l) \/ ExecDies(m, l) \/ Replace(l)
        PROVE  Agreed'
    BY Zenon, <2>1, AgreedMembership DEF ExecBegin, ExecPublish, ExecDies, Replace, Leave
  <2> QED
    BY Zenon, <1>12, <2>1 DEF Execs
<1> QED
  BY ZenonT(30), <1>2, <1>3, <1>4, <1>5, <1>6, <1>7, <1>8, <1>9, <1>10, <1>11, <1>12 DEF Next, Step

(* What writes effective_freeze.                                           *)
LEMMA EffectiveChange ==
    ASSUME Next
    PROVE  \/ effective' = effective
           \/ \E g \in Groups : Mkdir(g)
           \/ \E g \in Groups, b \in BOOLEAN : WriteFreeze(g, b)
<1>1. ASSUME NEW g, Mount \/ Rmdir(g) \/ Enable(g) \/ Disable(g)
      PROVE  effective' = effective
  BY Zenon, <1>1 DEF Mount, Rmdir, Enable, Disable
<1>2. ASSUME NEW p, NEW c, NEW g, NEW thread, Reserve(p, c, g, thread) \/ Refuse(p, g)
      PROVE  effective' = effective
  BY Zenon, <1>2 DEF Reserve, Refuse
<1>3. CASE Births
  BY Zenon, <1>2, <1>3 DEF Births, Fork, CloneInto, ForkRefused, CloneRefused
<1>4. ASSUME NEW m, NEW g, WriteThreads(m) \/ WriteProcs(m, g) \/ Move(m)
      PROVE  effective' = effective
  BY Zenon, <1>4 DEF WriteThreads, WriteProcs, Move, MembershipChange
<1>5. ASSUME NEW g, NEW n, ReadCurrent \/ ReadFailures(g) \/ WriteMax(g, n)
      PROVE  effective' = effective
  BY Zenon, <1>5 DEF ReadCurrent, ReadFailures, WriteMax
<1>6. ASSUME NEW m, Wait(m) \/ Reuse(m) \/ CollectLimits(m) \/ Reap(m)
      PROVE  effective' = effective
  BY Zenon, <1>6 DEF Wait, Reuse, CollectLimits, Reap
<1>7. ASSUME NEW m, NEW b, Publish(m) \/ Abort(m) \/ Depart(m) \/ Forget(m) \/ Halt(m, b)
      PROVE  effective' = effective
  BY Zenon, <1>7 DEF Publish, Abort, Depart, Forget, Leave, Halt, Frozen, MembershipChange
<1>8. ASSUME NEW w, ReadEvents(w) \/ Look
      PROVE  effective' = effective
  BY Zenon, <1>8 DEF ReadEvents, Look
<1>9. CASE Execs
  <2>1. ASSUME NEW m, NEW l, ExecBegin(m, l) \/ ExecPublish(m, l) \/ ExecDies(m, l) \/ Replace(l)
        PROVE  effective' = effective
    BY Zenon, <2>1 DEF ExecBegin, ExecPublish, ExecDies, Replace, Leave, MembershipChange
  <2> QED
    BY Zenon, <1>9, <2>1 DEF Execs
<1> QED
  BY SMTT(30), <1>1, <1>3, <1>4, <1>5, <1>6, <1>7, <1>8, <1>9
     DEF Next, Step, Directories, Migration, Counting

(* Every step keeps the effective state what the ancestors' controls say.  *)
LEMMA EffectiveNext ==
    ASSUME TypeOK, Places, Effective, Next
    PROVE  Effective'
<1>1. ASSUME NEW g \in Groups, Mkdir(g)
      PROVE  Effective'
  <2>1. /\ dir' = [dir EXCEPT ![g] = "live"] /\ freeze' = freeze
        /\ effective' = [effective EXCEPT ![g] = Freezing(g, freeze)]
    BY Zenon, <1>1 DEF Mkdir
  <2> SUFFICES ASSUME NEW h \in Groups
               PROVE  IF dir'[h] = "absent" THEN ~effective'[h]
                      ELSE effective'[h] <=> Freezing(h, freeze)
    BY Zenon, <2>1 DEF Effective
  <2>2. CASE h = g
    <3>1. dir'[h] = "live" /\ effective'[h] = Freezing(h, freeze)
      BY SMTT(30), <2>1, <2>2 DEF TypeOK
    <3> QED
      BY <3>1, Zenon
  <2>3. CASE h # g
    BY SMTT(30), <2>1, <2>3 DEF Effective, TypeOK
  <2> QED
    BY Zenon, <2>2, <2>3
<1>2. ASSUME NEW g \in Groups, NEW b \in BOOLEAN, WriteFreeze(g, b)
      PROVE  Effective'
  <2>1. dir' = dir
    BY Zenon, <1>2 DEF WriteFreeze
  <2> SUFFICES ASSUME NEW h \in Groups
               PROVE  IF dir[h] = "absent" THEN ~effective'[h]
                      ELSE effective'[h] <=> Freezing(h, freeze')
    BY Zenon, <2>1 DEF Effective
  <2>2. effective'[h] = IF dir[h] = "absent" THEN effective[h] ELSE Freezing(h, freeze')
    BY Zenon, <1>2 DEF WriteFreeze
  <2>3. CASE dir[h] = "absent"
    BY Zenon, <2>2, <2>3 DEF Effective
  <2>4. CASE dir[h] # "absent"
    <3>1. effective'[h] = Freezing(h, freeze')
      BY SMTT(30), <2>2, <2>4
    <3> QED
      BY <2>4, <3>1, Zenon
  <2> QED
    BY Zenon, <2>3, <2>4
<1>3. CASE Mount
  <2>1. Root \in Groups /\ ~freeze[Root] /\ Chain(Root) = {Root}
    BY SMTT(30), <1>3, CgroupAssumption DEF Mount, Places, Chain
  <2>2. ~Freezing(Root, freeze) /\ ~effective[Root]
    BY Zenon, <1>3, <2>1 DEF Mount, Freezing, Effective
  <2> QED
    BY <1>3, <2>1, <2>2, SMTT(20) DEF Mount, Effective, TypeOK
<1>4. ASSUME NEW g \in Groups, Rmdir(g)
      PROVE  Effective'
  BY Zenon, <1>4 DEF Rmdir, Effective, TypeOK
<1>5. CASE dir' = dir /\ freeze' = freeze /\ effective' = effective
  BY Zenon, <1>5 DEF Effective
<1>6. ASSUME NEW g \in Groups, NEW n, Enable(g) \/ Disable(g) \/ WriteMax(g, n)
      PROVE  dir' = dir /\ freeze' = freeze /\ effective' = effective
  BY Zenon, <1>6 DEF Enable, Disable, WriteMax
<1>7. CASE UNCHANGED groups
  <2>1. dir' = dir /\ freeze' = freeze
    BY Zenon, <1>7 DEF groups
  <2> QED
    BY Zenon, <1>1, <1>2, <1>5, <2>1, EffectiveChange
<1> QED
  BY SMTT(30), <1>1, <1>2, <1>3, <1>4, <1>5, <1>6, <1>7, GroupsChange DEF Directories

(* Every step tells the members that a step concerns.                      *)
LEMMA ToldNext ==
    ASSUME TypeOK, Places, Effective, Told, Next
    PROVE  Told'
<1>1. CASE at' = at /\ freezing' = freezing /\ freeze' = freeze
  BY Zenon, <1>1 DEF Told
<1>2. ASSUME NEW m \in Members, NEW g, at' = [at EXCEPT ![m] = g],
             freezing' = [freezing EXCEPT ![m] = Freezing(g, freeze)], freeze' = freeze
      PROVE  Told'
  <2> SUFFICES ASSUME NEW x \in Members
               PROVE  freezing'[x] <=> Freezing(at'[x], freeze)
    BY Zenon, <1>2 DEF Told
  <2>1. CASE x = m
    <3>1. freezing'[x] = Freezing(at'[x], freeze)
      BY SMTT(30), <1>2, <2>1 DEF TypeOK
    <3> QED
      BY <3>1, ZenonT(30)
  <2>2. CASE x # m
    <3>1. freezing'[x] = freezing[x] /\ at'[x] = at[x]
      BY SMTT(30), <1>2, <2>2 DEF TypeOK
    <3> QED
      BY ZenonT(30), <3>1 DEF Told
  <2> QED
    BY Zenon, <2>1, <2>2
<1>3. ASSUME NEW m \in Members, at' = [at EXCEPT ![m] = None],
             freezing' = [freezing EXCEPT ![m] = FALSE], freeze' = freeze
      PROVE  Told'
  <2>1. ~Freezing(None, freeze)
    BY Zenon DEF Freezing, Chain
  <2>2. ASSUME NEW x \in Members
        PROVE  freezing'[x] <=> Freezing(at'[x], freeze)
    BY SMTT(30), <1>3, <2>1 DEF Told, TypeOK
  <2> QED
    BY Zenon, <1>3, <2>2 DEF Told
<1>4. CASE Directories
  <2>1. CASE Mount
    <3>1. Root \in Groups /\ ~freeze[Root] /\ Chain(Root) = {Root}
      BY SMTT(30), <2>1, CgroupAssumption DEF Mount, Places, Chain
    <3>2. ~Freezing(Root, freeze) /\ ~Freezing(None, freeze)
      BY Zenon, <3>1 DEF Freezing, Chain
    <3>3. \A m \in Members : at[m] = None
      BY Zenon, <2>1, Unmounted DEF Mount
    <3> QED
      BY ZenonT(30), <2>1, <3>2, <3>3 DEF Mount, Told
  <2>2. ASSUME NEW g \in Groups, Mkdir(g) \/ Rmdir(g) \/ Enable(g) \/ Disable(g)
        PROVE  Told'
    BY Zenon, <1>1, <2>2 DEF Mkdir, Rmdir, Enable, Disable, births
  <2> QED
    BY Zenon, <1>4, <2>1, <2>2 DEF Directories
<1>5. CASE Births
  <2>1. ASSUME NEW p \in Members, NEW c \in Members, NEW g, NEW thread, Reserve(p, c, g, thread)
        PROVE  Told'
    <3>1. /\ at' = [at EXCEPT ![c] = g] /\ freeze' = freeze
          /\ freezing' = [freezing EXCEPT ![c] = Freezing(g, freeze)]
      BY Zenon, <2>1 DEF Reserve, groups
    <3> QED
      BY <1>2, <3>1, Zenon
  <2>2. ASSUME NEW p, NEW g, Refuse(p, g)
        PROVE  Told'
    BY Zenon, <1>1, <2>2 DEF Refuse, groups, births
  <2> QED
    BY Zenon, <1>5, <2>1, <2>2 DEF Births, Fork, CloneInto, ForkRefused, CloneRefused
<1>6. CASE Migration
  <2>1. ASSUME NEW m, NEW g, WriteThreads(m) \/ WriteProcs(m, g)
        PROVE  Told'
    BY Zenon, <1>1, <2>1 DEF WriteThreads, WriteProcs, groups, births
  <2>2. ASSUME NEW m \in Members, Move(m)
        PROVE  Told'
    <3>1. /\ at' = [at EXCEPT ![m] = lock.to] /\ freeze' = freeze
          /\ freezing' = [freezing EXCEPT ![m] = Freezing(lock.to, freeze)]
      BY Zenon, <2>2 DEF Move, groups
    <3> QED
      BY <1>2, <3>1, Zenon
  <2> QED
    BY Zenon, <1>6, <2>1, <2>2 DEF Migration
<1>7. CASE Counting
  <2>1. ASSUME NEW g, NEW n, ReadCurrent \/ ReadFailures(g) \/ WriteMax(g, n)
        PROVE  Told'
    BY Zenon, <1>1, <2>1 DEF ReadCurrent, ReadFailures, WriteMax, groups, births
  <2>2. ASSUME NEW m \in Members, Wait(m) \/ Reuse(m) \/ CollectLimits(m)
        PROVE  Told'
    BY Zenon, <1>1, <2>2 DEF Wait, Reuse, CollectLimits, groups, births
  <2>3. ASSUME NEW m \in Members, Reap(m)
        PROVE  Told'
    BY Zenon, <1>3, <2>3 DEF Reap, Discard, groups
  <2> QED
    BY Zenon, <1>7, <2>1, <2>2, <2>3 DEF Counting
<1>8. ASSUME NEW m \in Members, NEW b, Publish(m) \/ Depart(m) \/ Halt(m, b)
      PROVE  Told'
  BY Zenon, <1>1, <1>8 DEF Publish, Depart, Halt, groups, births
<1>9. ASSUME NEW m \in Members, Abort(m) \/ Forget(m) \/ Replace(m)
      PROVE  Told'
  BY Zenon, <1>3, <1>9 DEF Abort, Forget, Replace, Leave, Discard, groups
<1>10. ASSUME NEW g \in Groups, NEW b \in BOOLEAN, WriteFreeze(g, b)
       PROVE  Told'
  <2>0. at' = at
    BY Zenon, <1>10 DEF WriteFreeze, births
  <2> SUFFICES ASSUME NEW m \in Members
               PROVE  freezing'[m] <=> Freezing(at[m], freeze')
    BY Zenon, <2>0 DEF Told
  <2>1. freezing'[m] <=> at[m] # None /\ effective'[at[m]]
    <3>1. freezing' = [x \in Members |-> at[x] # None /\ effective'[at[x]]]
      BY <1>10, Zenon DEF WriteFreeze
    <3> QED
      BY <3>1, Zenon
  <2>2. CASE at[m] = None
    <3>1. ~Freezing(None, freeze')
      BY Zenon DEF Freezing, Chain
    <3> QED
      BY Zenon, <2>1, <2>2, <3>1
  <2>3. CASE at[m] # None
    <3>1. at[m] \in Groups /\ dir[at[m]] # "absent" /\ dir' = dir
      BY ZenonT(30), <1>10, <2>3 DEF TypeOK, Places, WriteFreeze
    <3>2. Effective'
      BY Zenon, EffectiveNext
    <3> QED
      BY SMTT(30), <2>1, <2>3, <3>1, <3>2 DEF Effective
  <2> QED
    BY Zenon, <2>2, <2>3
<1>11. ASSUME NEW w \in Watched, ReadEvents(w)
       PROVE  Told'
  <2>1. at' = at /\ freezing' = freezing /\ freeze' = freeze
    BY Zenon, <1>11 DEF ReadEvents, groups, births
  <2> QED
    BY Zenon, <1>1, <2>1
<1>12. CASE Look
  <2>1. at' = at /\ freezing' = freezing /\ freeze' = freeze
    BY Zenon, <1>12 DEF Look, groups, births
  <2> QED
    BY Zenon, <1>1, <2>1
<1>13. CASE Execs
  <2>1. ASSUME NEW m \in Members, NEW l \in Members, ExecBegin(m, l) \/ ExecPublish(m, l)
        PROVE  Told'
    BY Zenon, <1>1, <2>1 DEF ExecBegin, ExecPublish, groups
  <2>2. ASSUME NEW m \in Members, NEW l \in Members, ExecDies(m, l)
        PROVE  Told'
    BY Zenon, <1>3, <2>2 DEF ExecDies, groups
  <2> QED
    BY Zenon, <1>9, <1>13, <2>1, <2>2 DEF Execs
<1> QED
  BY ZenonT(30), <1>4, <1>5, <1>6, <1>7, <1>8, <1>9, <1>10, <1>11, <1>12, <1>13 DEF Next, Step

-----------------------------------------------------------------------------
\* The reader of cgroup.events.

\* A step that changes nothing cgroup.events shows leaves readers up to date.
LEMMA WatchingQuiet ==
    ASSUME Watching, UNCHANGED <<ready, dir, seen, populated, frozen>>
    PROVE  Watching'
BY Zenon DEF Watching, Shown

\* A report makes the readers ready whose group changes visibly.
LEMMA WatchingReport ==
    ASSUME TypeOK, Watching, NEW s, NEW c, Report(s, c), seen' = seen, dir' = dir,
           \A w \in Watched : w \notin c => (populated'[w] # 0) = (populated[w] # 0)
    PROVE  Watching'
<1> SUFFICES ASSUME NEW w \in Watched, ~ready'[w]
             PROVE  dir'[w] = "live" /\ seen'[w] = Shown(w)'
  BY Zenon DEF Watching
<1>1. ready'[w] <=> ready[w] \/ w \in c \/ (w \in s /\ frozen'[w] # frozen[w])
  <2>1. ready'[w] = (ready[w] \/ w \in c \/ (w \in s /\ frozen'[w] # frozen[w]))
    BY Zenon DEF Report
  <2> QED
    BY <2>1, Zenon
<1>2. w \in Groups /\ (w \notin s => frozen'[w] = frozen[w])
  BY Zenon, CgroupAssumption DEF Report
<1>3. ~ready[w] /\ frozen'[w] = frozen[w] /\ (populated'[w] # 0) = (populated[w] # 0)
  BY Zenon, <1>1, <1>2
<1>4. Shown(w)' = Shown(w)
  BY Zenon, <1>3 DEF Shown
<1> QED
  BY Zenon, <1>3, <1>4 DEF Watching

\* membership_change reports the groups that become populated or empty.
LEMMA WatchingMembership ==
    ASSUME TypeOK, Counts, Counts', Watching, NEW m \in Members, NEW old, NEW next,
           MembershipChange(m, old, next), seen' = seen, dir' = dir
    PROVE  Watching'
<1> DEFINE out == Chain(old) \ Chain(next)
           in == Chain(next) \ Chain(old)
           c == {g \in out : populated[g] = 1} \cup {g \in in : populated[g] = 0}
<1>1. Report(out \cup in, c) /\ populated' = Add(Add(populated, out, -1), in, 1)
  BY Zenon DEF MembershipChange
<1>2. ASSUME NEW w \in Watched, w \notin c
      PROVE  (populated'[w] # 0) = (populated[w] # 0)
  <2>1. w \in Groups /\ populated[w] \in Nat /\ populated'[w] \in Nat
    <3>1. w \in Groups /\ Live' \in SUBSET Members
      BY Zenon, CgroupAssumption DEF Live
    <3>2. populated' \in [Groups -> Nat]
      BY Zenon, <3>1, TallyType DEF Counts
    <3>3. populated \in [Groups -> Nat]
      BY Zenon, CountsTyped
    <3> QED
      BY Zenon, <3>1, <3>2, <3>3
  <2>2. ~(w \in out /\ w \in in)
    BY Zenon
  <2>3. populated'[w] = populated[w] + (IF w \in out THEN -1 ELSE 0) + (IF w \in in THEN 1 ELSE 0)
    <3> HIDE DEF out, in
    <3> QED
      BY Zenon, <1>1, <2>1 DEF Add
  <2>4. (w \in out => populated[w] # 1) /\ (w \in in => populated[w] # 0)
    BY Zenon, <1>2
  <2> HIDE DEF out, in, c
  <2> QED
    BY SMTT(30), <2>1, <2>2, <2>3, <2>4
<1> HIDE DEF out, in, c
<1> QED
  BY Zenon, <1>1, <1>2, WatchingReport

(* Every step that changes what cgroup.events shows makes it ready.        *)
LEMMA WatchingNext ==
    ASSUME TypeOK, Places, Counts, Counts', Watching, Next
    PROVE  Watching'
<1>1. CASE Directories
  <2>1. CASE Mount
    <3> SUFFICES ASSUME NEW w \in Watched, ~ready[w]
                 PROVE  dir'[w] = "live" /\ seen[w] = Shown(w)'
      BY ZenonT(30), <2>1 DEF Mount, Watching
    <3>1. w \in Groups /\ w # Root
      BY SMTT(30), <2>1, CgroupAssumption DEF Mount, Watching
    <3>2. dir'[w] = dir[w] /\ populated'[w] = populated[w] /\ frozen'[w] = frozen[w]
      BY SMTT(30), <2>1, <3>1 DEF Mount, TypeOK
    <3> QED
      BY Zenon, <3>2 DEF Watching, Shown
  <2>2. ASSUME NEW g \in Groups, Mkdir(g)
        PROVE  Watching'
    <3> SUFFICES ASSUME NEW w \in Watched, ~ready[w]
                 PROVE  dir'[w] = "live" /\ seen[w] = Shown(w)'
      BY ZenonT(30), <2>2 DEF Mkdir, Watching
    <3>1. w \in Groups /\ w # g
      BY SMTT(30), <2>2, CgroupAssumption DEF Mkdir, Watching
    <3>2. dir'[w] = dir[w] /\ populated'[w] = populated[w] /\ frozen'[w] = frozen[w]
      BY SMTT(30), <2>2, <3>1 DEF Mkdir, TypeOK
    <3> QED
      BY Zenon, <3>2 DEF Watching, Shown
  <2>3. ASSUME NEW g \in Groups, Rmdir(g)
        PROVE  Watching'
    <3> SUFFICES ASSUME NEW w \in Watched, ~ready'[w]
                 PROVE  dir'[w] = "live" /\ seen[w] = Shown(w)'
      BY Zenon, <2>3 DEF Rmdir, Watching
    <3>1. w \in Groups /\ w # g /\ ~ready[w]
      <4>1. ready'[w] = (ready[w] \/ w = g)
        BY Zenon, <2>3 DEF Rmdir
      <4>2. ~(ready[w] \/ w = g)
        BY <4>1, ZenonT(30)
      <4> QED
        BY Zenon, <4>2, CgroupAssumption
    <3>2. dir'[w] = dir[w] /\ populated'[w] = populated[w] /\ frozen'[w] = frozen[w]
      BY SMTT(30), <2>3, <3>1 DEF Rmdir, TypeOK
    <3> QED
      BY Zenon, <3>1, <3>2 DEF Watching, Shown
  <2>4. ASSUME NEW g \in Groups, Enable(g) \/ Disable(g)
        PROVE  Watching'
    BY Zenon, <2>4, WatchingQuiet DEF Enable, Disable, events
  <2> QED
    BY SMTT(30), <1>1, <2>1, <2>2, <2>3, <2>4 DEF Directories
<1>2. CASE Births
  <2>1. ASSUME NEW p, NEW c, NEW g, NEW thread, Reserve(p, c, g, thread) \/ Refuse(p, g)
        PROVE  Watching'
    BY Zenon, <2>1, WatchingQuiet DEF Reserve, Refuse, groups, events
  <2> QED
    BY Zenon, <1>2, <2>1 DEF Births, Fork, CloneInto, ForkRefused, CloneRefused
<1>3. CASE Migration
  <2>1. ASSUME NEW m, NEW g, WriteThreads(m) \/ WriteProcs(m, g)
        PROVE  Watching'
    BY Zenon, <2>1, WatchingQuiet DEF WriteThreads, WriteProcs, groups, events
  <2>2. ASSUME NEW m \in Members, Move(m)
        PROVE  Watching'
    <3>1. MembershipChange(m, at[m], lock.to) /\ seen' = seen /\ dir' = dir
      BY Zenon, <2>2 DEF Move, groups
    <3> QED
      BY Zenon, <3>1, WatchingMembership
  <2> QED
    BY Zenon, <1>3, <2>1, <2>2 DEF Migration
<1>4. CASE Counting
  <2>1. ASSUME NEW g, NEW n, ReadCurrent \/ ReadFailures(g) \/ WriteMax(g, n)
        PROVE  Watching'
    BY Zenon, <2>1, WatchingQuiet DEF ReadCurrent, ReadFailures, WriteMax, groups, events
  <2>2. ASSUME NEW m, Wait(m) \/ Reuse(m) \/ CollectLimits(m) \/ Reap(m)
        PROVE  Watching'
    BY Zenon, <2>2, WatchingQuiet DEF Wait, Reuse, CollectLimits, Reap, groups, events
  <2> QED
    BY Zenon, <1>4, <2>1, <2>2 DEF Counting
<1>5. ASSUME NEW m \in Members, Publish(m)
      PROVE  Watching'
  <2>1. MembershipChange(m, None, at[m]) /\ seen' = seen /\ dir' = dir
    BY Zenon, <1>5 DEF Publish, groups
  <2> QED
    BY Zenon, <2>1, WatchingMembership
<1>6. ASSUME NEW m \in Members, Depart(m) \/ Forget(m)
      PROVE  Watching'
  <2>1. MembershipChange(m, at[m], None) /\ seen' = seen /\ dir' = dir
    BY Zenon, <1>6 DEF Depart, Forget, Leave, groups
  <2> QED
    BY Zenon, <2>1, WatchingMembership
<1>7. ASSUME NEW m \in Members, Abort(m)
      PROVE  Watching'
  BY Zenon, <1>7, WatchingQuiet DEF Abort, groups, events
<1>8. ASSUME NEW m \in Members, NEW b \in BOOLEAN, Halt(m, b)
      PROVE  Watching'
  <2>1. PICK s : Report(s, {}) /\ seen' = seen /\ dir' = dir /\ populated' = populated
    BY Zenon, <1>8 DEF Halt, Frozen, groups
  <2> QED
    BY Zenon, <2>1, WatchingReport
<1>9. ASSUME NEW g \in Groups, NEW b \in BOOLEAN, WriteFreeze(g, b)
      PROVE  Watching'
  <2>1. PICK s : Report(s, {}) /\ seen' = seen /\ dir' = dir /\ populated' = populated
    BY Zenon, <1>9 DEF WriteFreeze
  <2> QED
    BY <2>1, WatchingReport
<1>10. ASSUME NEW r \in Watched, ReadEvents(r)
       PROVE  Watching'
  <2>1. /\ dir[r] = "live" /\ seen' = [seen EXCEPT ![r] = Shown(r)]
        /\ ready' = [ready EXCEPT ![r] = FALSE]
        /\ UNCHANGED <<dir, populated, frozen>>
    BY Zenon, <1>10 DEF ReadEvents, Shown, groups
  <2>2. \A w : Shown(w)' = Shown(w)
    BY Zenon, <2>1 DEF Shown
  <2> QED
    BY SMTT(30), <2>1, <2>2 DEF Watching, TypeOK
<1>11. CASE Look
  BY Zenon, <1>11, WatchingQuiet DEF Look, groups, events
<1>12. CASE Execs
  <2>1. ASSUME NEW m \in Members, NEW l \in Members,
               ExecBegin(m, l) \/ ExecPublish(m, l) \/ ExecDies(m, l) \/ Replace(l)
        PROVE  Watching'
    <3>1. /\ seen' = seen /\ dir' = dir
          /\ \E x \in Members : \E old, next : MembershipChange(x, old, next)
      BY Zenon, <2>1 DEF ExecBegin, ExecPublish, ExecDies, Replace, Leave, groups
    <3> QED
      BY Zenon, <3>1, WatchingMembership
  <2> QED
    BY Zenon, <1>12, <2>1 DEF Execs
<1> QED
  BY ZenonT(30), <1>1, <1>2, <1>3, <1>4, <1>5, <1>6, <1>7, <1>8, <1>9, <1>10, <1>11, <1>12
     DEF Next, Step

-----------------------------------------------------------------------------
\* The inductive invariant.

\* The hierarchy begins unmounted, with one task that is charged to nobody.
LEMMA InitInv == Init => IInv
<1> SUFFICES ASSUME Init
             PROVE  IInv
  BY Zenon
<1>1. TypeOK
  <2>1. lock \in [op : {"free", "move", "exec"}, to : Groups \cup {None}, left : SUBSET Members]
    BY Zenon DEF Init, Free
  <2>2. /\ task \in [Members -> {"none", "reserved", "live", "exec", "departed"}]
        /\ process \in [Members -> Members \cup {None}]
        /\ counted \in [Members -> BOOLEAN]
    BY Zenon DEF Init
  <2>3. /\ dir \in [Groups -> {"absent", "live", "removed"}]
        /\ max \in [Groups -> Limits \cup {None}]
        /\ charged \in [Groups -> Int] /\ populated \in [Groups -> Int] /\ stopped \in [Groups -> Int]
        /\ seen \in [Watched -> {Unread} \cup [populated : BOOLEAN, frozen : BOOLEAN]]
    BY DEF Init
  <2>4. /\ subtree \in [Groups -> BOOLEAN] /\ freeze \in [Groups -> BOOLEAN]
        /\ effective \in [Groups -> BOOLEAN] /\ frozen \in [Groups -> BOOLEAN]
        /\ refused \in SUBSET Groups /\ writes \in Menus
        /\ ready \in [Watched -> BOOLEAN]
    BY Zenon DEF Init
  <2>5. /\ freezing \in [Members -> BOOLEAN] /\ halted \in [Members -> BOOLEAN]
        /\ zombie \in [Members -> BOOLEAN] /\ maker \in [Members -> Members \cup {None}]
        /\ at \in [Members -> Groups \cup {None}]
    BY Zenon DEF Init
  <2>6. used \in BOOLEAN /\ dirty \in BOOLEAN
    BY Zenon DEF Init
  <2> QED
    BY <2>1, <2>2, <2>3, <2>4, <2>5, <2>6, Zenon DEF TypeOK
<1>2. Places
  <2>1. \A m \in Members : task[m] = "none" => at[m] = None /\ ~counted[m]
    <3> SUFFICES ASSUME NEW m \in Members, task[m] = "none"
                 PROVE  at[m] = None /\ ~counted[m]
      BY Zenon
    <3>1. m # Leader /\ at[m] = None
      BY Zenon DEF Init
    <3>2. counted = [x \in Members |-> x = Leader]
      BY Zenon DEF Init
    <3>3. ~counted[m]
      BY <3>1, <3>2, Zenon
    <3> QED
      BY Zenon, <3>1, <3>3
  <2>2. \A g \in Groups : dir[g] = "absent" /\ ~freeze[g] /\ max[g] = None
    BY Zenon DEF Init
  <2>3. \A m \in Members : task[m] # "exec" /\ at[m] = None /\ ~zombie[m] /\ ~halted[m]
    BY Zenon DEF Init
  <2> QED
    BY Zenon, <2>1, <2>2, <2>3, CgroupAssumption DEF Init, Places
<1>3. Counts
  <2>1. dir[Root] = "absent"
    BY Zenon, CgroupAssumption DEF Init
  <2>2. /\ Live \in SUBSET Members /\ Stopped \in SUBSET Members /\ Charged \in SUBSET Members
    BY Zenon DEF Live, Stopped, Charged
  <2> QED
    BY SMTT(30), <1>1, <1>2, <2>1, <2>2, Unmounted DEF Init, Counts
<1>4. Rooted /\ Limited
  BY Zenon, CgroupAssumption DEF Init, Rooted, Limited
<1>5. Effective
  BY Zenon DEF Init, Effective
<1>6. Told
  <2>1. ~Freezing(None, freeze)
    BY Zenon DEF Freezing, Chain
  <2> QED
    BY Zenon, <2>1 DEF Init, Told
<1>7. Agreed
  BY Zenon DEF Init, Agreed
<1>8. Watching
  BY Zenon DEF Init, Watching
<1> QED
  BY SMTT(30), <1>1, <1>2, <1>3, <1>4, <1>5, <1>6, <1>7, <1>8 DEF IInv

\* No operation of cgroup.c leaves the inductive invariant.
LEMMA StepInv == IInv /\ [Next]_vars => IInv'
<1> SUFFICES ASSUME IInv, [Next]_vars
             PROVE  IInv'
  BY Zenon
<1>1. CASE Next
  <2>1. TypeOK' /\ Places' /\ Counts'
    BY Zenon, <1>1, TypeNext, PlacesNext, CountsNext DEF IInv
  <2>2. Rooted' /\ Limited'
    BY Zenon, <1>1, RootedNext, LimitedNext DEF IInv
  <2>3. Effective' /\ Told' /\ Agreed'
    BY Zenon, <1>1, EffectiveNext, ToldNext, AgreedNext DEF IInv
  <2>4. Watching'
    BY Zenon, <1>1, <2>1, WatchingNext DEF IInv
  <2> QED
    BY Zenon, <2>1, <2>2, <2>3, <2>4 DEF IInv
<1>2. CASE UNCHANGED vars
  <2> USE <1>2 DEF vars, groups, pids, events, births, wakeup
  <2>1. TypeOK'
    BY Zenon DEF IInv, TypeOK
  <2>2. Places'
    BY Zenon DEF IInv, Places, AttachAllowed, Live
  <2>3. Counts'
    <3>1. Uncounted
      BY Zenon DEF Uncounted
    <3> QED
      BY Zenon, <3>1, CountsQuiet DEF IInv
  <2>4. Rooted' /\ Limited'
    BY Zenon DEF IInv, Rooted, Limited, Enabled, Available
  <2>5. Effective' /\ Told' /\ Agreed'
    BY Zenon DEF IInv, Effective, Told, Agreed
  <2>6. Watching'
    BY Zenon, WatchingQuiet DEF IInv
  <2> QED
    BY ZenonT(30), <2>1, <2>2, <2>3, <2>4, <2>5, <2>6 DEF IInv
<1> QED
  BY Zenon, <1>1, <1>2

(* The fields of groups and members that the operations of cgroup.c and    *)
(* task_registry.c keep in step with each other stay so: IInv is inductive *)
(* and holds from the first state on.                                      *)
THEOREM Invariance == Spec => []IInv
BY InitInv, StepInv, PTL DEF Spec

(* The counters that membership_change, pids_reserve, pids_uncharge,       *)
(* pids_reconcile and md_cgroup_member_frozen keep along ->parent are the  *)
(* numbers of charged, published and stopped members below each group.     *)
THEOREM CountersExact == Spec => []CountsExact
<1>1. IInv => CountsExact
  <2>1. ASSUME NEW S, NEW g \in Groups
        PROVE  Tally(S, at)[g] = Cardinality(Below(g, S))
    BY Zenon DEF Tally, Below
  <2> QED
    BY Zenon, <2>1 DEF IInv, Counts, CountsExact, Charged, Stopped
<1> QED
  BY <1>1, Invariance, PTL

(* frozen_event reports a group frozen exactly when it, or an ancestor, is *)
(* told to freeze and every task below it has stopped; m->freezing says    *)
(* the same to each member, wherever it was moved.                         *)
THEOREM FreezerIsExact == Spec => []FreezerExact
<1>1. IInv => FreezerExact
  <2> SUFFICES ASSUME IInv
               PROVE  FreezerExact
    BY Zenon
  <2>1. ASSUME NEW g \in Groups
        PROVE  stopped[g] = populated[g] <=> \A m \in Below(g, Live) : halted[m]
    <3> DEFINE live == Below(g, Live)
               some == Below(g, Stopped)
    <3>1. stopped[g] = Cardinality(some) /\ populated[g] = Cardinality(live)
      BY Zenon DEF IInv, Counts, Tally, Below
    <3>2. some \subseteq live /\ IsFiniteSet(live)
      <4>1. Live \in SUBSET Members /\ Stopped \subseteq Live
        BY Zenon DEF Live, Stopped
      <4>2. some \subseteq live
        BY Zenon, <4>1 DEF Below
      <4>3. live \subseteq Members /\ IsFiniteSet(Members)
        BY Zenon, <4>1, CgroupAssumption DEF Below
      <4>4. IsFiniteSet(live)
        BY Zenon, <4>3, FS_Subset
      <4> QED
        BY Zenon, <4>2, <4>4
    <3>3. (\A m \in live : halted[m]) <=> some = live
      BY Zenon DEF Below, Stopped
    <3> HIDE DEF live, some
    <3>4. Cardinality(some) = Cardinality(live) <=> some = live
      BY ZenonT(30), <3>2, FS_Subset
    <3> QED
      BY Zenon, <3>1, <3>3, <3>4 DEF live
  <2>2. ASSUME NEW g \in Groups, dir[g] # "absent"
        PROVE  /\ effective[g] = Freezing(g, freeze)
               /\ frozen[g] <=> effective[g] /\ \A m \in Below(g, Live) : halted[m]
    <3>1. Freezing(g, freeze) \in BOOLEAN /\ effective[g] \in BOOLEAN
      BY Zenon DEF Freezing, IInv, TypeOK
    <3>2. effective[g] <=> Freezing(g, freeze)
      BY Zenon, <2>2 DEF IInv, Effective
    <3>3. effective[g] = Freezing(g, freeze)
      BY Zenon, <3>1, <3>2
    <3> QED
      BY SMTT(30), <2>1, <3>3 DEF IInv, Agreed
  <2>3. ASSUME NEW m \in Members
        PROVE  freezing[m] = Freezing(at[m], freeze)
    <3>1. Freezing(at[m], freeze) \in BOOLEAN /\ freezing[m] \in BOOLEAN
      BY Zenon DEF Freezing, IInv, TypeOK
    <3>2. freezing[m] <=> Freezing(at[m], freeze)
      BY Zenon DEF IInv, Told
    <3> QED
      BY Zenon, <3>1, <3>2
  <2> QED
    BY Zenon, <2>2, <2>3 DEF FreezerExact
<1> QED
  BY <1>1, Invariance, PTL

\* A task that was not in a group before a step, and keeps it after the step,
\* found another one there, may be there, or returns from an exec.
LEMMA GetsInside ==
    ASSUME IInv, Next, NEW g \in Groups, Occupied(g)'
    PROVE  Occupied(g) \/ AttachAllowed(g)' \/ Returns(g)
<1>1. PICK x \in Members : Inside(x, g)'
  BY Zenon DEF Occupied, Inside
<1>2. CASE Inside(x, g)
  BY Zenon, <1>2 DEF Occupied, Inside
<1>3. CASE ~Inside(x, g)
  BY Zenon, <1>1, <1>3, Arrivals DEF IInv, Returns
<1> QED
  BY Zenon, <1>2, <1>3

(* md_cgroup_rmdir leaves no task, no reserved birth and no directory      *)
(* below a directory that is gone, and no birth and no migration comes     *)
(* there later: what does is the return of an exec (Arrivals).             *)
THEOREM RemovedStaysEmpty == Spec => RemovedIsEmpty
<1> DEFINE Empty ==
      /\ \A g \in Groups : dir'[g] # "live" /\ Occupied(g)'
             => (dir[g] # "live" /\ Occupied(g)) \/ Returns(g)
      /\ \A c \in Groups : dir'[c] = "live" => \A g \in Up[c] : dir'[g] = "live"
<1>1. IInv /\ [Next]_vars => [Empty]_vars
  <2> SUFFICES ASSUME IInv, Next
               PROVE  Empty
    BY Zenon
  <2>1. ASSUME NEW g \in Groups, dir'[g] # "live", Occupied(g)', ~Returns(g)
        PROVE  dir[g] # "live" /\ Occupied(g)
    <3>1. Occupied(g)
      BY Zenon, <2>1, GetsInside DEF AttachAllowed
    <3> QED
      BY Zenon, <2>1, <3>1, GroupsKept DEF IInv
  <2>2. Rooted'
    BY Zenon, RootedNext DEF IInv
  <2> QED
    BY Zenon, <2>1, <2>2 DEF Rooted
<1>2. Spec => [][Empty]_vars
  BY <1>1, Invariance, PTL DEF Spec
<1> QED
  BY Zenon, <1>2 DEF RemovedIsEmpty

(* attach_allowed and subtree_write let no process get inside a group that *)
(* hands controllers down, births under way included; what does is the     *)
(* return of an exec.  A limit is where a control shows it.                *)
THEOREM LeavesOnly == Spec => NoInternalProcess
<1> DEFINE Leaf == \A g \in Groups :
      /\ g # Root /\ subtree'[g] /\ Occupied(g)' => (subtree[g] /\ Occupied(g)) \/ Returns(g)
      /\ max'[g] # None /\ dir'[g] = "live" => Enabled(g)'
<1>1. IInv /\ [Next]_vars => [Leaf]_vars
  <2> SUFFICES ASSUME IInv, Next
               PROVE  Leaf
    BY Zenon
  <2>1. ASSUME NEW g \in Groups, g # Root, subtree'[g], Occupied(g)', ~Returns(g)
        PROVE  subtree[g] /\ Occupied(g)
    <3>1. Occupied(g)
      BY Zenon, <2>1, GetsInside DEF AttachAllowed
    <3> QED
      BY Zenon, <2>1, <3>1, GroupsKept DEF IInv
  <2>2. Limited'
    BY Zenon, LimitedNext DEF IInv
  <2> QED
    BY Zenon, <2>1, <2>2 DEF Limited
<1>2. Spec => [][Leaf]_vars
  BY <1>1, Invariance, PTL DEF Spec
<1> QED
  BY Zenon, <1>2 DEF NoInternalProcess

(* A poll of cgroup.events that reports nothing is right.                  *)
THEOREM QuietIsRight == Spec => []QuietMeansUnchanged
<1>1. IInv => QuietMeansUnchanged
  BY Zenon DEF IInv, Watching, Shown, QuietMeansUnchanged
<1> QED
  BY <1>1, Invariance, PTL

(* A birth, by fork or into another group, takes no group on the way to    *)
(* the root past its pids.max: pids_reserve compares every one of them.    *)
(* What does is a migration or the return of an exec, nothing else.        *)
THEOREM BirthsStayWithinLimits == Spec => BirthsRespectLimits
<1> DEFINE Within == \A g \in Groups :
      /\ charged'[g] > charged[g] /\ max[g] # None /\ dir[g] = "live"
      /\ lock.op # "move" /\ ~\E h \in Groups : Returns(h)
      => charged'[g] <= max[g]
<1>1. IInv /\ [Next]_vars => Within
  <2> SUFFICES ASSUME IInv, [Next]_vars, NEW g \in Groups, charged'[g] > charged[g],
                      lock.op # "move", ~\E h \in Groups : Returns(h), max[g] # None, dir[g] = "live"
               PROVE  charged'[g] <= max[g]
    BY Zenon
  <2>1. charged \in [Groups -> Nat] /\ max[g] \in Nat
    <3>1. charged \in [Groups -> Nat]
      BY Zenon, CountsTyped DEF IInv
    <3>2. max[g] \in Limits
      BY DEF IInv, TypeOK
    <3>3. max[g] \in Nat
      BY <3>2, CgroupAssumption, Zenon
    <3> QED
      BY Zenon, <3>1, <3>3
  <2>2. Reconciled[g] \in Int /\ Reconciled[g] <= charged[g]
    <3>1. IsFiniteSet({m \in Stale : g \in Chain(at[m])})
      <4>1. {m \in Stale : g \in Chain(at[m])} \subseteq Members /\ IsFiniteSet(Members)
        BY Zenon, CgroupAssumption DEF Stale
      <4> QED
        BY Zenon, <4>1, FS_Subset
    <3>2. Cardinality({m \in Stale : g \in Chain(at[m])}) \in Nat
      BY Zenon, <3>1, FS_CardinalityType
    <3> QED
      BY <2>1, <3>2 DEF Reconciled
  <2>3. ASSUME NEW p, NEW c, NEW h \in Groups \cup {None}, NEW thread, Reserve(p, c, h, thread)
        PROVE  charged'[g] <= max[g]
    <3>1. PICK count \in {charged, Reconciled} :
             ~Full(h, count) /\ charged' = Add(count, Chain(h), 1)
      BY Zenon, <2>3 DEF Reserve
    <3>2. count[g] \in Int /\ count[g] <= charged[g]
      BY <2>1, <2>2
    <3>3. charged'[g] = count[g] + (IF g \in Chain(h) THEN 1 ELSE 0)
      BY Zenon, <3>1 DEF Add
    <3>4. g \in Chain(h)
      BY <2>1, <3>2, <3>3
    <3>5. ~(count[g] >= max[g])
      BY Zenon, <3>1, <3>4 DEF Full
    <3> QED
      BY SMTT(30), <2>1, <3>2, <3>3, <3>4, <3>5
  <2>4. ASSUME charged' = charged \/ charged' = Reconciled
        PROVE  FALSE
    BY SMTT(30), <2>1, <2>2, <2>4
  <2>5. ASSUME NEW m \in Members, Uncharge(m)
        PROVE  FALSE
    <3>1. charged'[g] = charged[g] \/ charged'[g] = charged[g] + (IF g \in Chain(at[m]) THEN -1 ELSE 0)
      BY Zenon, <2>5 DEF Uncharge, Add
    <3> QED
      BY <2>1, <3>1
  <2>6. CASE Directories
    <3>1. ASSUME NEW h \in Groups, Mkdir(h) \/ Rmdir(h) \/ Enable(h) \/ Disable(h)
          PROVE  charged' = charged
      BY Zenon, <3>1 DEF Mkdir, Rmdir, Enable, Disable, pids
    <3>2. CASE Mount
      <4>1. g # Root
        BY Zenon, <3>2 DEF Mount
      <4>2. charged'[g] = charged[g]
        BY Zenon, <2>1, <3>2, <4>1 DEF Mount
      <4>3. ~(charged[g] > charged[g])
        BY <2>1
      <4> QED
        BY <4>2, <4>3, Zenon
    <3> QED
      BY Zenon, <2>4, <2>6, <3>1, <3>2 DEF Directories
  <2>7. CASE Births
    <3>1. ASSUME NEW p, NEW h, Refuse(p, h)
          PROVE  charged' = Reconciled
      BY Zenon, <3>1 DEF Refuse
    <3>2. \A p \in Members : at[p] \in Groups \cup {None}
      BY Zenon DEF IInv, TypeOK
    <3> QED
      BY SMTT(30), <2>3, <2>4, <2>7, <3>1, <3>2 DEF Births, Fork, CloneInto, ForkRefused, CloneRefused
  <2>8. CASE Migration
    <3>1. ASSUME NEW m, NEW h, WriteThreads(m) \/ WriteProcs(m, h)
          PROVE  charged' = charged
      BY Zenon, <3>1 DEF WriteThreads, WriteProcs, pids
    <3> QED
      BY Zenon, <2>4, <2>8, <3>1 DEF Migration, Move
  <2>9. CASE Counting
    <3>1. ASSUME NEW h, NEW n, ReadFailures(h) \/ WriteMax(h, n)
          PROVE  charged' = charged
      BY Zenon, <3>1 DEF ReadFailures, WriteMax, pids
    <3>2. ASSUME NEW m, Wait(m) \/ Reuse(m)
          PROVE  charged' = charged
      BY Zenon, <3>2 DEF Wait, Reuse, pids
    <3> QED
      BY Zenon, <2>4, <2>5, <2>9, <3>1, <3>2 DEF Counting, ReadCurrent, CollectLimits, Reap
  <2>10. ASSUME NEW m \in Members, NEW b, Publish(m) \/ Depart(m) \/ Halt(m, b)
         PROVE  charged' = charged
    BY Zenon, <2>10 DEF Publish, Depart, Halt, pids
  <2>11. ASSUME NEW m \in Members, Abort(m) \/ Forget(m) \/ Replace(m)
         PROVE  FALSE
    BY Zenon, <2>5, <2>11 DEF Abort, Forget, Replace, Leave
  <2>12. ASSUME NEW h, NEW b, NEW w, WriteFreeze(h, b) \/ ReadEvents(w) \/ Look
         PROVE  charged' = charged
    BY Zenon, <2>12 DEF WriteFreeze, ReadEvents, Look, pids
  <2>13. CASE UNCHANGED vars
    BY Zenon, <2>4, <2>13 DEF vars, pids
  <2>14. CASE Execs
    <3>1. ASSUME NEW m \in Members, NEW l \in Members, ExecBegin(m, l) \/ ExecDies(m, l)
          PROVE  FALSE
      BY Zenon, <2>5, <3>1 DEF ExecBegin, ExecDies
    <3>2. ASSUME NEW m \in Members, NEW l \in Members, ExecPublish(m, l)
          PROVE  FALSE
      <4>1. /\ task[m] = "exec" /\ task' = [task EXCEPT ![m] = "live"]
            /\ charged' = charged \/ charged' = Add(charged, Chain(at[m]), 1)
        BY Zenon, <3>2 DEF ExecPublish
      <4>2. task'[m] = "live" /\ at[m] \in Groups \cup {None}
        BY Zenon, <4>1 DEF IInv, TypeOK
      <4>3. at[m] = None
        BY Zenon, <4>1, <4>2 DEF Returns
      <4>4. charged'[g] = charged[g] \/ charged'[g] = charged[g] + 0
        BY Zenon, <4>1, <4>3 DEF Add, Chain
      <4> QED
        BY <2>1, <4>4
    <3> QED
      BY Zenon, <2>11, <2>14, <3>1, <3>2 DEF Execs
  <2> QED
    BY ZenonT(30), <2>4, <2>6, <2>7, <2>8, <2>9, <2>10, <2>11, <2>12, <2>13, <2>14 DEF Next, Step
<1>2. Spec => [][Within]_vars
  BY <1>1, Invariance, PTL DEF Spec
<1> QED
  BY Zenon, <1>2 DEF BirthsRespectLimits

(* A birth that fails with EAGAIN met a limit on the way up from the very  *)
(* group it was meant for, and the tasks that the kernel still has and the *)
(* births under way reach it: pids_reconcile forgets the others before     *)
(* pids_reserve gives up.                                                  *)
THEOREM RefusalsAreHonest == Spec => RefusalIsHonest
<1> DEFINE Honest == \A p \in Members :
      /\ ForkRefused(p) => Exhausted(at[p])
      /\ \A g \in Groups : CloneRefused(p, g) => Exhausted(g)
<1>1. IInv => Honest
  <2> SUFFICES ASSUME IInv
               PROVE  Honest
    BY Zenon
  <2> DEFINE There == {m \in Members : task[m] \in {"reserved", "live"} \/ zombie[m]}
  <2>1. ASSUME NEW p, NEW h \in Groups \cup {None}, Refuse(p, h)
        PROVE  Exhausted(h)
    <3>1. PICK g \in Chain(h) : max[g] # None /\ Reconciled[g] >= max[g]
      BY Zenon, <2>1 DEF Refuse, Full
    <3>2. g \in Groups
      BY Zenon, CgroupAssumption DEF Chain
    <3> DEFINE kept == {m \in Charged \ Stale : g \in Chain(at[m])}
               held == Below(g, There)
    <3>3. Reconciled[g] = Cardinality(kept)
      BY Zenon, <3>2, ReconciledCounts DEF IInv, Tally
    <3>4. kept \subseteq held
      <4> SUFFICES ASSUME NEW m \in Members, counted[m], m \notin Stale, g \in Chain(at[m])
                   PROVE  task[m] \in {"reserved", "live"} \/ zombie[m]
        BY Zenon DEF Charged, Below
      <4>1. task[m] # "none" /\ task[m] # "exec"
        BY Zenon DEF IInv, Places
      <4> QED
        BY Zenon, <4>1 DEF Stale, IInv, TypeOK
    <3>5. held \subseteq Members /\ IsFiniteSet(Members)
      BY Zenon, CgroupAssumption DEF Below
    <3> HIDE DEF kept, held
    <3>6. IsFiniteSet(held) /\ IsFiniteSet(kept)
      BY Zenon, <3>4, <3>5, FS_Subset
    <3>7. /\ Cardinality(kept) <= Cardinality(held)
          /\ Cardinality(kept) \in Nat /\ Cardinality(held) \in Nat
      BY <3>4, <3>6, FS_Subset, FS_CardinalityType
    <3>8. max[g] \in Nat
      <4>1. max[g] \in Limits
        BY SMTT(30), <3>1, <3>2 DEF IInv, TypeOK
      <4> QED
        BY <4>1, CgroupAssumption, Zenon
    <3>9. Cardinality(held) >= max[g]
      BY <3>1, <3>3, <3>7, <3>8
    <3> QED
      BY Zenon, <3>1, <3>9 DEF held, Exhausted
  <2>2. \A p \in Members : at[p] \in Groups \cup {None}
    BY Zenon DEF IInv, TypeOK
  <2> QED
    BY Zenon, <2>1, <2>2 DEF ForkRefused, CloneRefused
<1>2. Spec => [][Honest]_vars
  BY <1>1, Invariance, PTL DEF Spec
<1> QED
  BY Zenon, <1>2 DEF RefusalIsHonest

-----------------------------------------------------------------------------
\* The event loop.

\* What freezer_enabled, the generation and the walk of freezer_progress have
\* to do with each other and with the tasks.
Underway ==
    /\ \A m \in Members : phase[m] # "none" <=> task[m] = "live"
    /\ \A m \in scan : phase[m] # "none"
    /\ \A m \in Members : phase[m] = "held" => enabled
    /\ enabled \/ dirty <=> used
    /\ ~used => \A g \in Groups : ~freeze[g]
    /\ \A m \in fenced : phase[m] = "run" /\ ~listening[m]

\* The inductive invariant.
FInv == IInv /\ Underway /\ HeldIsDue

\* What NoEscape asks of a step.
StaysTight == \A m \in Members : GetsLoose(m) => m \in scan /\ m \in fenced

\* The supervisor marks tasks that are there, once a freezer was written.
LEMMA MarkIsHalt ==
    ASSUME NEW m \in Members, NEW b \in BOOLEAN, task[m] # "none", halted[m] # b => used,
           Mark(m, b), UNCHANGED hierarchy
    PROVE  [Next]_vars
<1>1. CASE halted[m] # b
  <2>1. Halt(m, b) /\ UNCHANGED writes
    BY Zenon, <1>1 DEF Mark, Halt, hierarchy
  <2> QED
    BY Zenon, <2>1 DEF Next, Step
<1>2. CASE halted[m] = b
  BY Zenon, <1>2 DEF Mark, hierarchy, vars, events
<1> QED
  BY Zenon, <1>1, <1>2

\* A task whose group is told to freeze is there, and the freezer was used.
LEMMA FreezingMeans ==
    ASSUME IInv, ~used => \A g \in Groups : ~freeze[g], NEW m \in Members, freezing[m]
    PROVE  used /\ task[m] # "none"
<1>1. Freezing(at[m], freeze)
  BY Zenon DEF IInv, Told
<1>2. at[m] # None /\ \E a \in Groups : freeze[a]
  BY SMTT(30), <1>1, CgroupAssumption DEF Freezing, Chain, IInv, TypeOK
<1> QED
  BY Zenon, <1>2 DEF IInv, Places

\* What handling a stop of m does to the freezer: between operations m is held
\* if it must freeze, and otherwise it may run.
Handled(m) ==
    /\ Idle /\ phase[m] # "none" /\ phase'[m] # "none" /\ m \notin fenced
    /\ UNCHANGED <<freeze, freezing, used, dirty, lock, task, enabled, scan, fenced>>
    /\ phase' \in [Members -> Phases]
    /\ listening' \in [Members -> BOOLEAN] /\ asked' \in [Members -> BOOLEAN]
    /\ \A x \in Members \ {m} :
          phase'[x] = phase[x] /\ listening'[x] = listening[x] /\ asked'[x] = asked[x]
    /\ phase'[m] = "held" => enabled /\ freezing[m]
    /\ phase'[m] = "run" => listening'[m] \/ ~(enabled /\ freezing[m])

\* resume() sets the phase of one task and marks it; the rest is left alone.
LEMMA ResumeHandles ==
    ASSUME FInv, NEW m \in Members, phase[m] # "none", Resume(m), UNCHANGED hierarchy
    PROVE  /\ [Next]_vars
           /\ phase' \in [Members -> Phases] /\ phase'[m] # "none"
           /\ \A x \in Members \ {m} : phase'[x] = phase[x]
           /\ phase'[m] = "held" => enabled /\ freezing[m]
           /\ phase'[m] = "run" => ~(enabled /\ freezing[m])
<1>1. phase \in [Members -> Phases] /\ task[m] # "none" /\ (freezing[m] => used)
  BY Zenon, FreezingMeans DEF FInv, HeldIsDue, FreezerTypeOK, Underway
<1>2. CASE enabled /\ freezing[m] /\ phase' = [phase EXCEPT ![m] = "held"] /\ Mark(m, TRUE)
  <2>1. [Next]_vars
    BY Zenon, <1>1, <1>2, MarkIsHalt
  <2> QED
    BY Zenon, <1>1, <1>2, <2>1 DEF Phases
<1>3. CASE /\ phase' = [phase EXCEPT ![m] = "run"] \/ phase' = [phase EXCEPT ![m] = "stop"]
           /\ phase' = [phase EXCEPT ![m] = "run"] => ~(enabled /\ freezing[m])
           /\ UNCHANGED <<halted, events, effective>>
  <2>1. [Next]_vars
    BY Zenon, <1>3 DEF vars, hierarchy
  <2> QED
    BY Zenon, <1>1, <1>3, <2>1 DEF Phases
<1>4. [phase EXCEPT ![m] = "run"] # [phase EXCEPT ![m] = "stop"]
  BY Zenon, <1>1
<1> QED
  BY Zenon, <1>2, <1>3, <1>4 DEF Resume, Continue

\* Handling a stop: an action of Cgroup or none, and what Handled says.
LEMMA StopsHandled ==
    ASSUME FInv, NEW m \in Members,
           \/ FirstStop(m) \/ Trap(m) \/ Enter(m) \/ Release(m) \/ WorkEnds(m) \/ Park(m)
           \/ WaitOver(m) \/ JobStop(m) \/ JobWake(m) \/ Die(m)
    PROVE  [Next]_vars /\ Handled(m)
<1>1. /\ phase \in [Members -> Phases] /\ listening \in [Members -> BOOLEAN]
      /\ asked \in [Members -> BOOLEAN]
  BY Zenon DEF FInv, HeldIsDue, FreezerTypeOK
<1>2. phase[m] # "none" => task[m] # "none" /\ (freezing[m] => used)
  BY Zenon, FreezingMeans DEF FInv, Underway
<1>3. m \notin fenced /\ UNCHANGED fenced
  BY Zenon DEF FInv, Underway, FirstStop, Trap, Enter, Release, WorkEnds, Park, WaitOver, JobStop, JobWake, Die
<1>4. CASE FirstStop(m) \/ Trap(m) \/ Release(m) \/ WorkEnds(m)
  <2>1. /\ Idle /\ phase[m] # "none" /\ Resume(m) /\ UNCHANGED <<hierarchy, listening, enabled, scan>>
        /\ asked' = asked \/ asked' = [asked EXCEPT ![m] = FALSE]
    BY Zenon, <1>4 DEF FirstStop, Trap, Release, WorkEnds, Resume
  <2>2. UNCHANGED <<freeze, freezing, used, dirty, lock, task>>
    BY Zenon, <2>1 DEF hierarchy, groups, wakeup, births
  <2> QED
    BY Zenon, <1>1, <1>3, <2>1, <2>2, ResumeHandles DEF Handled
<1>5. CASE Enter(m) \/ WaitOver(m)
  <2>1. /\ Idle /\ phase[m] # "none" /\ phase' = [phase EXCEPT ![m] = "work"]
        /\ UNCHANGED <<vars, listening, enabled, scan>>
        /\ asked' = asked \/ asked' = [asked EXCEPT ![m] = FALSE]
    BY Zenon, <1>5 DEF Enter, WaitOver
  <2>2. UNCHANGED <<freeze, freezing, used, dirty, lock, task>>
    BY Zenon, <2>1 DEF vars, groups, wakeup, births
  <2> QED
    BY Zenon, <1>1, <1>3, <2>1, <2>2 DEF Handled, Phases
<1>6. CASE Park(m)
  <2>1. /\ Idle /\ phase[m] # "none" /\ phase' = [phase EXCEPT ![m] = "wait"]
        /\ ResumeParked(m) /\ UNCHANGED <<hierarchy, listening, asked, enabled, scan>>
    BY Zenon, <1>6 DEF Park
  <2>2. UNCHANGED <<freeze, freezing, used, dirty, lock, task>>
    BY Zenon, <2>1 DEF hierarchy, groups, wakeup, births
  <2>3. [Next]_vars
    BY Zenon, <1>2, <2>1, MarkIsHalt DEF ResumeParked, hierarchy, vars
  <2> QED
    BY Zenon, <1>1, <1>3, <2>1, <2>2, <2>3 DEF Handled, Phases
<1>7. CASE JobStop(m)
  <2>1. UNCHANGED <<freeze, freezing, used, dirty, lock, task>>
    BY Zenon, <1>7 DEF JobStop, vars, groups, wakeup, births
  <2>2. phase[m] \in {"run", "work", "wait"}
    BY Zenon, <1>7 DEF JobStop
  <2> QED
    BY Zenon, <1>1, <1>3, <1>7, <2>1, <2>2 DEF JobStop, Handled
<1>8. CASE JobWake(m)
  <2>1. /\ Idle /\ listening' = [listening EXCEPT ![m] = FALSE]
        /\ UNCHANGED <<hierarchy, asked, enabled, scan>>
    BY Zenon, <1>8 DEF JobWake
  <2>2. UNCHANGED <<freeze, freezing, used, dirty, lock, task>>
    BY Zenon, <2>1 DEF hierarchy, groups, wakeup, births
  <2>3. CASE phase[m] = "run" /\ Resume(m)
    BY ZenonT(30), <1>1, <1>3, <2>1, <2>2, <2>3, ResumeHandles DEF Handled
  <2>4. CASE phase[m] = "wait" /\ ResumeParked(m) /\ UNCHANGED phase
    <3>1. [Next]_vars
      BY Zenon, <1>2, <2>1, <2>4, MarkIsHalt DEF ResumeParked, hierarchy, vars
    <3> QED
      BY SMTT(30), <1>1, <1>3, <2>1, <2>2, <2>4, <3>1 DEF Handled
  <2>5. CASE phase[m] = "work" /\ UNCHANGED <<halted, events, effective, phase>>
    <3>1. [Next]_vars
      BY Zenon, <2>1, <2>5 DEF hierarchy, vars
    <3> QED
      BY SMTT(30), <1>1, <1>3, <2>1, <2>2, <2>5, <3>1 DEF Handled
  <2> QED
    BY Zenon, <1>8, <2>3, <2>4, <2>5 DEF JobWake
<1>9. CASE Die(m)
  <2>1. UNCHANGED <<freeze, freezing, used, dirty, lock, task>>
    BY Zenon, <1>9 DEF Die, vars, groups, wakeup, births
  <2> QED
    BY Zenon, <1>1, <1>3, <1>9, <2>1 DEF Die, Handled, Phases
<1> QED
  BY SMTT(30), <1>4, <1>5, <1>6, <1>7, <1>8, <1>9

\* Handling a stop loses neither a freeze nor a thaw.
LEMMA HandledKeeps ==
    ASSUME FInv, NEW m \in Members, Handled(m)
    PROVE  Underway' /\ HeldIsDue' /\ StaysTight
<1> USE DEF FInv
<1>0. fenced \in SUBSET Members
  BY Zenon DEF HeldIsDue, FreezerTypeOK
<1>1. phase \in [Members -> Phases] /\ enabled \in BOOLEAN /\ scan = {} /\ lock = Free
  BY Zenon DEF Handled, Idle, HeldIsDue, FreezerTypeOK
<1>2. Underway'
  <2>1. /\ \A x \in Members : phase'[x] # "none" <=> task'[x] = "live"
        /\ \A x \in scan' : phase'[x] # "none"
        /\ \A x \in Members : phase'[x] = "held" => enabled'
        /\ \A x \in fenced' : phase'[x] = "run" /\ ~listening'[x]
    BY Zenon, <1>1, <1>0 DEF Handled, Underway
  <2>2. (enabled \/ dirty <=> used)' /\ (~used => \A g \in Groups : ~freeze[g])'
    BY Zenon DEF Handled, Underway
  <2> QED
    BY Zenon, <2>1, <2>2 DEF Underway
<1>3. HeldIsDue'
  <2>1. FreezerTypeOK
    BY Zenon DEF HeldIsDue
  <2>2. FreezerTypeOK'
    BY <2>1, Zenon DEF Handled, FreezerTypeOK
  <2> QED
    BY Zenon, <2>2 DEF Handled, HeldIsDue
<1>4. freezing[m] => used
  BY Zenon, FreezingMeans DEF Underway
<1>5. StaysTight
  BY Zenon, <1>1, <1>4 DEF Handled, StaysTight, GetsLoose, Loose, Underway
<1> QED
  BY Zenon, <1>2, <1>3, <1>5

\* One turn of freezer_progress's loop settles the task it visits.
LEMMA VisitKeeps ==
    ASSUME FInv, NEW m \in Members, Visit(m)
    PROVE  [Next]_vars /\ Underway' /\ HeldIsDue' /\ StaysTight
<1> USE DEF FInv
<1>1. /\ FreezerTypeOK /\ lock = Free /\ m \in scan /\ phase[m] # "none" /\ task[m] # "none"
      /\ scan' = scan \ {m} /\ UNCHANGED <<hierarchy, listening, enabled, fenced>>
  BY Zenon DEF Visit, HeldIsDue, Underway
<1>2. UNCHANGED <<freeze, freezing, used, dirty, lock, task>>
  BY Zenon, <1>1 DEF hierarchy, groups, wakeup, births
<1>3. freezing[m] => used
  BY Zenon, FreezingMeans DEF Underway
<1>4. halted[m] # FALSE => used
  BY Zenon DEF IInv, Places, TypeOK
<1>5. [Next]_vars
  <2>1. CASE Mark(m, FALSE)
    BY Zenon, <1>1, <1>4, <2>1, MarkIsHalt
  <2>2. CASE Mark(m, TRUE) /\ freezing[m]
    BY Zenon, <1>1, <1>3, <2>2, MarkIsHalt
  <2>3. CASE UNCHANGED <<halted, events, effective>>
    BY Zenon, <1>1, <2>3 DEF hierarchy, vars
  <2> QED
    BY Zenon, <2>1, <2>2, <2>3 DEF Visit
<1>6. /\ phase' \in [Members -> Phases] /\ phase'[m] # "none"
      /\ \A x \in Members \ {m} : phase'[x] = phase[x]
      /\ phase[m] = "run" => phase'[m] = "run"
      /\ phase'[m] = "held" => phase[m] = "held" /\ freezing[m]
      /\ phase'[m] = "run" => \/ ~freezing[m]
                              \/ phase[m] = "run" /\ asked' = [asked EXCEPT ![m] = @ \/ (~listening[m] /\ m \notin fenced)]
  <2>1. phase \in [Members -> Phases]
    BY Zenon, <1>1 DEF FreezerTypeOK
  <2>2. CASE ~freezing[m] \/ phase[m] = "exit"
    BY Zenon, <1>1, <2>1, <2>2 DEF Visit, Phases
  <2>3. CASE freezing[m] /\ phase[m] # "exit"
    <3>1. UNCHANGED phase /\ asked' = [asked EXCEPT ![m] = @ \/ (phase[m] = "run" /\ ~listening[m] /\ m \notin fenced)]
      BY Zenon, <2>3 DEF Visit
    <3> QED
      BY Zenon, <1>1, <2>1, <2>3, <3>1
  <2> QED
    BY Zenon, <2>2, <2>3
<1>7. asked' \in [Members -> BOOLEAN] /\ \A x \in Members \ {m} : asked'[x] = asked[x]
  <2>1. asked \in [Members -> BOOLEAN]
    BY Zenon, <1>1 DEF FreezerTypeOK
  <2>2. \/ asked' = asked
        \/ asked' = [asked EXCEPT ![m] = @ \/ (phase[m] = "run" /\ ~listening[m] /\ m \notin fenced)]
    BY Zenon DEF Visit
  <2> QED
    BY Zenon, <2>1, <2>2
<1>8. Underway'
  <2>1. /\ \A x \in Members : phase'[x] # "none" <=> task'[x] = "live"
        /\ \A x \in scan' : phase'[x] # "none"
        /\ \A x \in Members : phase'[x] = "held" => enabled'
        /\ \A x \in fenced' : phase'[x] = "run" /\ ~listening'[x]
    BY Zenon, <1>1, <1>2, <1>6 DEF Underway, FreezerTypeOK
  <2>2. (enabled \/ dirty <=> used)' /\ (~used => \A g \in Groups : ~freeze[g])'
    BY <1>1, <1>2, Zenon DEF Underway
  <2> QED
    BY Zenon, <2>1, <2>2 DEF Underway
<1>9. HeldIsDue'
  <2>1. scan' \in SUBSET Members
    BY Zenon, <1>1 DEF FreezerTypeOK
  <2>2. FreezerTypeOK'
    BY <1>1, <1>6, <1>7, <2>1, Zenon DEF FreezerTypeOK
  <2> QED
    BY Zenon, <1>1, <1>2, <1>6, <2>2 DEF HeldIsDue
<1>10. StaysTight
  <2> SUFFICES ASSUME NEW x \in Members, ~Loose(x), Loose(x)'
               PROVE  x \in scan /\ x \in fenced
    BY Zenon DEF StaysTight, GetsLoose
  <2>1. CASE x = m
    BY Zenon, <1>1, <1>2, <1>6, <2>1 DEF FreezerTypeOK, Loose
  <2>2. CASE x # m
    BY Zenon, <1>1, <1>2, <1>6, <1>7, <2>2 DEF Loose
  <2> QED
    BY Zenon, <2>1, <2>2
<1> QED
  BY Zenon, <1>5, <1>8, <1>9, <1>10

\* A barrier neither frees nor holds a task: it takes one that runs, and leaves
\* it running or stopped.
LEMMA FencesKeep ==
    ASSUME FInv, NEW m \in Members, Fence(m) \/ Unfence(m)
    PROVE  [Next]_vars /\ Underway' /\ HeldIsDue' /\ StaysTight
<1> USE DEF FInv
<1>1. /\ FreezerTypeOK /\ UNCHANGED <<vars, listening, asked, enabled, scan>> /\ phase[m] = "run"
      /\ phase' = phase \/ (phase' = [phase EXCEPT ![m] = "stop"] /\ m \notin fenced')
      /\ fenced' \in SUBSET Members
      /\ \A x \in fenced' : phase[x] = "run" /\ ~listening[x]
  BY Zenon DEF Fence, Unfence, tasks, HeldIsDue, Underway, FreezerTypeOK
<1>2. UNCHANGED <<freeze, freezing, used, dirty, lock, task>>
  BY Zenon, <1>1 DEF vars, groups, wakeup, births
<1>3. /\ phase \in [Members -> Phases] /\ phase' \in [Members -> Phases]
      /\ phase'[m] \in {"run", "stop"} /\ \A x \in Members \ {m} : phase'[x] = phase[x]
  BY Zenon, <1>1 DEF FreezerTypeOK, Phases
<1>4. Underway'
  <2>1. /\ \A x \in Members : phase'[x] # "none" <=> task'[x] = "live"
        /\ \A x \in scan' : phase'[x] # "none"
        /\ \A x \in Members : phase'[x] = "held" => enabled'
        /\ \A x \in fenced' : phase'[x] = "run" /\ ~listening'[x]
    BY ZenonT(30), <1>1, <1>2, <1>3 DEF Underway, FreezerTypeOK
  <2>2. (enabled \/ dirty <=> used)' /\ (~used => \A g \in Groups : ~freeze[g])'
    BY <1>1, <1>2, Zenon DEF Underway
  <2> QED
    BY Zenon, <2>1, <2>2 DEF Underway
<1>5. HeldIsDue'
  <2>1. FreezerTypeOK'
    BY <1>1, <1>3, Zenon DEF FreezerTypeOK
  <2> QED
    BY Zenon, <1>1, <1>2, <1>3, <2>1 DEF HeldIsDue
<1>6. StaysTight
  BY Zenon, <1>1, <1>2, <1>3 DEF StaysTight, GetsLoose, Loose
<1> QED
  BY Zenon, <1>1, <1>4, <1>5, <1>6

\* freezer_progress begins: nothing is overlooked, since it visits everybody.
LEMMA ProgressKeeps ==
    ASSUME FInv, Progress
    PROVE  [Next]_vars /\ Underway' /\ HeldIsDue' /\ StaysTight
<1> USE DEF FInv
<1>1. /\ Look /\ enabled' = TRUE /\ scan' = {m \in Members : phase[m] # "none"}
      /\ UNCHANGED <<writes, tasks, fenced>> /\ FreezerTypeOK
  BY Zenon DEF Progress, HeldIsDue
<1>2. dirty /\ dirty' = FALSE /\ UNCHANGED <<freeze, freezing, used, lock, task>>
  BY Zenon, <1>1 DEF Look, groups, births
<1>3. [Next]_vars
  BY Zenon, <1>1 DEF Next, Step
<1>4. UNCHANGED <<phase, listening, asked>>
  BY Zenon, <1>1 DEF tasks
<1>5. Underway'
  <2>1. /\ \A x \in Members : phase'[x] # "none" <=> task'[x] = "live"
        /\ \A x \in scan' : phase'[x] # "none"
        /\ \A x \in fenced' : phase'[x] = "run" /\ ~listening'[x]
    BY Zenon, <1>1, <1>2, <1>4 DEF Underway
  <2>2. used /\ (~used => \A g \in Groups : ~freeze[g])'
    BY <1>1, <1>2, Zenon DEF Underway
  <2> QED
    BY Zenon, <1>1, <1>2, <2>1, <2>2 DEF Underway
<1>6. HeldIsDue'
  <2>1. scan' \in SUBSET Members /\ enabled' \in BOOLEAN
    BY Zenon, <1>1
  <2>2. FreezerTypeOK'
    BY <1>1, <1>4, <2>1, Zenon DEF FreezerTypeOK
  <2> QED
    BY Zenon, <1>1, <1>4, <2>2 DEF HeldIsDue
<1>7. StaysTight
  BY ZenonT(30), <1>1, <1>4 DEF StaysTight, GetsLoose, Loose
<1> QED
  BY Zenon, <1>3, <1>5, <1>6, <1>7

\* An operation of the hierarchy loses neither a freeze nor a thaw if it keeps
\* the mutex, or tells the supervisor, or leaves alone what the tasks that run
\* or are held have to do.
LEMMA OthersKeep ==
    ASSUME FInv, IInv', UNCHANGED <<enabled, scan, fenced, listening, asked>>,
           phase' \in [Members -> Phases],
           \A m \in scan : phase'[m] # "none",
           \A m \in Members : phase'[m] # "none" <=> task'[m] = "live",
           \A m \in Members : phase'[m] \in {"run", "held"} => phase'[m] = phase[m],
           \A m \in fenced : phase'[m] = "run",
           enabled \/ dirty' <=> used', ~used' => \A g \in Groups : ~freeze'[g],
           \/ lock' # Free
           \/ used => dirty'
           \/ /\ lock' = lock /\ (dirty => dirty')
              /\ \A m \in Members : phase'[m] \in {"run", "held"} => (freezing'[m] <=> freezing[m])
    PROVE  Underway' /\ HeldIsDue' /\ StaysTight
<1> USE DEF FInv
<1>1. FreezerTypeOK /\ (enabled => used)
  BY Zenon DEF HeldIsDue, Underway
<1>2. Underway'
  <2>1. \A m \in Members : phase'[m] = "held" => enabled'
    BY Zenon DEF Underway
  <2>2. \A m \in scan' : phase'[m] # "none"
    BY Zenon
  <2>3. (enabled \/ dirty <=> used)'
    BY Zenon
  <2>4. \A m \in fenced' : phase'[m] = "run" /\ ~listening'[m]
    BY Zenon DEF Underway
  <2> QED
    BY <2>1, <2>2, <2>3, <2>4, Zenon DEF Underway
<1>3. FreezerTypeOK'
  BY <1>1, Zenon DEF FreezerTypeOK
<1>4. \A m \in Members : phase'[m] = "held" =>
          freezing'[m] \/ dirty' \/ m \in scan' \/ lock' # Free
  BY Zenon, <1>1 DEF HeldIsDue, Underway
<1>5. ASSUME NEW m \in Members, ~Loose(m), Loose(m)'
      PROVE  FALSE
  <2>0. freezing'[m] /\ phase'[m] = "run" /\ ~dirty' /\ lock' = Free
    BY Zenon, <1>5 DEF Loose
  <2>1. CASE ~used
    <3>1. ~used' \/ dirty'
      BY Zenon, <1>1, <2>1
    <3>2. ~freezing'[m]
      <4>1. freezing'[m] <=> Freezing(at'[m], freeze')
        BY Zenon DEF IInv, Told
      <4>2. at'[m] \in Groups \cup {None} /\ \A g \in Groups : ~freeze'[g]
        BY ZenonT(30), <2>0, <3>1 DEF IInv, TypeOK
      <4> QED
        BY ZenonT(30), <4>1, <4>2, CgroupAssumption DEF Freezing, Chain
    <3> QED
      BY Zenon, <2>0, <3>2
  <2>2. CASE used
    BY Zenon, <1>5, <2>0, <2>2 DEF Loose
  <2> QED
    BY Zenon, <2>1, <2>2
<1>6. StaysTight
  BY Zenon, <1>5 DEF StaysTight, GetsLoose
<1> QED
  BY SMTT(30), <1>2, <1>3, <1>4, <1>6 DEF HeldIsDue

\* Clone calls, publications and exits concern a task that is not running yet,
\* or no more.
LEMMA LivesKeep ==
    ASSUME FInv, NEW m \in Members, NEW c \in Members, NEW thread \in BOOLEAN,
           FreezerFork(m, c, thread) \/ FreezerPublish(m) \/ FreezerExit(m)
    PROVE  [Next]_vars /\ Underway' /\ HeldIsDue' /\ StaysTight
<1> USE DEF FInv
<1>1. /\ FreezerTypeOK /\ (enabled \/ dirty <=> used) /\ (~used => \A g \in Groups : ~freeze[g])
      /\ \A x \in scan : phase[x] # "none"
      /\ \A x \in Members : phase[x] # "none" <=> task[x] = "live"
      /\ \A x \in fenced : x \in Members /\ phase[x] = "run"
  BY Zenon DEF HeldIsDue, Underway, FreezerTypeOK
<1>2. task \in [Members -> {"none", "reserved", "live", "exec", "departed"}] /\ freezing \in [Members -> BOOLEAN]
  BY Zenon DEF IInv, TypeOK
<1>3. phase \in [Members -> Phases]
  BY Zenon, <1>1 DEF FreezerTypeOK
<1>4. CASE FreezerFork(m, c, thread)
  <2>1. PICK g : Reserve(m, c, g, thread)
    BY Zenon, <1>4 DEF FreezerFork, Fork, CloneInto
  <2>2. UNCHANGED <<phase, listening, asked, enabled, scan, fenced>>
    BY Zenon, <1>4 DEF FreezerFork, tasks
  <2>3. /\ lock = Free /\ UNCHANGED <<freeze, used, dirty, lock>> /\ task[c] = "none"
        /\ task' = [task EXCEPT ![c] = "reserved"]
        /\ \A x \in Members \ {c} : freezing'[x] = freezing[x]
    BY Zenon, <1>2, <2>1 DEF Reserve, groups, wakeup
  <2>4. [Next]_vars
    BY Zenon, <1>4 DEF FreezerFork, Next, Step, Births
  <2>5. IInv'
    BY Zenon, <2>4, StepInv
  <2>6. /\ \A x \in Members : phase'[x] # "none" <=> task'[x] = "live"
        /\ \A x \in Members : phase'[x] \in {"run", "held"} => (freezing'[x] <=> freezing[x])
    BY Zenon, <1>1, <1>2, <2>2, <2>3
  <2>7. (enabled \/ dirty' <=> used') /\ (~used' => \A h \in Groups : ~freeze'[h]) /\ (dirty => dirty')
    BY <1>1, <2>3, Zenon
  <2> QED
    BY Zenon, <1>1, <1>3, <2>2, <2>3, <2>4, <2>5, <2>6, <2>7, OthersKeep
<1>5. CASE FreezerPublish(m)
  <2>0. m \notin fenced
    BY Zenon, <1>1, <1>5 DEF FreezerPublish, Publish
  <2>1. /\ Publish(m) /\ phase' = [phase EXCEPT ![m] = "birth"] /\ scan = {}
        /\ UNCHANGED <<listening, asked, enabled, scan, fenced, writes>>
    BY Zenon, <1>5 DEF FreezerPublish, Idle
  <2>2. /\ lock = Free /\ UNCHANGED <<freeze, used, dirty, lock, freezing>>
        /\ task' = [task EXCEPT ![m] = "live"]
    BY Zenon, <2>1 DEF Publish, groups, wakeup
  <2>3. [Next]_vars
    BY Zenon, <2>1 DEF Next, Step
  <2>4. IInv'
    BY SMTT(30), <2>3, StepInv
  <2>5. /\ phase' \in [Members -> Phases]
        /\ \A x \in Members : phase'[x] # "none" <=> task'[x] = "live"
        /\ \A x \in Members : phase'[x] \in {"run", "held"} => phase'[x] = phase[x]
        /\ \A x \in fenced : phase'[x] = "run"
        /\ \A x \in Members : phase'[x] \in {"run", "held"} => (freezing'[x] <=> freezing[x])
    BY <1>1, <1>2, <1>3, <2>0, <2>1, <2>2, SMTT(20) DEF Phases
  <2>6. (enabled \/ dirty' <=> used') /\ (~used' => \A h \in Groups : ~freeze'[h]) /\ (dirty => dirty')
    BY <1>1, <2>2, Zenon
  <2> QED
    BY ZenonT(30), <1>1, <1>3, <2>1, <2>2, <2>3, <2>4, <2>5, <2>6, OthersKeep
<1>6. CASE FreezerExit(m)
  <2>0. m \notin fenced
    BY Zenon, <1>1, <1>6 DEF FreezerExit
  <2>1. /\ Depart(m) \/ Forget(m)
        /\ phase' = [phase EXCEPT ![m] = "none"] /\ scan = {}
        /\ UNCHANGED <<listening, asked, enabled, scan, fenced, writes>>
    BY Zenon, <1>6 DEF FreezerExit, Idle
  <2>2. /\ UNCHANGED <<freeze, used, dirty, lock>>
        /\ task'[m] # "live" /\ \A x \in Members \ {m} : task'[x] = task[x] /\ freezing'[x] = freezing[x]
    BY Zenon, <1>2, <2>1 DEF Depart, Forget, Leave, Discard, groups, wakeup
  <2>3. [Next]_vars
    BY Zenon, <2>1 DEF Next, Step
  <2>4. IInv'
    BY <2>3, StepInv
  <2>5. /\ phase' \in [Members -> Phases]
        /\ \A x \in Members : phase'[x] # "none" <=> task'[x] = "live"
        /\ \A x \in Members : phase'[x] \in {"run", "held"} => phase'[x] = phase[x]
        /\ \A x \in fenced : phase'[x] = "run"
        /\ \A x \in Members : phase'[x] \in {"run", "held"} => (freezing'[x] <=> freezing[x])
    BY Zenon, <1>1, <1>2, <1>3, <2>0, <2>1, <2>2 DEF Phases
  <2>6. (enabled \/ dirty' <=> used') /\ (~used' => \A h \in Groups : ~freeze'[h]) /\ (dirty => dirty')
    BY <1>1, <2>2, Zenon
  <2> QED
    BY Zenon, <2>1, <2>2, <2>3, <2>4, <2>5, <2>6, OthersKeep
<1> QED
  BY Zenon, <1>4, <1>5, <1>6

\* Control writes keep the mutex or tell the supervisor; an abandoned clone
\* call and the directories concern no task that runs.
LEMMA ControlKeeps ==
    ASSUME FInv, FreezerControl \/ FreezerOther \/ \E m \in Members : FreezerMove(m)
    PROVE  [Next]_vars /\ Underway' /\ HeldIsDue' /\ StaysTight
<1> USE DEF FInv
<1>1. /\ FreezerTypeOK /\ (enabled \/ dirty <=> used) /\ (~used => \A g \in Groups : ~freeze[g])
      /\ \A x \in scan : phase[x] # "none"
      /\ \A x \in Members : phase[x] # "none" <=> task[x] = "live"
      /\ \A x \in fenced : x \in Members /\ phase[x] = "run"
  BY Zenon DEF HeldIsDue, Underway, FreezerTypeOK
<1>2. task \in [Members -> {"none", "reserved", "live", "exec", "departed"}] /\ freezing \in [Members -> BOOLEAN]
  BY Zenon DEF IInv, TypeOK
<1>3. phase' \in [Members -> Phases] /\ UNCHANGED <<phase, listening, asked, enabled, scan, fenced, writes>>
  BY Zenon, <1>1 DEF FreezerControl, FreezerMove, FreezerOther, tasks, FreezerTypeOK
<1>4. [Next]_vars
  BY Zenon DEF FreezerControl, FreezerMove, FreezerOther, Next, Step, Directories, Migration
<1>5. IInv'
  BY Zenon, <1>4, StepInv
<1>6. ASSUME \A x \in Members : task'[x] = "live" <=> task[x] = "live",
             enabled \/ dirty' <=> used', ~used' => \A g \in Groups : ~freeze'[g],
             \/ lock' # Free
             \/ used => dirty'
             \/ /\ lock' = lock /\ (dirty => dirty')
                /\ \A x \in Members : phase'[x] \in {"run", "held"} => (freezing'[x] <=> freezing[x])
      PROVE  Underway' /\ HeldIsDue' /\ StaysTight
  <2>1. /\ \A x \in scan : phase'[x] # "none"
        /\ \A x \in Members : phase'[x] # "none" <=> task'[x] = "live"
        /\ \A x \in Members : phase'[x] \in {"run", "held"} => phase'[x] = phase[x]
        /\ \A x \in fenced : phase'[x] = "run"
    BY Zenon, <1>1, <1>3, <1>6
  <2> QED
    BY Zenon, <1>3, <1>5, <1>6, <2>1, OthersKeep
<1>7. ASSUME NEW g \in Groups, NEW b \in BOOLEAN, WriteFreeze(g, b)
      PROVE  Underway' /\ HeldIsDue' /\ StaysTight
  <2>1. used' = TRUE /\ dirty' = TRUE /\ UNCHANGED task
    BY Zenon, <1>7 DEF WriteFreeze, FreezerChanged, births
  <2> QED
    BY Zenon, <1>6, <2>1
<1>8. ASSUME NEW m \in Members, NEW g \in Groups, WriteThreads(m) \/ WriteProcs(m, g)
      PROVE  Underway' /\ HeldIsDue' /\ StaysTight
  <2>1. UNCHANGED <<task, freeze, used, dirty>>
    BY Zenon, <1>8 DEF WriteThreads, WriteProcs, births, groups
  <2>2. lock' # Free
    <3>1. PICK h, s : lock' = Moving(h, s)
      BY <1>8, Zenon DEF WriteThreads, WriteProcs
    <3>2. lock'.op = "move"
      BY Zenon, <3>1 DEF Moving
    <3> QED
      BY <3>2 DEF Free
  <2>3. (enabled \/ dirty' <=> used') /\ (~used' => \A h \in Groups : ~freeze'[h])
    BY <1>1, <2>1, Zenon
  <2>4. \A x \in Members : task'[x] = "live" <=> task[x] = "live"
    BY Zenon, <2>1
  <2> QED
    BY Zenon, <1>6, <2>2, <2>3, <2>4
<1>9. ASSUME NEW m \in Members, Move(m)
      PROVE  Underway' /\ HeldIsDue' /\ StaysTight
  <2>1. UNCHANGED <<task, freeze>>
    BY Zenon, <1>9 DEF Move, groups
  <2>2. lock \in [op : {"free", "move", "exec"}, to : Groups \cup {None}, left : SUBSET Members]
    BY Zenon DEF IInv, TypeOK
  <2>3. CASE lock.left = {m} /\ used
    <3>1. used' = TRUE /\ dirty' = TRUE
      BY Zenon, <1>9, <2>3 DEF Move, FreezerChanged
    <3> QED
      BY Zenon, <1>6, <2>1, <3>1
  <2>4. CASE ~(lock.left = {m} /\ used)
    <3>1. UNCHANGED <<used, dirty>>
      BY Zenon, <1>9, <2>4 DEF Move
    <3>2. lock' # Free \/ ~used
      <4>1. CASE lock.left # {m}
        <5>1. lock' = [lock EXCEPT !.left = @ \ {m}] /\ lock.op = "move"
          BY Zenon, <1>9, <4>1 DEF Move
        <5>2. lock'.op = "move"
          BY Zenon, <2>2, <5>1
        <5> QED
          BY <5>2 DEF Free
      <4> QED
        BY Zenon, <2>4, <4>1
    <3>3. (enabled \/ dirty' <=> used') /\ (~used' => \A h \in Groups : ~freeze'[h])
      BY <1>1, <2>1, <3>1, Zenon
    <3>4. \A x \in Members : task'[x] = "live" <=> task[x] = "live"
      BY Zenon, <2>1
    <3> QED
      BY SMTT(30), <1>6, <3>2, <3>3, <3>4
  <2> QED
    BY Zenon, <2>3, <2>4
<1>10. ASSUME NEW m \in Members, Abort(m)
       PROVE  Underway' /\ HeldIsDue' /\ StaysTight
  <2>1. /\ UNCHANGED <<freeze, used, dirty, lock>> /\ task[m] = "reserved"
        /\ task' = [task EXCEPT ![m] = "none"]
        /\ freezing' = [freezing EXCEPT ![m] = FALSE]
    BY Zenon, <1>10 DEF Abort, Discard, groups, wakeup
  <2>2. (enabled \/ dirty' <=> used') /\ (~used' => \A h \in Groups : ~freeze'[h]) /\ (dirty => dirty')
    BY <1>1, <2>1, Zenon
  <2>3. /\ \A x \in Members : task'[x] = "live" <=> task[x] = "live"
        /\ \A x \in Members : phase'[x] \in {"run", "held"} => (freezing'[x] <=> freezing[x])
    BY SMTT(30), <1>1, <1>2, <1>3, <2>1
  <2> QED
    BY SMTT(30), <1>6, <2>1, <2>2, <2>3
<1>11. CASE FreezerOther
  <2>1. UNCHANGED <<freeze, used, dirty, lock, task, freezing>>
    BY Zenon, <1>11 DEF FreezerOther, Mount, Mkdir, Rmdir, wakeup, births
  <2>2. (enabled \/ dirty' <=> used') /\ (~used' => \A h \in Groups : ~freeze'[h]) /\ (dirty => dirty')
    BY <1>1, <2>1, Zenon
  <2>3. /\ \A x \in Members : task'[x] = "live" <=> task[x] = "live"
        /\ \A x \in Members : phase'[x] \in {"run", "held"} => (freezing'[x] <=> freezing[x])
    BY Zenon, <2>1
  <2> QED
    BY Zenon, <1>4, <1>6, <2>1, <2>2, <2>3
<1>12. Groups # {}
  BY Zenon, CgroupAssumption
<1> QED
  BY ZenonT(30), <1>4, <1>7, <1>8, <1>9, <1>10, <1>11, <1>12 DEF FreezerControl, FreezerMove

-----------------------------------------------------------------------------
\* Before anything is mounted the leader runs and no freezer was used.
LEMMA FreezerInitInv == FreezerInit => FInv
<1> SUFFICES ASSUME FreezerInit
             PROVE  FInv
  OBVIOUS
<1>1. IInv
  BY Zenon, InitInv DEF FreezerInit
<1>2. FreezerTypeOK
  <2>1. /\ phase \in [Members -> Phases] /\ listening \in [Members -> BOOLEAN]
        /\ asked \in [Members -> BOOLEAN] /\ scan \in SUBSET Members /\ fenced \in SUBSET Members
    BY Zenon DEF FreezerInit, Phases
  <2>2. enabled \in BOOLEAN
    BY Zenon DEF FreezerInit
  <2> QED
    BY <2>1, <2>2, Zenon DEF FreezerTypeOK
<1>3. /\ \A m \in Members : phase[m] # "none" <=> task[m] = "live"
      /\ scan = {} /\ fenced = {} /\ \A m \in Members : phase[m] # "held"
  BY Zenon DEF FreezerInit, Init
<1>4. (enabled \/ dirty <=> used) /\ \A g \in Groups : ~freeze[g]
  BY Zenon DEF FreezerInit, Init
<1> QED
  BY Zenon, <1>1, <1>2, <1>3, <1>4 DEF FInv, Underway, HeldIsDue

\* No step of the event loop or of the filesystem worker leaves FInv, and each
\* is a step of Cgroup or none of the hierarchy's, and lets no task get away
\* but for a barrier.
LEMMA FreezerStep == FInv /\ [FreezerNext]_all => FInv' /\ [Next]_vars /\ StaysTight
<1> SUFFICES ASSUME FInv, [FreezerNext]_all
             PROVE  FInv' /\ [Next]_vars /\ StaysTight
  BY Zenon
<1>1. CASE FreezerNext
  <2>1. [Next]_vars /\ Underway' /\ HeldIsDue' /\ StaysTight
    <3>1. CASE Progress \/ FreezerControl \/ FreezerOther \/ \E m \in Members : FreezerMove(m)
      BY Zenon, <3>1, ProgressKeeps, ControlKeeps
    <3>2. ASSUME NEW m \in Members,
                 \/ FirstStop(m) \/ Trap(m) \/ Enter(m) \/ Release(m) \/ WorkEnds(m) \/ Park(m)
                 \/ WaitOver(m) \/ JobStop(m) \/ JobWake(m) \/ Die(m)
          PROVE  [Next]_vars /\ Underway' /\ HeldIsDue' /\ StaysTight
      BY Zenon, <3>2, StopsHandled, HandledKeeps
    <3> QED
      BY Zenon, <1>1, <3>1, <3>2, VisitKeeps, LivesKeep, FencesKeep DEF FreezerNext
  <2>2. IInv'
    BY Zenon, <2>1, StepInv DEF FInv
  <2> QED
    BY Zenon, <2>1, <2>2 DEF FInv
<1>2. CASE UNCHANGED all
  <2>1. UNCHANGED <<vars, phase, listening, asked, enabled, scan, fenced>>
    BY Zenon, <1>2 DEF all, tasks
  <2>2. IInv'
    BY Zenon, <2>1, StepInv DEF FInv
  <2>3. UNCHANGED <<freeze, freezing, used, dirty, lock, task>>
    BY Zenon, <2>1 DEF vars, groups, wakeup, births
  <2>4. Underway' /\ HeldIsDue' /\ StaysTight
    BY Zenon, <2>1, <2>3 DEF FInv, Underway, HeldIsDue, FreezerTypeOK, StaysTight, GetsLoose, Loose
  <2> QED
    BY Zenon, <2>1, <2>2, <2>4 DEF FInv
<1> QED
  BY Zenon, <1>1, <1>2

\* The event loop and the hierarchy agree on who is there, on whether a freezer
\* was ever written, and on who has still to be looked at.
THEOREM FreezerInvariance == FreezerSpec => []FInv
  BY FreezerInitInv, FreezerStep, PTL DEF FreezerSpec

\* resume() holds a task only while its group must freeze: freezer_progress
\* comes by after every thaw, migration and removal of a freeze above.
THEOREM ThawsAreSeen == FreezerSpec => []HeldIsDue
<1>1. FInv => HeldIsDue
  BY Zenon DEF FInv
<1> QED
  BY <1>1, FreezerInvariance, PTL

\* No task that must freeze gets to run guest code behind the supervisor's back,
\* be it newborn, moved or just back from a wait, but where freezer_progress
\* finds it in a barrier.
THEOREM FreezesAreSeen == FreezerSpec => NoEscape
<1>1. FInv /\ [FreezerNext]_all => [\A m \in Members : GetsLoose(m) => m \in scan /\ m \in fenced]_all
  BY Zenon, FreezerStep DEF StaysTight
<1> QED
  BY <1>1, FreezerInvariance, PTL DEF FreezerSpec, NoEscape

\* The supervisor uses cgroup.c as Cgroup lets it be used.
THEOREM LoopIsCgroup == FreezerSpec => ImplementsCgroup
<1>1. FreezerInit => Init
  BY Zenon DEF FreezerInit
<1>2. FreezerSpec => Spec
  BY <1>1, FreezerInvariance, FreezerStep, PTL DEF FreezerSpec, Spec
<1> QED
  BY Zenon, <1>2 DEF ImplementsCgroup

\* So the counters and the frozen state of every group are right while the
\* event loop stops, holds and continues its tasks.
THEOREM LoopCountsExact == FreezerSpec => [](CountsExact /\ FreezerExact)
  BY LoopIsCgroup, CountersExact, FreezerIsExact, PTL DEF ImplementsCgroup
===============================================================================
