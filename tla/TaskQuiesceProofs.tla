------------------------- MODULE TaskQuiesceProofs -------------------------
(***************************************************************************)
(* The task barrier, for any finite number of tasks and any number of      *)
(* events: it holds whoever must be held, and every stop has one owner.    *)
(* The steps of the barrier and of the repair keep the invariant, and what *)
(* it implies.                                                             *)
(***************************************************************************)
EXTENDS TaskQuiesceDispatch

\* An event that a barrier has deferred.
LEMMA TakeStep ==
    ASSUME IInv, Take
    PROVE  IInv'
<1>1. /\ TypeOK /\ Reported /\ Collected /\ Recorded /\ Taken /\ Acting
      /\ Born /\ Queued /\ Kept /\ Barred
  BY Zenon DEF IInv
<1> DEFINE s == q.deferred
           t == Head(s).task
           e == Head(s).status
<1>2. /\ stage = "off" /\ s # <<>> /\ q' = [q EXCEPT !.deferred = Tail(@)]
      /\ Handle(t, e, event) /\ UNCHANGED <<asked, child, repair>>
  BY Zenon DEF Take
<1>3. /\ s \in Seq(EntryType) /\ q \in QType
      /\ \A i \in DOMAIN s : s[i] = [task |-> s[i].task, status |-> s[i].status]
                             /\ s[i].task \in Tasks /\ s[i].status \in Statuses
  BY Zenon, <1>1, Entries, QTyped
<1>4. /\ q' \in QType /\ q'.part = q.part /\ q'.waiting = q.waiting /\ q'.borrowed = q.borrowed
      /\ q'.deferred = Tail(s)
  BY Zenon, <1>2, <1>3, TailOf DEF QType
<1>5. 1 \in DOMAIN s /\ t = s[1].task /\ e = s[1].status /\ t \in Tasks /\ e \in Statuses
  BY ZenonT(30), <1>2, <1>3, TailOf
<1>6. /\ \A i \in DOMAIN q'.deferred : i + 1 \in DOMAIN s /\ i + 1 # 1 /\ q'.deferred[i] = s[i + 1]
      /\ \A j \in DOMAIN s : j # 1 => j - 1 \in DOMAIN q'.deferred /\ q'.deferred[j - 1] = s[j]
  <2>1. /\ DOMAIN q'.deferred = 1 .. (Len(s) - 1) /\ DOMAIN s = 1 .. Len(s) /\ Len(s) \in Nat \ {0}
        /\ \A i \in 1 .. (Len(s) - 1) : q'.deferred[i] = s[i + 1]
    BY SMTT(30), <1>2, <1>3, <1>4, TailOf
  <2>2. \A i \in 1 .. (Len(s) - 1) : i + 1 \in 1 .. Len(s) /\ i + 1 # 1
    BY SMTT(30), <2>1
  <2>3. \A j \in 1 .. Len(s) : j # 1 => j - 1 \in 1 .. (Len(s) - 1) /\ (j - 1) + 1 = j
    BY SMTT(30), <2>1
  <2>4. \A j \in DOMAIN s : j # 1 => j - 1 \in DOMAIN q'.deferred /\ q'.deferred[j - 1] = s[j]
    BY Zenon, <2>1, <2>3
  <2> QED
    BY Zenon, <2>1, <2>2, <2>4
<1>7. Deferred(q, t)
  BY Zenon, <1>5 DEF Deferred
<1> HIDE DEF t, e, s
<1>8. Caught(t)
  BY Zenon, <1>7 DEF Caught
<1>9. /\ kernel[t] \notin {"unborn", "running"} /\ event[t] \notin {"stop", "trap", "birth"}
      /\ e = "exit" => kernel[t] = "dead"
  BY Zenon, <1>1, <1>5, <1>8 DEF Collected, Queued, s
<1>10. \A x \in Tasks \ {t} : Deferred(q', x) <=> Deferred(q, x)
  <2>1. \A x : Deferred(q, x) <=> \E j \in DOMAIN s : s[j].task = x
    BY Zenon DEF Deferred, s
  <2>2. \A x : Deferred(q', x) <=> \E j \in DOMAIN q'.deferred : q'.deferred[j].task = x
    BY Zenon DEF Deferred
  <2> QED
    BY SMTT(30), <1>5, <1>6, <2>1, <2>2
<1>11. ASSUME kernel[t] = "stopped"
       PROVE  event[t] = None /\ ~Deferred(q', t) /\ ~thread[t].active /\ ~thread[t].parked
  <2>1. event[t] = None
    BY Zenon, <1>1, <1>5, <1>9, <1>11 DEF Reported, Fits
  <2>2. \A j \in DOMAIN s : j # 1 => s[j].task # t
    BY Zenon, <1>1, <1>5, <1>11 DEF Queued, s
  <2>3. ~Deferred(q', t)
    BY SMTT(30), <1>6, <2>2 DEF Deferred
  <2>4. Keeps("deferred", t) /\ (thread[t].active => Keeps("handler", t)) /\ (thread[t].parked => Keeps("parked", t))
    BY Zenon, <1>7 DEF Keeps
  <2> QED
    BY Zenon, <1>1, <1>5, <1>11, <2>1, <2>3, <2>4 DEF Kept, Keepers
<1>12. \A p \in Tasks : Births(q', p) <=> Births(q, p) /\ ~(p = t /\ e = "birth")
  <2>1. \A p : Births(q, p) <=> \E j \in DOMAIN s : s[j] = [task |-> p, status |-> "birth"]
    BY Zenon DEF Births, s
  <2>2. \A p : Births(q', p) <=> \E j \in DOMAIN q'.deferred : q'.deferred[j] = [task |-> p, status |-> "birth"]
    BY Zenon DEF Births
  <2>3. \A p : Births(q', p) <=> \E j \in DOMAIN s : j # 1 /\ s[j] = [task |-> p, status |-> "birth"]
    <3> SUFFICES ASSUME NEW p
                 PROVE  Births(q', p) <=> \E j \in DOMAIN s : j # 1 /\ s[j] = [task |-> p, status |-> "birth"]
      BY Zenon
    <3> DEFINE y == [task |-> p, status |-> "birth"]
    <3>1. Births(q', p) <=> \E j \in DOMAIN q'.deferred : q'.deferred[j] = y
      BY Zenon, <2>2
    <3> HIDE DEF y
    <3>2. (\E j \in DOMAIN q'.deferred : q'.deferred[j] = y) <=> \E j \in DOMAIN s : j # 1 /\ s[j] = y
      BY <1>6
    <3> QED
      BY Zenon, <3>1, <3>2 DEF y
  <2>4. s[1] = [task |-> t, status |-> e]
    BY Zenon, <1>3, <1>5
  <2>5. \A p : s[1] = [task |-> p, status |-> "birth"] <=> p = t /\ e = "birth"
    BY SMTT(30), <2>4
  <2>6. e = "birth" => \A j \in DOMAIN s : j # 1 => s[j] # [task |-> t, status |-> "birth"]
    <3>1. \A j \in DOMAIN s : j # 1 /\ s[j].task = t => e # "birth" \/ s[j].status # "birth"
      BY Zenon, <1>1, <1>5 DEF Queued, s
    <3> QED
      BY SMTT(30), <3>1
  <2> QED
    BY Zenon, <1>5, <2>1, <2>3, <2>5, <2>6
<1>13. e = "birth" => Pending(t, child[t]) /\ lost[t] = None
  <2>1. e = "birth" => q.deferred[1] = [task |-> t, status |-> "birth"] /\ 1 \in DOMAIN q.deferred
    BY Zenon, <1>3, <1>5 DEF s
  <2> QED
    BY SMTT(30), <1>1, <1>5, <2>1 DEF Pending, Born
<1>14. Fetched(t, e, event, q')
  <2>1. event \in [Tasks -> Statuses \cup {None}]
    BY Zenon, <1>1, QTyped
  <2>2. q.deferred # <<>> /\ q'.deferred = Tail(q.deferred)
    BY Zenon, <1>2, <1>4 DEF s
  <2> QED
    BY Zenon, <1>4, <1>5, <1>9, <1>10, <1>11, <1>12, <1>13, <2>1, <2>2 DEF Fetched
<1> QED
  BY Zenon, <1>2, <1>5, <1>14, HandleStep

\* A handler parks its task behind the barrier.
LEMMA ParkStep ==
    ASSUME IInv, NEW t \in Tasks, Resume(t), stage # "off"
    PROVE  IInv'
<1>1. /\ TypeOK /\ Reported /\ Collected /\ Recorded /\ Taken /\ Acting
      /\ Born /\ Queued /\ Kept /\ Barred
  BY Zenon DEF IInv
<1>2. /\ kernel' = kernel /\ event' = event /\ asked' = asked /\ child' = child /\ lost' = lost
      /\ stage' = stage /\ actor' = actor /\ left' = left /\ thread[t].active
  BY Zenon DEF Resume, repair
<1>3. /\ thread' \in [Tasks -> ThreadType] /\ ~thread'[t].active /\ thread'[t].parked
      /\ \A x \in Tasks \ {t} : thread'[x] = thread[x]
      /\ \A x \in Tasks : /\ thread'[x].born = thread[x].born /\ thread'[x].initial = thread[x].initial
                          /\ thread'[x].stopped = thread[x].stopped
  <2>1. thread \in [Tasks -> ThreadType] /\ thread' = [thread EXCEPT ![t].active = FALSE, ![t].parked = TRUE]
    BY Zenon, <1>1, QTyped DEF Resume
  <2> QED
    BY ZenonT(30), <2>1 DEF ThreadType
<1>4. /\ Only(q', q, t) /\ q'.deferred = q.deferred /\ q'.part[t].member /\ ~q'.part[t].resume
      /\ q'.part[t].stopped /\ q'.part[t].synthetic = q.part[t].synthetic
  <2>1. q \in QType /\ Counted(q) /\ (~q.part[t].member => q.part[t] = Off)
    BY ZenonT(30), <1>1, QTyped DEF Taken
  <2>2. \A s, v \in BOOLEAN : q' = Add(q, t, s, v) =>
          /\ Only(q', q, t) /\ q'.deferred = q.deferred /\ q'.part[t].member /\ q'.part[t].resume = v
          /\ q'.part[t].stopped = (s \/ Deferred(q, t))
          /\ q'.part[t].synthetic = q.part[t].synthetic
    BY SMTT(30), <2>1, AddEffect
  <2>3. q' = Add(q, t, TRUE, FALSE)
    BY Zenon DEF Resume
  <2> QED
    BY Zenon, <2>2, <2>3
<1>5. /\ q' \in QType /\ Counted(q') /\ q'.borrowed = q.borrowed
      /\ \A x \in Tasks \ {t} : q'.part[x] = q.part[x]
      /\ q'.part[t].borrowed = q.part[t].borrowed
  BY Zenon, <1>4 DEF Only
<1>6. thread[t].born /\ thread[t].stopped /\ Caught(t)
  BY Zenon, <1>1, <1>2 DEF Recorded, Caught
<1>7. TypeOK'
  BY Zenon, <1>1, <1>2, <1>3, <1>5 DEF TypeOK, QType, PartType, EntryType, Statuses, ThreadType
<1>8. \A x \in Tasks : Caught(x)' <=> Caught(x)
  <2>1. Caught(t)'
    BY Zenon, <1>3, <1>6 DEF Caught
  <2>2. ASSUME NEW x \in Tasks \ {t}
        PROVE  Caught(x)' <=> Caught(x)
    <3>1. Deferred(q', x) <=> Deferred(q, x)
      BY Zenon, <1>4 DEF Deferred
    <3>2. thread'[x] = thread[x] /\ q'.part[x] = q.part[x]
      BY Zenon, <1>3, <1>5
    <3> QED
      BY Zenon, <3>1, <3>2 DEF Caught
  <2> QED
    BY Zenon, <1>6, <2>1, <2>2
<1>9. Reported' /\ Collected' /\ Recorded'
  BY Zenon, <1>1, <1>2, <1>3, <1>6, <1>8 DEF Reported, Collected, Recorded
<1>10. Taken'
  <2>1. Lent(q') = Lent(q)
    BY Zenon, <1>5 DEF Lent
  <2>2. \A x \in Tasks :
          /\ ~q'.part[x].member => q'.part[x] = Off
          /\ q'.part[x].borrowed <=> kernel'[x] = "lent"
          /\ q'.part[x].resume => thread'[x].born
          /\ q'.part[x].interrupted /\ ~q'.part[x].stopped => q'.part[x].resume
          /\ q'.part[x].synthetic => q'.part[x].stopped
          /\ thread'[x].stopped => q'.part[x].stopped /\ ~q'.part[x].synthetic
    <3>1. ASSUME NEW x \in Tasks
          PROVE  /\ ~q.part[x].member => q.part[x] = Off
                 /\ q.part[x].borrowed <=> kernel[x] = "lent"
                 /\ q.part[x].resume => thread[x].born
                 /\ q.part[x].interrupted /\ ~q.part[x].stopped => q.part[x].resume
                 /\ q.part[x].synthetic => q.part[x].stopped
                 /\ thread[x].stopped => q.part[x].stopped /\ ~q.part[x].synthetic
      BY Zenon, <1>1 DEF Taken
    <3>2. ASSUME NEW x \in Tasks \ {t}
          PROVE  q'.part[x] = q.part[x] /\ thread'[x] = thread[x] /\ kernel'[x] = kernel[x]
      BY Zenon, <1>2, <1>3, <1>5
    <3>3. q'.part[t].borrowed <=> kernel'[t] = "lent"
      BY Zenon, <1>2, <1>5, <3>1
    <3>4. thread[t].stopped /\ ~q'.part[t].synthetic
      BY Zenon, <1>4, <1>6, <3>1
    <3> QED
      BY ZenonT(30), <1>4, <3>1, <3>2, <3>3, <3>4
  <2>3. stage = "held" => \A x \in Tasks : q'.part[x].stopped
    BY Zenon, <1>1, <1>4, <1>5 DEF Taken
  <2> QED
    BY Zenon, <1>1, <1>2, <1>5, <2>1, <2>2, <2>3 DEF Taken
<1>11. Acting'
  BY ZenonT(30), <1>1, <1>2, <1>3, <1>4, <1>5 DEF Acting, TypeOK
<1>12. Born'
  <2>1. \A p, x : Pending(p, x)' <=> Pending(p, x)
    BY ZenonT(30), <1>2, <1>4 DEF Pending
  <2> QED
    BY SMTT(30), <1>1, <1>2, <1>3, <1>4, <2>1 DEF Born
<1>13. Queued'
  BY SMTT(30), <1>1, <1>2, <1>4 DEF Queued
<1>14. Kept'
  <2>1. \A x \in Tasks \ {t} : \A k \in Keepers : Keeps(k, x)' <=> Keeps(k, x)
    BY SMTT(30), <1>2, <1>3, <1>4, <1>5 DEF Keeps, Deferred
  <2>2. /\ Keeps("handler", t) /\ Keeps("parked", t)' /\ ~Keeps("handler", t)'
        /\ \A k \in Keepers \ {"parked"} : Keeps(k, t)' => Keeps(k, t) /\ k # "handler"
    BY Zenon, <1>2, <1>3, <1>4 DEF Keeps, Deferred, Keepers
  <2>3. kernel[t] \in {"stopped", "lent"} => \A k \in Keepers : Keeps(k, t)' => k = "parked"
    BY Zenon, <1>1, <2>2 DEF Kept, Keepers
  <2> QED
    BY SMTT(30), <1>1, <1>2, <2>1, <2>2, <2>3 DEF Kept, Keepers
<1>15. Barred'
  <2>1. \A x \in Tasks : Unseen(x)' <=> Unseen(x)
    BY Zenon, <1>2, <1>4 DEF Unseen, BirthDeferred
  <2>2. kernel[t] # "running" /\ event[t] # "birth"
    BY Zenon, <1>1, <1>6 DEF Collected
  <2> QED
    BY Zenon, <1>1, <1>2, <1>3, <1>5, <2>1, <2>2 DEF Barred
<1> QED
  BY Zenon, <1>7, <1>9, <1>10, <1>11, <1>12, <1>13, <1>14, <1>15 DEF IInv

-----------------------------------------------------------------------------
\* Tasks are set running: by a handler, or by the end of a repair.

\* G is let go, and nobody else; the task under repair keeps its stop in the
\* deferred queue unless it is let go too.
Freed(G) ==
    /\ kernel' = Continues(G) /\ event' = Unreported(event, G)
    /\ UNCHANGED <<asked, child, lost>>
    /\ stage' = "off" /\ actor' = None /\ left' \in Nat
    /\ q' \in QType /\ q'.part = [t \in Tasks |-> Off] /\ q'.waiting = 0 /\ q'.borrowed = 0
    /\ \/ q'.deferred = q.deferred /\ (actor = None \/ actor \in G)
       \/ /\ q'.deferred = Append(q.deferred, [task |-> actor, status |-> "stop"])
          /\ actor # None /\ actor \notin G
    /\ thread' \in [Tasks -> ThreadType]
    /\ \A x \in Tasks : thread'[x].born = thread[x].born /\ thread'[x].initial = thread[x].initial
    /\ \A x \in G : ~thread'[x].stopped /\ ~thread'[x].active /\ ~thread'[x].parked
    /\ \A x \in Tasks \ G : thread'[x].stopped = thread[x].stopped /\ thread'[x].active = thread[x].active
                            /\ ~thread[x].parked /\ ~thread'[x].parked /\ ~Keeps("synthetic", x)
    /\ \A x \in G : thread[x].born /\ Caught(x) /\ (kernel[x] = "stopped" => ~Deferred(q, x))

\* The tasks of G lose their only owner and run, so nobody is left with two or none.
LEMMA FreedStep ==
    ASSUME IInv, NEW G \in SUBSET Tasks, Freed(G), q.borrowed = 0
    PROVE  IInv'
<1>1. /\ TypeOK /\ Reported /\ Collected /\ Recorded /\ Taken /\ Acting
      /\ Born /\ Queued /\ Kept /\ Barred
  BY Zenon DEF IInv
<1>2. \A x \in Tasks : kernel[x] # "lent"
  <2>1. IsFiniteSet(Lent(q))
    BY Zenon, TasksAssumption, FS_Subset DEF Lent
  <2>2. Lent(q) = {}
    BY Zenon, <1>1, <2>1, FS_EmptySet DEF Taken
  <2> QED
    BY Zenon, <1>1, <2>2 DEF Taken, Lent
<1>3. /\ asked' = asked /\ child' = child /\ lost' = lost /\ stage' = "off" /\ actor' = None
      /\ q' \in QType /\ q'.waiting = 0 /\ q'.borrowed = 0 /\ left' \in Nat
      /\ \A x \in Tasks : q'.part[x] = Off
      /\ q'.part = [t \in Tasks |-> Off]
  BY ZenonT(30) DEF Freed
<1>4. /\ thread' \in [Tasks -> ThreadType]
      /\ \A x \in Tasks : thread'[x].born = thread[x].born /\ thread'[x].initial = thread[x].initial
      /\ \A x \in G : ~thread'[x].stopped /\ ~thread'[x].active /\ ~thread'[x].parked
      /\ \A x \in Tasks \ G : thread'[x].stopped = thread[x].stopped /\ thread'[x].active = thread[x].active
                              /\ ~thread[x].parked /\ ~thread'[x].parked /\ ~Keeps("synthetic", x)
  BY Zenon DEF Freed
<1>5. \A x \in G : thread[x].born /\ Caught(x) /\ (kernel[x] = "stopped" => ~Deferred(q, x))
  BY Zenon DEF Freed
<1>6. ASSUME actor # None, actor \notin G
      PROVE  /\ actor \in Tasks /\ kernel[actor] = "stopped" /\ Keeps("repair", actor)
             /\ ~Deferred(q, actor) /\ ~thread[actor].active /\ Caught(actor)
             /\ thread[actor].born /\ thread[actor].stopped
  <2>1. actor \in Tasks /\ kernel[actor] = "stopped" /\ thread[actor].born /\ thread[actor].stopped
    BY Zenon, <1>1, <1>2, <1>6 DEF Acting, TypeOK
  <2>2. /\ Keeps("repair", actor) /\ (Deferred(q, actor) => Keeps("deferred", actor))
        /\ thread[actor].active => Keeps("handler", actor)
    BY Zenon DEF Keeps
  <2> QED
    BY Zenon, <1>1, <2>1, <2>2 DEF Kept, Keepers, Caught
<1>7. \A x \in Tasks : Deferred(q', x) <=> Deferred(q, x) \/ (x = actor /\ x \notin G)
  <2>1. q.deferred \in Seq(EntryType)
    BY Zenon, <1>1, Entries
  <2>2. CASE q'.deferred = q.deferred /\ (actor = None \/ actor \in G)
    BY Zenon, <2>2, TasksAssumption DEF Deferred
  <2>3. CASE /\ q'.deferred = Append(q.deferred, [task |-> actor, status |-> "stop"])
             /\ actor # None /\ actor \notin G
    <3>1. [task |-> actor, status |-> "stop"] \in EntryType
      BY ZenonT(30), <1>6, <2>3 DEF EntryType, Statuses
    <3>2. /\ DOMAIN q'.deferred = 1 .. (Len(q.deferred) + 1) /\ DOMAIN q.deferred = 1 .. Len(q.deferred)
          /\ \A i \in DOMAIN q.deferred : q'.deferred[i] = q.deferred[i]
          /\ q'.deferred[Len(q.deferred) + 1] = [task |-> actor, status |-> "stop"]
          /\ Len(q.deferred) \in Nat
      BY SMTT(30), <2>1, <2>3, <3>1
    <3>3. q'.deferred[Len(q.deferred) + 1].task = actor
      BY SMTT(30), <3>2
    <3>4. \A i \in DOMAIN q'.deferred : i \in DOMAIN q.deferred \/ i = Len(q.deferred) + 1
      BY SMTT(30), <3>2
    <3>5. DOMAIN q.deferred \subseteq DOMAIN q'.deferred /\ Len(q.deferred) + 1 \in DOMAIN q'.deferred
      BY SMTT(30), <3>2
    <3>6. \A x \in Tasks : Deferred(q', x) <=> Deferred(q, x) \/ x = actor
      BY Zenon, <3>2, <3>3, <3>4, <3>5 DEF Deferred
    <3> QED
      BY Zenon, <2>3, <3>6
  <2> QED
    BY Zenon, <2>2, <2>3 DEF Freed
<1>8. \A p : Births(q', p) <=> Births(q, p)
  <2>1. q.deferred \in Seq(EntryType)
    BY SMTT(30), <1>1, Entries
  <2>2. CASE q'.deferred = q.deferred
    BY Zenon, <2>2 DEF Births
  <2>3. CASE /\ q'.deferred = Append(q.deferred, [task |-> actor, status |-> "stop"])
             /\ actor # None /\ actor \notin G
    <3>1. [task |-> actor, status |-> "stop"] \in EntryType
      BY SMTT(30), <1>6, <2>3 DEF EntryType, Statuses
    <3>2. /\ \A i \in DOMAIN q'.deferred : i \in DOMAIN q.deferred \/ q'.deferred[i].status = "stop"
          /\ \A i \in DOMAIN q.deferred : i \in DOMAIN q'.deferred /\ q'.deferred[i] = q.deferred[i]
      BY SMTT(30), <2>1, <2>3, <3>1
    <3>3. \A i \in DOMAIN q'.deferred : \A p : q'.deferred[i] = [task |-> p, status |-> "birth"] => i \in DOMAIN q.deferred
      BY <3>2
    <3> QED
      BY Zenon, <3>2, <3>3 DEF Births
  <2> QED
    BY ZenonT(30), <2>2, <2>3 DEF Freed
<1>9. /\ kernel' \in [Tasks -> {"unborn", "running", "stopped", "lent", "exiting", "leaving", "dead"}]
      /\ event' \in [Tasks -> Statuses \cup {None}]
      /\ \A x \in Tasks \ G : kernel'[x] = kernel[x] /\ event'[x] = event[x]
      /\ \A x \in G : kernel'[x] = CASE kernel[x] = "stopped" -> "running"
                                     [] kernel[x] = "exiting" -> "leaving"
                                     [] OTHER -> kernel[x]
      /\ \A x \in G : event'[x] = IF kernel[x] = "exiting" THEN None ELSE event[x]
  <2>1. /\ kernel \in [Tasks -> {"unborn", "running", "stopped", "lent", "exiting", "leaving", "dead"}]
        /\ event \in [Tasks -> Statuses \cup {None}]
    BY Zenon, <1>1, QTyped DEF TypeOK
  <2> QED
    BY Zenon, <2>1 DEF Freed, Continues, Unreported
<1>10. \A x \in G : /\ kernel[x] \in {"stopped", "exiting", "leaving", "dead"}
                    /\ kernel[x] = "stopped" => event[x] = None
  BY SMTT(30), <1>1, <1>2, <1>5 DEF Collected, Reported, Fits, TypeOK

<1>11. TypeOK'
  BY ZenonT(30), <1>1, <1>3, <1>4, <1>9, TasksAssumption
  DEF TypeOK, QType, PartType, EntryType, Statuses, ThreadType
<1>12. Reported'
  <2>1. \A x \in Tasks : Fits(kernel'[x], event'[x])
    BY SMTT(30), <1>1, <1>9, <1>10 DEF Reported, Fits
  <2>2. \A x \in Tasks : kernel'[x] = "unborn" => kernel[x] = "unborn"
    BY Zenon, <1>9, <1>10
  <2> QED
    BY Zenon, <1>1, <1>4, <2>1, <2>2 DEF Reported
<1>13. \A x \in Tasks : Caught(x)' <=> thread'[x].stopped \/ Deferred(q', x)
  BY Zenon, <1>3, OffType DEF Caught
<1>14. Collected'
  <2>1. ASSUME NEW x \in Tasks, Caught(x)'
        PROVE  kernel'[x] \notin {"unborn", "running"} /\ event'[x] \notin {"stop", "trap", "birth"}
    <3>1. CASE x \in G
      <4>1. Deferred(q, x)
        BY Zenon, <1>4, <1>7, <1>13, <2>1, <3>1
      <4> QED
        BY Zenon, <1>1, <1>5, <1>9, <1>10, <3>1, <4>1 DEF Collected, None
    <3>2. CASE x \notin G
      <4>1. Caught(x)
        BY SMTT(30), <1>3, <1>4, <1>6, <1>7, <1>13, <2>1, <3>2, TasksAssumption DEF Caught
      <4> QED
        BY Zenon, <1>1, <1>9, <3>2, <4>1 DEF Collected
    <3> QED
      BY Zenon, <3>1, <3>2
  <2> QED
    BY Zenon, <2>1 DEF Collected
<1>15. Recorded'
  <2>1. \A x \in Tasks : event'[x] = "birth" => event[x] = "birth"
    BY Zenon, <1>9 DEF None
  <2>2. \A x \in G : /\ thread'[x].active \/ thread'[x].parked => thread'[x].born /\ thread'[x].stopped
                     /\ ~(thread'[x].active /\ thread'[x].parked)
                     /\ thread'[x].stopped => thread'[x].initial
                     /\ thread'[x].initial => thread'[x].born \/ thread'[x].stopped
    BY Zenon, <1>4, <1>5
  <2>3. \A x \in Tasks \ G :
           /\ thread'[x].active \/ thread'[x].parked => thread'[x].born /\ thread'[x].stopped
           /\ ~(thread'[x].active /\ thread'[x].parked)
           /\ thread'[x].stopped => thread'[x].initial
           /\ thread'[x].initial => thread'[x].born \/ thread'[x].stopped
    BY Zenon, <1>1, <1>4 DEF Recorded
  <2> QED
    BY Zenon, <1>1, <1>4, <2>1, <2>2, <2>3 DEF Recorded
<1>16. Taken'
  <2>1. Waiting(q') = {} /\ Lent(q') = {}
    BY Zenon, <1>3, OffType DEF Waiting, Lent
  <2>2. Counted(q') /\ q'.borrowed = Cardinality(Lent(q'))
    BY Zenon, <1>3, <2>1, FS_EmptySet DEF Counted
  <2>3. \A x \in Tasks :
          /\ ~q'.part[x].member => q'.part[x] = Off
          /\ q'.part[x].borrowed <=> kernel'[x] = "lent"
          /\ q'.part[x].resume => thread'[x].born
          /\ q'.part[x].interrupted /\ ~q'.part[x].stopped => q'.part[x].resume
          /\ q'.part[x].synthetic => q'.part[x].stopped
          /\ thread'[x].stopped => q'.part[x].stopped /\ ~q'.part[x].synthetic
    BY SMTT(30), <1>2, <1>3, <1>9, <1>10, OffType
  <2>4. \A x \in Tasks : ~thread'[x].parked
    BY Zenon, <1>4
  <2> QED
    BY Zenon, <1>3, <2>2, <2>3, <2>4 DEF Taken
<1>17. Acting'
  BY Zenon, <1>3 DEF Acting
<1>18. \A p, x \in Tasks : Pending(p, x)' <=> Pending(p, x)
  <2>1. \A p \in Tasks : event'[p] = "birth" <=> event[p] = "birth"
    BY Zenon, <1>1, <1>9, <1>10 DEF None, Reported, Fits
  <2>2. \A p, x : /\ Pending(p, x) <=> \/ event[p] = "birth" /\ child[p] = x
                                       \/ lost[p] = x
                                       \/ child[p] = x /\ Births(q, p)
                  /\ Pending(p, x)' <=> \/ event'[p] = "birth" /\ child'[p] = x
                                        \/ lost'[p] = x
                                        \/ child'[p] = x /\ Births(q', p)
    BY Zenon DEF Pending, Births
  <2> QED
    BY Zenon, <1>3, <1>8, <2>1, <2>2
<1>19. Born'
  <2>1. \A p, x \in Tasks : Pending(p, x)' =>
           p # x /\ ~thread'[x].born /\ kernel'[x] \in {"running", "stopped", "lent", "exiting"}
    <3>1. \A p, x \in Tasks : Pending(p, x) => x \notin G
      BY Zenon, <1>1, <1>5 DEF Born
    <3> QED
      BY ZenonT(30), <1>1, <1>4, <1>9, <1>18, <3>1 DEF Born
  <2>2. \A p, r, x \in Tasks : Pending(p, x)' /\ Pending(r, x)' => p = r
    BY Zenon, <1>1, <1>18 DEF Born
  <2>3. \A x \in Tasks : kernel'[x] = "running" /\ ~thread'[x].born =>
           asked'[x] /\ ~thread'[x].initial /\ \E p \in Tasks : Pending(p, x)'
    <3> SUFFICES ASSUME NEW x \in Tasks, kernel'[x] = "running", ~thread'[x].born
                 PROVE  asked'[x] /\ ~thread'[x].initial /\ \E p \in Tasks : Pending(p, x)'
      BY Zenon
    <3>1. x \notin G /\ kernel[x] = "running" /\ ~thread[x].born
      BY Zenon, <1>4, <1>5, <1>9
    <3> QED
      BY Zenon, <1>1, <1>3, <1>4, <1>18, <3>1 DEF Born
  <2>4. \A p \in Tasks : lost'[p] # None =>
          /\ kernel'[p] \in {"exiting", "leaving", "dead"}
          /\ \A i \in DOMAIN q'.deferred : q'.deferred[i] # [task |-> p, status |-> "birth"]
    <3>1. \A p \in Tasks : lost[p] # None => kernel[p] \in {"exiting", "leaving", "dead"} /\ ~Births(q, p)
      BY Zenon, <1>1 DEF Born, Births
    <3>2. \A p \in Tasks : kernel[p] \in {"exiting", "leaving", "dead"} => kernel'[p] \in {"exiting", "leaving", "dead"}
      BY Zenon, <1>9
    <3>3. \A p \in Tasks : lost'[p] # None => kernel'[p] \in {"exiting", "leaving", "dead"} /\ ~Births(q', p)
      BY Zenon, <1>3, <1>8, <3>1, <3>2
    <3> QED
      BY Zenon, <3>3 DEF Births
  <2> QED
    BY Zenon, <2>1, <2>2, <2>3, <2>4 DEF Born
<1>20. Queued'
  <2>1. \A x \in Tasks : /\ kernel[x] \in {"exiting", "leaving", "dead"} => kernel'[x] \in {"exiting", "leaving", "dead"}
                         /\ kernel[x] = "dead" => kernel'[x] = "dead"
    BY Zenon, <1>9
  <2>2. \A i \in DOMAIN q.deferred : q.deferred[i].task \in Tasks
    BY Zenon, <1>1, Entries
  <2>3. CASE q'.deferred = q.deferred
    <3>1. ASSUME NEW i \in DOMAIN q.deferred, NEW j \in DOMAIN q.deferred, i # j,
                 q.deferred[i].task = q.deferred[j].task
          PROVE  /\ kernel'[q.deferred[i].task] \in {"exiting", "leaving", "dead"}
                 /\ q.deferred[i].status # "birth" \/ q.deferred[j].status # "birth"
      BY Zenon, <1>1, <2>1, <2>2, <3>1 DEF Queued
    <3>2. ASSUME NEW i \in DOMAIN q.deferred, q.deferred[i].status = "exit"
          PROVE  kernel'[q.deferred[i].task] = "dead"
      BY Zenon, <1>1, <2>1, <2>2, <3>2 DEF Queued
    <3> QED
      BY ZenonT(30), <2>3, <3>1, <3>2 DEF Queued
  <2>4. CASE /\ q'.deferred = Append(q.deferred, [task |-> actor, status |-> "stop"])
             /\ actor # None /\ actor \notin G
    <3>1. q.deferred \in Seq(EntryType) /\ [task |-> actor, status |-> "stop"] \in EntryType
      BY Zenon, <1>1, <1>6, <2>4, Entries DEF EntryType, Statuses
    <3>2. \A i \in DOMAIN q'.deferred :
             \/ i \in DOMAIN q.deferred /\ q'.deferred[i] = q.deferred[i]
             \/ /\ i = Len(q.deferred) + 1 /\ q'.deferred[i].task = actor /\ q'.deferred[i].status = "stop"
      BY SMTT(30), <2>4, <3>1
    <3>3. \A i \in DOMAIN q.deferred : q.deferred[i].task # actor
      BY Zenon, <1>6, <2>4 DEF Deferred
    <3> QED
      BY SMTT(30), <1>1, <2>1, <2>2, <3>2, <3>3 DEF Queued
  <2> QED
    BY Zenon, <2>3, <2>4 DEF Freed
<1>21. Kept'
  <2> SUFFICES ASSUME NEW x \in Tasks
               PROVE  /\ kernel'[x] \in {"stopped", "lent"} =>
                            \A j, k \in Keepers : Keeps(j, x)' /\ Keeps(k, x)' => j = k
                      /\ kernel'[x] \in {"stopped", "lent", "exiting"} /\ event'[x] = None =>
                            \E k \in Keepers : Keeps(k, x)'
    BY Zenon DEF Kept
  <2>1. ~Keeps("synthetic", x)' /\ ~Keeps("repair", x)' /\ ~Keeps("parked", x)'
    BY Zenon, <1>3, <1>4, OffType, TasksAssumption DEF Keeps
  <2>2. CASE x \in G
    BY Zenon, <1>9, <1>10, <2>2
  <2>3. CASE x \notin G /\ x = actor
    <3>1. /\ actor # None /\ kernel[x] = "stopped" /\ Keeps("repair", x) /\ thread[x].born
          /\ ~thread[x].active
      BY Zenon, <1>6, <2>3, TasksAssumption
    <3>2. Keeps("deferred", x)' /\ ~Keeps("handler", x)' /\ ~Keeps("birth", x)'
      BY Zenon, <1>4, <1>7, <2>3, <3>1 DEF Keeps
    <3> QED
      BY Zenon, <2>1, <3>2 DEF Keepers
  <2>4. CASE x \notin G /\ x # actor
    <3>1. ~Keeps("synthetic", x) /\ ~Keeps("repair", x) /\ ~Keeps("parked", x)
      BY Zenon, <1>4, <2>4 DEF Keeps
    <3>2. /\ Keeps("handler", x)' <=> Keeps("handler", x)
          /\ Keeps("deferred", x)' <=> Keeps("deferred", x)
          /\ Keeps("birth", x)' <=> Keeps("birth", x)
      BY Zenon, <1>4, <1>7, <2>4 DEF Keeps
    <3>3. \A k \in Keepers : Keeps(k, x)' <=> Keeps(k, x)
      BY Zenon, <2>1, <3>1, <3>2 DEF Keepers
    <3> QED
      BY SMTT(30), <1>1, <1>9, <2>4, <3>3 DEF Kept
  <2> QED
    BY Zenon, <2>2, <2>3, <2>4
<1>22. Barred'
  BY Zenon, <1>3 DEF Barred
<1> QED
  BY Zenon, <1>11, <1>12, <1>14, <1>15, <1>16, <1>17, <1>19, <1>20, <1>21, <1>22 DEF IInv

\* No lent task, no loan.
LEMMA NoLoan ==
    ASSUME IInv, stage = "off"
    PROVE  /\ q.borrowed = 0 /\ q.waiting = 0 /\ actor = None /\ q \in QType
           /\ q.part = [x \in Tasks |-> Off] /\ \A x \in Tasks : q.part[x] = Off /\ ~thread[x].parked
<1>1. TypeOK /\ Taken /\ Acting
  BY Zenon DEF IInv
<1>2. q.part = [x \in Tasks |-> Off] /\ \A x \in Tasks : q.part[x] = Off /\ ~thread[x].parked
  BY <1>1 DEF Taken
<1>3. Waiting(q) = {}
  BY Zenon, <1>2, OffType DEF Waiting
<1> QED
  BY Zenon, <1>1, <1>2, <1>3, FS_EmptySet, QTyped DEF Taken, Counted, Acting

\* A handler resumes its task while there is no repair.
LEMMA ResumeStep ==
    ASSUME IInv, NEW t \in Tasks, Resume(t), stage = "off"
    PROVE  IInv'
<1>1. /\ TypeOK /\ Recorded /\ Kept
  BY Zenon DEF IInv
<1>2. /\ q.borrowed = 0 /\ q.waiting = 0 /\ actor = None /\ q \in QType
      /\ q.part = [x \in Tasks |-> Off] /\ \A x \in Tasks : q.part[x] = Off /\ ~thread[x].parked
  BY Zenon, NoLoan
<1>3. /\ thread \in [Tasks -> ThreadType] /\ thread[t].active
      /\ thread' = [thread EXCEPT ![t].active = FALSE, ![t].stopped = FALSE]
  BY Zenon, <1>1, QTyped DEF Resume
<1>4. /\ thread' \in [Tasks -> ThreadType] /\ ~thread'[t].active /\ ~thread'[t].stopped
      /\ \A x \in Tasks \ {t} : thread'[x] = thread[x]
      /\ \A x \in Tasks : /\ thread'[x].born = thread[x].born /\ thread'[x].initial = thread[x].initial
                          /\ thread'[x].parked = thread[x].parked
  BY ZenonT(30), <1>3 DEF ThreadType
<1>5. /\ kernel' = Continues({t}) /\ event' = Unreported(event, {t})
      /\ UNCHANGED <<asked, child, lost>> /\ q' = q
      /\ stage' = "off" /\ actor' = None /\ left' \in Nat
  BY Zenon, <1>1, <1>2 DEF Resume, repair, TypeOK
<1>6. thread[t].born /\ Caught(t) /\ (kernel[t] = "stopped" => ~Deferred(q, t))
  <2>1. thread[t].born /\ Caught(t)
    BY Zenon, <1>1, <1>3 DEF Recorded, Caught
  <2>2. Keeps("handler", t) /\ (Deferred(q, t) => Keeps("deferred", t))
    BY Zenon, <1>3 DEF Keeps
  <2> QED
    BY Zenon, <1>1, <2>1, <2>2 DEF Kept, Keepers
<1>7. \A x \in Tasks : ~Keeps("synthetic", x)
  BY Zenon, <1>2, OffType DEF Keeps
<1>8. Freed({t})
  BY Zenon, <1>2, <1>4, <1>5, <1>6, <1>7 DEF Freed
<1> QED
  BY Zenon, <1>2, <1>8, FreedStep

\* The end of a repair, b being the structure it leaves.
LEMMA LetGoStep ==
    ASSUME IInv, stage # "off", q.borrowed = 0, NEW b \in QType, NEW M \in SUBSET {actor},
           LetGo(b, M), UNCHANGED <<asked, child, lost>>,
           \/ b = q /\ M = {actor}
           \/ /\ b.deferred = Append(q.deferred, [task |-> actor, status |-> "stop"])
              /\ M = {} /\ b.borrowed = 0 /\ ~b.part[actor].synthetic
              /\ \A x \in Tasks \ {actor} : b.part[x] = q.part[x]
    PROVE  IInv'
<1>1. TypeOK /\ Recorded /\ Taken /\ Acting /\ Kept
  BY Zenon DEF IInv
<1>2. actor \in Tasks /\ actor # None
  BY Zenon, <1>1 DEF Acting, TypeOK
<1> DEFINE G == Resumed(b) \cup {x \in Tasks : thread[x].parked} \cup M
<1>3. /\ kernel' = Continues(G) /\ event' = Unreported(event, G)
      /\ thread' = [x \in Tasks |-> IF x \in G
                                    THEN [thread[x] EXCEPT !.parked = FALSE, !.stopped = FALSE,
                                                           !.pending = @ /\ x \notin Resumed(b)]
                                    ELSE thread[x]]
      /\ q' = Released(b) /\ stage' = "off" /\ actor' = None /\ left' = 0
  BY Zenon DEF LetGo
<1>4. /\ thread[actor].born /\ thread[actor].stopped /\ Keeps("repair", actor) /\ ~Keeps("synthetic", actor)
      /\ ~thread[actor].active /\ ~thread[actor].parked /\ ~Deferred(q, actor)
  <2>1. kernel[actor] \in {"stopped", "lent"} /\ thread[actor].born /\ thread[actor].stopped
    BY Zenon, <1>1, <1>2 DEF Acting
  <2>2. /\ Keeps("repair", actor) /\ (thread[actor].active => Keeps("handler", actor))
        /\ thread[actor].parked => Keeps("parked", actor)
        /\ Deferred(q, actor) => Keeps("deferred", actor)
    BY Zenon DEF Keeps
  <2> QED
    BY Zenon, <1>1, <1>2, <2>1, <2>2 DEF Kept, Keepers
<1>5. \A x \in Tasks : x \in G <=> Keeps("synthetic", x) \/ thread[x].parked \/ x \in M
  <2>1. \A x \in Tasks : Keeps("synthetic", x) => q.part[x].member
    BY Zenon, <1>1, OffType DEF Taken, Keeps
  <2>2. \A x \in Tasks : x \in Resumed(b) <=> b.part[x].member /\ b.part[x].synthetic /\ b.part[x].resume
    BY Zenon DEF Resumed
  <2>3. \A x \in Tasks : x \in Resumed(q) <=> q.part[x].member /\ q.part[x].synthetic /\ q.part[x].resume
    BY Zenon DEF Resumed
  <2>4. \A x \in Tasks : Keeps("synthetic", x) <=> x \in Resumed(q)
    BY Zenon, <2>1, <2>3 DEF Keeps
  <2>5. \A x \in Tasks : x \in Resumed(b) <=> Keeps("synthetic", x)
    BY Zenon, <1>4, <2>2, <2>3, <2>4
  <2> QED
    BY Zenon, <2>5
<1>6. G \in SUBSET Tasks /\ (actor \in G <=> M = {actor})
  BY Zenon, <1>2, <1>4, <1>5 DEF Resumed
<1> HIDE DEF G
<1>7. /\ thread' \in [Tasks -> ThreadType]
      /\ \A x \in Tasks : /\ thread'[x].born = thread[x].born /\ thread'[x].initial = thread[x].initial
                          /\ thread'[x].active = thread[x].active
      /\ \A x \in G : ~thread'[x].stopped /\ ~thread'[x].parked
      /\ \A x \in Tasks \ G : thread'[x] = thread[x]
  <2>1. thread \in [Tasks -> ThreadType]
    BY Zenon, <1>1, QTyped
  <2>2. \A x \in Tasks : [thread[x] EXCEPT !.parked = FALSE, !.stopped = FALSE,
                                           !.pending = @ /\ x \notin Resumed(b)] \in ThreadType
    <3> SUFFICES ASSUME NEW x \in Tasks, NEW u, u = (thread[x].pending /\ x \notin Resumed(b))
                 PROVE  [thread[x] EXCEPT !.parked = FALSE, !.stopped = FALSE, !.pending = u] \in ThreadType
      BY Zenon
    <3>1. thread[x] \in ThreadType /\ u \in BOOLEAN
      BY <2>1, Zenon
    <3> QED
      BY <3>1, Zenon DEF ThreadType
  <2>3. \A x \in Tasks : thread'[x] = IF x \in G
                                      THEN [thread[x] EXCEPT !.parked = FALSE, !.stopped = FALSE,
                                                             !.pending = @ /\ x \notin Resumed(b)]
                                      ELSE thread[x]
    BY Zenon, <1>3
  <2>4. thread' \in [Tasks -> ThreadType]
    BY Zenon, <1>3, <2>1, <2>2
  <2>5. \A x \in G : /\ ~thread'[x].stopped /\ ~thread'[x].parked
                     /\ thread'[x].born = thread[x].born /\ thread'[x].initial = thread[x].initial
                     /\ thread'[x].active = thread[x].active
    <3> SUFFICES ASSUME NEW x \in G
                 PROVE  /\ ~thread'[x].stopped /\ ~thread'[x].parked
                        /\ thread'[x].born = thread[x].born /\ thread'[x].initial = thread[x].initial
                        /\ thread'[x].active = thread[x].active
      BY Zenon
    <3>1. /\ thread[x] \in ThreadType
          /\ thread'[x] = [thread[x] EXCEPT !.parked = FALSE, !.stopped = FALSE,
                                            !.pending = @ /\ x \notin Resumed(b)]
      BY Zenon, <1>6, <2>1, <2>3
    <3> QED
      BY Zenon, <3>1 DEF ThreadType
  <2>6. \A x \in Tasks \ G : thread'[x] = thread[x]
    BY Zenon, <2>3
  <2> QED
    BY Zenon, <2>4, <2>5, <2>6
<1>8. \A x \in G : /\ thread[x].born /\ ~thread[x].active /\ Caught(x)
                   /\ kernel[x] = "stopped" => ~Deferred(q, x)
  <2> SUFFICES ASSUME NEW x \in G
               PROVE  /\ thread[x].born /\ ~thread[x].active /\ Caught(x)
                      /\ kernel[x] = "stopped" => ~Deferred(q, x)
    BY Zenon
  <2>1. x \in Tasks
    BY Zenon, <1>6
  <2>2. PICK k \in {"synthetic", "parked", "repair"} : Keeps(k, x)
    BY Zenon, <1>4, <1>5, <2>1 DEF Keeps
  <2>3. Caught(x)
    BY Zenon, <1>1, <2>1, <2>2, KeeperCaught
  <2>4. kernel[x] = "stopped" => ~Deferred(q, x)
    <3>1. Deferred(q, x) => Keeps("deferred", x)
      BY Zenon DEF Keeps
    <3> QED
      BY Zenon, <1>1, <2>1, <2>2, <3>1 DEF Kept, Keepers
  <2>5. thread[x].born /\ ~thread[x].active
    <3>1. CASE Keeps("synthetic", x)
      BY Zenon, <1>1, <2>1, <3>1 DEF Keeps, Taken, Recorded
    <3>2. CASE thread[x].parked
      BY Zenon, <1>1, <2>1, <3>2 DEF Recorded
    <3>3. CASE x \in M
      BY Zenon, <1>4, <3>3
    <3> QED
      BY Zenon, <1>5, <2>1, <3>1, <3>2, <3>3
  <2> QED
    BY Zenon, <2>3, <2>4, <2>5
<1>9. /\ q'.part = [x \in Tasks |-> Off] /\ q'.waiting = 0 /\ q'.borrowed = 0
      /\ q'.deferred = b.deferred /\ q' \in QType
  <2>1. q' = [b EXCEPT !.part = [x \in Tasks |-> Off], !.waiting = 0]
    BY Zenon, <1>3 DEF Released
  <2>2. [x \in Tasks |-> Off] \in [Tasks -> PartType]
    BY Zenon, OffType
  <2> HIDE DEF Off
  <2> QED
    BY Zenon, <2>1, <2>2 DEF QType
<1>10. \/ q'.deferred = q.deferred /\ (actor = None \/ actor \in G)
       \/ /\ q'.deferred = Append(q.deferred, [task |-> actor, status |-> "stop"])
          /\ actor # None /\ actor \notin G
  BY Zenon, <1>2, <1>6, <1>9
<1>11. Freed(G)
  BY Zenon, <1>3, <1>5, <1>6, <1>7, <1>8, <1>9, <1>10 DEF Freed
<1> QED
  BY Zenon, <1>6, <1>11, FreedStep

\* memory_finish ends the repair.
LEMMA FinishStep ==
    ASSUME IInv, Finish
    PROVE  IInv'
<1>1. /\ stage = "held" /\ q.borrowed = 0 /\ LetGo(q, {actor}) /\ UNCHANGED <<asked, child, lost>>
  BY Zenon DEF Finish
<1>2. q \in QType
  BY Zenon, QTyped DEF IInv
<1> QED
  BY Zenon, <1>1, <1>2, LetGoStep

\* memory_yield_retirement ends it early and defers its own stop.
LEMMA YieldStep ==
    ASSUME IInv, Yield
    PROVE  IInv'
<1>1. TypeOK /\ Taken /\ Acting
  BY Zenon DEF IInv
<1> DEFINE b == Event(q, actor, "stop")
<1>2. stage = "writers" /\ LetGo(b, {}) /\ UNCHANGED <<asked, child, lost>>
  BY Zenon DEF Yield
<1>3. actor \in Tasks /\ q.borrowed = 0 /\ q \in QType
  BY Zenon, <1>1, <1>2, QTyped DEF Acting, TypeOK, Taken
<1>4. Heard(b, q, actor, "stop") /\ ~Synthetic(q, actor, "stop")
  <2>1. \A e \in Statuses : e = "stop" => Heard(Event(q, actor, e), q, actor, e)
    BY Zenon, <1>1, <1>3, EventEffect DEF Taken
  <2> QED
    BY Zenon, <2>1 DEF Statuses, Synthetic
<1> HIDE DEF b
<1>5. /\ b \in QType /\ b.borrowed = 0 /\ ~b.part[actor].synthetic
      /\ b.deferred = Append(q.deferred, [task |-> actor, status |-> "stop"])
      /\ \A x \in Tasks \ {actor} : b.part[x] = q.part[x]
  BY Zenon, <1>3, <1>4 DEF Heard
<1> QED
  BY Zenon, <1>2, <1>3, <1>5, LetGoStep

-----------------------------------------------------------------------------
\* A repair begins.

\* What memory_repair makes of the structure: everyone known joins, and exactly
\* those whose stop has not been collected are awaited.
LEMMA BeginParts ==
    ASSUME IInv, NEW a \in Tasks, Begin(a)
    PROVE  /\ q' \in QType /\ Counted(q') /\ q'.deferred = q.deferred /\ q'.borrowed = q.borrowed
           /\ \A x \in Tasks :
                 /\ q'.part[x].member <=> thread[x].born \/ Deferred(q, x)
                 /\ q'.part[x].stopped <=> ~thread[x].born \/ x = a \/ thread[x].stopped \/ Deferred(q, x)
                 /\ q'.part[x].resume => thread[x].born
                 /\ q'.part[x].interrupted => q'.part[x].resume
                 /\ ~q'.part[x].synthetic /\ ~q'.part[x].borrowed
                 /\ ~q'.part[x].member => q'.part[x] = Off
<1>1. TypeOK /\ q \in QType /\ thread \in [Tasks -> ThreadType]
  BY Zenon, QTyped DEF IInv
<1> DEFINE sel == [x \in Tasks |->
               IF thread[x].born
               THEN [Off EXCEPT !.member = TRUE,
                                !.stopped = x = a \/ thread[x].stopped \/ Deferred(q, x),
                                !.resume = ~(thread[x].pending \/ BirthStopPending(x))]
               ELSE Off]
           w == Cardinality({x \in Tasks : ~sel[x].stopped})
           s == [q EXCEPT !.part = sel, !.waiting = w]
           b == Joined(s)
           joined == [x \in Tasks |-> IF Deferred(s, x) /\ ~sel[x].member THEN [Off EXCEPT !.member = TRUE] ELSE sel[x]]
           part == [x \in Tasks |-> [joined[x] EXCEPT !.interrupted = @ \/ x \in ToInterrupt(b)]]
<1>2. q' = Interrupted(b)
  BY Zenon DEF Begin
<1>3. /\ Off \in PartType /\ Off.stopped /\ ~Off.member /\ ~Off.resume /\ ~Off.borrowed
      /\ ~Off.synthetic /\ ~Off.interrupted
  BY Zenon, OffType
<1>4. \A x \in Tasks : thread[x].stopped \in BOOLEAN /\ Deferred(q, x) \in BOOLEAN
                       /\ thread[x].pending \in BOOLEAN /\ BirthStopPending(x) \in BOOLEAN
                       /\ thread[x].born \in BOOLEAN
  BY Zenon, <1>1 DEF ThreadType, Deferred, BirthStopPending
<1>5. /\ sel \in [Tasks -> PartType]
      /\ \A x \in Tasks :
            /\ sel[x].member <=> thread[x].born
            /\ sel[x].stopped <=> ~thread[x].born \/ x = a \/ thread[x].stopped \/ Deferred(q, x)
            /\ sel[x].resume => thread[x].born
            /\ ~sel[x].synthetic /\ ~sel[x].borrowed /\ ~sel[x].interrupted
            /\ ~thread[x].born => sel[x] = Off
  <2> HIDE DEF Off
  <2> SUFFICES ASSUME NEW x \in Tasks
               PROVE  /\ sel[x] \in PartType
                      /\ sel[x].member <=> thread[x].born
                      /\ sel[x].stopped <=> ~thread[x].born \/ x = a \/ thread[x].stopped \/ Deferred(q, x)
                      /\ sel[x].resume => thread[x].born
                      /\ ~sel[x].synthetic /\ ~sel[x].borrowed /\ ~sel[x].interrupted
                      /\ ~thread[x].born => sel[x] = Off
    BY Zenon
  <2>2. CASE ~thread[x].born
    <3>1. sel[x] = Off
      BY Zenon, <2>2
    <3> QED
      BY Zenon, <1>3, <2>2, <3>1
  <2>3. CASE thread[x].born
    <3> DEFINE st == (x = a \/ thread[x].stopped \/ Deferred(q, x))
               re == ~(thread[x].pending \/ BirthStopPending(x))
    <3>1. st \in BOOLEAN /\ re \in BOOLEAN
      BY Zenon, <1>4
    <3>2. sel[x] = [Off EXCEPT !.member = TRUE, !.stopped = st, !.resume = re]
      BY Zenon, <2>3
    <3>3. /\ sel[x] \in PartType /\ sel[x].member /\ sel[x].stopped = st
          /\ ~sel[x].synthetic /\ ~sel[x].borrowed /\ ~sel[x].interrupted
      <4> HIDE DEF st, re, sel
      <4> QED
        BY Zenon, <1>3, <3>1, <3>2 DEF PartType
    <3> QED
      BY Zenon, <1>4, <2>3, <3>3
  <2> QED
    BY ZenonT(30), <2>2, <2>3
<1>6. w \in Nat
  <2>1. IsFiniteSet({x \in Tasks : ~sel[x].stopped})
    BY Zenon, TasksAssumption, FS_Subset
  <2> QED
    BY Zenon, <2>1, FS_CardinalityType
<1> HIDE DEF sel, w
<1>7. /\ s \in QType /\ s.part = sel /\ s.waiting = w /\ s.deferred = q.deferred /\ s.borrowed = q.borrowed
      /\ \A x : Deferred(s, x) <=> Deferred(q, x)
  BY Zenon, <1>1, <1>5, <1>6 DEF QType, Deferred
<1> HIDE DEF s
<1>8. b.part = joined /\ b = [s EXCEPT !.part = joined]
  BY Zenon, <1>7 DEF Joined, QType
<1>9. /\ joined \in [Tasks -> PartType]
      /\ \A x \in Tasks :
            /\ joined[x].member <=> thread[x].born \/ Deferred(q, x)
            /\ joined[x].stopped = sel[x].stopped /\ joined[x].resume = sel[x].resume
            /\ ~joined[x].synthetic /\ ~joined[x].borrowed /\ ~joined[x].interrupted
            /\ ~joined[x].member => joined[x] = Off
  <2> HIDE DEF Off
  <2>1. LET r == [Off EXCEPT !.member = TRUE]
        IN  /\ r \in PartType /\ r.member /\ r.stopped = Off.stopped /\ r.resume = Off.resume
            /\ ~r.synthetic /\ ~r.borrowed /\ ~r.interrupted
    BY Zenon, <1>3 DEF PartType
  <2> QED
    BY SMTT(30), <1>4, <1>5, <1>7, <2>1
<1> HIDE DEF joined, b
<1>10. /\ q'.part = part /\ q'.waiting = w /\ q'.deferred = q.deferred /\ q'.borrowed = q.borrowed
       /\ q' = [part |-> part, waiting |-> w, borrowed |-> q.borrowed, deferred |-> q.deferred]
  <2>1. q' = [b EXCEPT !.part = part]
    <3>1. Interrupted(b) = [b EXCEPT !.part = [x \in Tasks |-> [b.part[x] EXCEPT !.interrupted = @ \/ x \in ToInterrupt(b)]]]
      BY Zenon DEF Interrupted
    <3>2. b.part = joined
      BY Zenon, <1>8
    <3>3. Interrupted(b) = [b EXCEPT !.part = part]
      BY <3>1, <3>2, Zenon
    <3> QED
      BY <1>2, <3>3, Zenon
  <2> HIDE DEF part
  <2> QED
    BY Zenon, <1>7, <1>8, <2>1 DEF QType
<1>11. /\ part \in [Tasks -> PartType]
       /\ \A x \in Tasks :
             /\ part[x].member = joined[x].member /\ part[x].stopped = joined[x].stopped
             /\ part[x].resume = joined[x].resume /\ ~part[x].synthetic /\ ~part[x].borrowed
             /\ part[x].interrupted => part[x].resume
             /\ ~part[x].member => part[x] = Off
  <2> HIDE DEF Off
  <2> SUFFICES ASSUME NEW x \in Tasks
               PROVE  /\ part[x] \in PartType
                      /\ part[x].member = joined[x].member /\ part[x].stopped = joined[x].stopped
                      /\ part[x].resume = joined[x].resume /\ ~part[x].synthetic /\ ~part[x].borrowed
                      /\ part[x].interrupted => part[x].resume
                      /\ ~part[x].member => part[x] = Off
    BY Zenon
  <2>1. part[x] = [joined[x] EXCEPT !.interrupted = @ \/ x \in ToInterrupt(b)] /\ joined[x] \in PartType
    BY Zenon, <1>9
  <2>2. x \in ToInterrupt(b) => joined[x].member /\ joined[x].resume
    BY Zenon, <1>8 DEF ToInterrupt
  <2>3. CASE x \in ToInterrupt(b)
    <3>1. part[x] = [joined[x] EXCEPT !.interrupted = TRUE]
      BY Zenon, <2>1, <2>3
    <3> HIDE DEF part
    <3> QED
      BY SMTT(30), <1>9, <2>1, <2>2, <2>3, <3>1 DEF PartType
  <2>4. CASE x \notin ToInterrupt(b)
    <3>1. part[x] = joined[x]
      BY SMTT(30), <1>9, <2>1, <2>4 DEF PartType
    <3> QED
      BY Zenon, <1>9, <2>1, <3>1
  <2> QED
    BY Zenon, <2>3, <2>4
<1> HIDE DEF part
<1>12. Waiting(q') = {x \in Tasks : ~sel[x].stopped}
  BY <1>9, <1>10, <1>11 DEF Waiting
<1>13. Counted(q')
  BY Zenon, <1>10, <1>12 DEF Counted, w
<1>14. q' \in QType
  BY Zenon, <1>1, <1>6, <1>10, <1>11 DEF QType
<1> QED
  BY SMTT(30), <1>5, <1>9, <1>10, <1>11, <1>13, <1>14

\* A repair that begins takes its actor over from the handler.
LEMMA BeginStep ==
    ASSUME IInv, NEW a \in Tasks, Begin(a)
    PROVE  IInv'
<1>1. /\ TypeOK /\ Reported /\ Collected /\ Recorded /\ Taken /\ Acting
      /\ Born /\ Queued /\ Kept /\ Barred
  BY Zenon DEF IInv
<1>2. /\ kernel' = kernel /\ event' = event /\ child' = child /\ lost' = lost
      /\ stage = "off" /\ stage' = "writers" /\ actor' = a /\ left' = Len(q.deferred)
      /\ thread[a].active /\ thread[a].born /\ kernel[a] = "stopped"
  BY Zenon DEF Begin
<1>3. /\ thread' \in [Tasks -> ThreadType] /\ ~thread'[a].active
      /\ \A x \in Tasks \ {a} : thread'[x] = thread[x]
      /\ \A x \in Tasks : /\ thread'[x].born = thread[x].born /\ thread'[x].initial = thread[x].initial
                          /\ thread'[x].stopped = thread[x].stopped /\ thread'[x].parked = thread[x].parked
  <2>1. thread \in [Tasks -> ThreadType] /\ thread' = [thread EXCEPT ![a].active = FALSE]
    BY Zenon, <1>1, QTyped DEF Begin
  <2> QED
    BY Zenon, <2>1 DEF ThreadType
<1>4. asked' \in [Tasks -> BOOLEAN] /\ \A x \in Tasks : asked[x] => asked'[x]
  <2>1. PICK S : asked' = [x \in Tasks |-> asked[x] \/ (x \in S /\ kernel[x] \in {"running", "stopped"})]
    BY Zenon DEF Begin
  <2> QED
    BY Zenon, <1>1, <2>1 DEF TypeOK
<1>5. /\ q' \in QType /\ Counted(q') /\ q'.deferred = q.deferred /\ q'.borrowed = q.borrowed
      /\ \A x \in Tasks :
            /\ q'.part[x].member <=> thread[x].born \/ Deferred(q, x)
            /\ q'.part[x].stopped <=> ~thread[x].born \/ x = a \/ thread[x].stopped \/ Deferred(q, x)
            /\ q'.part[x].resume => thread[x].born
            /\ q'.part[x].interrupted => q'.part[x].resume
            /\ ~q'.part[x].synthetic /\ ~q'.part[x].borrowed
            /\ ~q'.part[x].member => q'.part[x] = Off
  BY Zenon, BeginParts
<1>6. /\ q.borrowed = 0 /\ actor = None /\ \A x \in Tasks : q.part[x] = Off
  BY Zenon, <1>2, NoLoan
<1>7. thread[a].stopped /\ Caught(a) /\ a # None
  BY Zenon, <1>1, <1>2, TasksAssumption DEF Recorded, Caught
<1>8. TypeOK'
  <2>1. Len(q.deferred) \in Nat
    BY <1>1, Entries
  <2> QED
    BY Zenon, <1>1, <1>2, <1>3, <1>4, <1>5, <2>1 DEF TypeOK, QType, PartType, EntryType, Statuses, ThreadType
<1>9. \A x \in Tasks : /\ Deferred(q', x) <=> Deferred(q, x)
                       /\ Caught(x)' => Caught(x)
  <2>1. \A x \in Tasks : Deferred(q', x) <=> Deferred(q, x)
    BY Zenon, <1>5 DEF Deferred
  <2> QED
    BY Zenon, <1>3, <1>5, <1>7, <2>1 DEF Caught
<1>10. Reported' /\ Collected' /\ Recorded'
  <2>1. Recorded'
    BY Zenon, <1>1, <1>2, <1>3 DEF Recorded
  <2>2. Reported'
    BY Zenon, <1>1, <1>2, <1>3 DEF Reported
  <2>3. \A x \in Tasks : Caught(x)' => Caught(x)
    BY Zenon, <1>9
  <2>4. Collected'
    BY Zenon, <1>1, <1>2, <2>3 DEF Collected
  <2> QED
    BY Zenon, <2>1, <2>2, <2>4
<1>11. Taken'
  <2>1. \A x \in Tasks : kernel[x] # "lent"
    BY ZenonT(30), <1>1, <1>6, OffType DEF Taken
  <2>2. Lent(q') = {} /\ q'.borrowed = Cardinality(Lent(q'))
    BY Zenon, <1>5, <1>6, FS_EmptySet DEF Lent
  <2>3. \A x \in Tasks :
          /\ ~q'.part[x].member => q'.part[x] = Off
          /\ q'.part[x].borrowed <=> kernel'[x] = "lent"
          /\ q'.part[x].resume => thread'[x].born
          /\ q'.part[x].interrupted /\ ~q'.part[x].stopped => q'.part[x].resume
          /\ q'.part[x].synthetic => q'.part[x].stopped
          /\ thread'[x].stopped => q'.part[x].stopped /\ ~q'.part[x].synthetic
    BY Zenon, <1>2, <1>3, <1>5, <2>1
  <2> QED
    BY Zenon, <1>2, <1>5, <1>6, <2>2, <2>3 DEF Taken
<1>12. Acting'
  BY ZenonT(30), <1>2, <1>3, <1>5, <1>7 DEF Acting
<1>13. Born'
  <2>1. \A p, x : Pending(p, x)' <=> Pending(p, x)
    BY ZenonT(30), <1>2, <1>5 DEF Pending
  <2> QED
    BY SMTT(30), <1>1, <1>2, <1>3, <1>4, <1>5, <2>1 DEF Born
<1>14. Queued'
  BY SMTT(30), <1>1, <1>2, <1>5 DEF Queued
<1>15. Kept'
  <2>0. actor' = a /\ \A x \in Tasks : Deferred(q', x) <=> Deferred(q, x)
    BY Zenon, <1>2, <1>9
  <2>1. \A x \in Tasks \ {a} : \A k \in Keepers : Keeps(k, x)' <=> Keeps(k, x)
    <3>1. \A x \in Tasks : ~Keeps("synthetic", x)' /\ ~Keeps("synthetic", x) /\ ~Keeps("repair", x)
      BY Zenon, <1>5, <1>6, OffType, TasksAssumption DEF Keeps
    <3>2. \A x \in Tasks \ {a} : /\ ~Keeps("repair", x)'
                                 /\ Keeps("handler", x)' <=> Keeps("handler", x)
                                 /\ Keeps("parked", x)' <=> Keeps("parked", x)
                                 /\ Keeps("deferred", x)' <=> Keeps("deferred", x)
                                 /\ Keeps("birth", x)' <=> Keeps("birth", x)
      BY ZenonT(30), <1>3, <2>0 DEF Keeps
    <3> QED
      BY Zenon, <3>1, <3>2 DEF Keepers
  <2>2. Keeps("handler", a) /\ Keeps("repair", a)' /\ ~Keeps("handler", a)' /\ ~Keeps("synthetic", a)'
    BY Zenon, <1>2, <1>3, <1>5 DEF Keeps
  <2>3. \A k \in {"parked", "deferred", "birth"} : ~Keeps(k, a)
    BY Zenon, <1>1, <1>2, <2>2 DEF Kept, Keepers
  <2>4. \A k \in {"parked", "deferred", "birth"} : Keeps(k, a)' <=> Keeps(k, a)
    BY Zenon, <1>3, <2>0 DEF Keeps
  <2>5. \A k \in Keepers : Keeps(k, a)' => k = "repair"
    BY Zenon, <2>2, <2>3, <2>4 DEF Keepers
  <2> QED
    BY SMTT(30), <1>1, <1>2, <2>1, <2>2, <2>5 DEF Kept, Keepers
<1>16. Barred'
  <2>1. ASSUME NEW x \in Tasks, kernel[x] = "running"
        PROVE  ~q'.part[x].stopped \/ (~thread'[x].born /\ Unseen(x)')
    <3>1. ~thread[x].stopped /\ ~Deferred(q, x) /\ x # a
      BY Zenon, <1>1, <1>2, <2>1 DEF Collected, Caught
    <3>2. CASE thread[x].born
      BY Zenon, <1>5, <3>1, <3>2
    <3>3. CASE ~thread[x].born
      <4>1. PICK p \in Tasks : Pending(p, x)
        BY Zenon, <1>1, <2>1, <3>3 DEF Born
      <4>2. CASE child[p] = x /\ \E i \in DOMAIN q.deferred : q.deferred[i] = [task |-> p, status |-> "birth"]
        <5>1. \A i \in DOMAIN q.deferred : i <= Len(q.deferred)
          BY SMTT(30), <1>1, Entries
        <5>2. BirthDeferred(x, left)'
          BY SMTT(30), <1>2, <1>5, <4>2, <5>1 DEF BirthDeferred
        <5> QED
          BY Zenon, <1>3, <3>3, <5>2 DEF Unseen
      <4>3. CASE (event[p] = "birth" /\ child[p] = x) \/ lost[p] = x
        BY Zenon, <1>2, <1>3, <3>3, <4>3 DEF Unseen
      <4> QED
        BY Zenon, <4>1, <4>2, <4>3 DEF Pending
    <3> QED
      BY Zenon, <3>2, <3>3
  <2>2. ASSUME NEW x \in Tasks, event[x] = "birth"
        PROVE  ~q'.part[x].stopped
    <3>1. ~Caught(x) /\ thread[x].born
      BY Zenon, <1>1, <2>2 DEF Collected, Recorded
    <3> QED
      BY Zenon, <1>5, <1>7, <3>1 DEF Caught
  <2> QED
    BY Zenon, <1>2, <2>1, <2>2 DEF Barred
<1> QED
  BY Zenon, <1>8, <1>10, <1>11, <1>12, <1>13, <1>14, <1>15, <1>16 DEF IInv

-----------------------------------------------------------------------------
\* The barrier gets an event.

\* b is the barrier once t has joined it.
Joining(b, t) ==
    /\ b \in QType /\ Counted(b) /\ b.deferred = q.deferred /\ b.borrowed = q.borrowed
    /\ \A x \in Tasks \ {t} : b.part[x] = q.part[x]
    /\ b.part[t].member /\ b.part[t].stopped = q.part[t].stopped
    /\ b.part[t].resume = q.part[t].resume /\ b.part[t].synthetic = q.part[t].synthetic
    /\ b.part[t].interrupted = q.part[t].interrupted /\ b.part[t].borrowed = q.part[t].borrowed
    /\ \A x \in Tasks : ~b.part[x].member => b.part[x] = Off

\* The structure that hears the event of t: a task nobody knows has joined.
LEMMA Enlisted ==
    ASSUME IInv, NEW t \in Tasks, NEW b,
           \/ q.part[t].member /\ b = q
           \/ ~q.part[t].member /\ b = Add(q, t, TRUE, FALSE)
    PROVE  Joining(b, t)
<1>1. /\ q \in QType /\ Counted(q) /\ \A x \in Tasks : ~q.part[x].member => q.part[x] = Off
  BY Zenon, QTyped DEF IInv, Taken
<1>2. CASE q.part[t].member
  BY Zenon, <1>1, <1>2 DEF Joining
<1>3. CASE ~q.part[t].member
  <2>1. \A r : \A s, v \in BOOLEAN : r = Add(q, t, s, v) =>
          /\ Only(r, q, t) /\ r.deferred = q.deferred /\ r.part[t].member /\ r.part[t].resume = v
          /\ r.part[t].stopped = (s \/ Deferred(q, t))
          /\ r.part[t].synthetic = q.part[t].synthetic
    <3>1. q \in QType /\ Counted(q) /\ (~q.part[t].member => q.part[t] = Off)
      BY Zenon, <1>1
    <3> QED
      BY <3>1, AddEffect
  <2>2. /\ Only(b, q, t) /\ b.deferred = q.deferred /\ b.part[t].member /\ b.part[t].resume = FALSE
        /\ b.part[t].stopped = TRUE /\ b.part[t].synthetic = q.part[t].synthetic
    BY Zenon, <1>3, <2>1
  <2>3. q.part[t].stopped = TRUE /\ q.part[t].resume = FALSE
    <3>1. q.part[t] = Off
      BY Zenon, <1>1, <1>3
    <3> QED
      BY <3>1 DEF Off
  <2> QED
    BY Zenon, <1>1, <2>2, <2>3 DEF Only, Joining
<1> QED
  BY Zenon, <1>2, <1>3

\* memory_event: the barrier hears of a stop, a birth or a death.
LEMMA BarrierEventStep ==
    ASSUME IInv, NEW t \in Tasks, BarrierEvent(t)
    PROVE  IInv'
<1>1. /\ TypeOK /\ Reported /\ Collected /\ Recorded /\ Taken /\ Acting
      /\ Born /\ Queued /\ Kept /\ Barred
  BY DEF IInv
<1> DEFINE e == event[t]
           c == child[t]
           b == IF q.part[t].member THEN q ELSE Add(q, t, TRUE, FALSE)
<1>2. /\ kernel' = kernel /\ asked' = asked /\ child' = child /\ lost' = lost /\ thread' = thread
      /\ stage' = stage /\ actor' = actor /\ left' = left /\ stage # "off"
      /\ e # None /\ ~q.part[t].borrowed
  BY Zenon DEF BarrierEvent, repair
<1>3. /\ event' \in [Tasks -> Statuses \cup {None}] /\ event'[t] = None /\ e \in Statuses /\ c \in Tasks
      /\ \A x \in Tasks \ {t} : event'[x] = event[x]
  BY Zenon, <1>1, <1>2, QTyped DEF BarrierEvent
<1>4. /\ b \in QType /\ Counted(b) /\ b.deferred = q.deferred /\ b.borrowed = q.borrowed
      /\ \A x \in Tasks \ {t} : b.part[x] = q.part[x]
      /\ b.part[t].member /\ b.part[t].stopped = q.part[t].stopped
      /\ b.part[t].resume = q.part[t].resume /\ b.part[t].synthetic = q.part[t].synthetic
      /\ b.part[t].interrupted = q.part[t].interrupted /\ b.part[t].borrowed = q.part[t].borrowed
      /\ \A x \in Tasks : ~b.part[x].member => b.part[x] = Off
  <2>1. \/ q.part[t].member /\ b = q
        \/ ~q.part[t].member /\ b = Add(q, t, TRUE, FALSE)
    BY Zenon
  <2> HIDE DEF b, e, c
  <2>2. Joining(b, t)
    BY Zenon, <2>1, Enlisted
  <2> QED
    BY Zenon, <2>2 DEF Joining
<1>5. e = "birth" => /\ Pending(t, c) /\ c # t /\ ~thread[c].born /\ thread[t].born
                     /\ ~q.part[c].resume /\ stage # "held" /\ event[c] # "birth" /\ lost[t] = None
  <2>1. e = "birth" => Pending(t, c) /\ thread[t].born /\ ~q.part[t].stopped /\ kernel[t] = "stopped"
    BY Zenon, <1>1, <1>2 DEF Pending, Recorded, Barred, Reported, Fits, None
  <2>2. e = "birth" => c # t /\ ~thread[c].born /\ lost[t] = None
    BY Zenon, <1>1, <1>3, <2>1 DEF Born
  <2> QED
    BY Zenon, <1>1, <1>3, <2>1, <2>2 DEF Taken, Recorded
<1>6. q' = Event(b, t, e)
  BY Zenon DEF BarrierEvent
<1> HIDE DEF b
<1>7. Heard(q', b, t, e) /\ (e = "birth" => Awaited(q', b, c))
  BY Zenon, <1>1, <1>3, <1>4, <1>5, <1>6, EventEffect
<1>8. kernel[t] \notin {"unborn", "running", "lent"} /\ (e \in {"stop", "trap", "birth"} => kernel[t] = "stopped" /\ ~Caught(t))
  BY Zenon, <1>1, <1>2 DEF Reported, Fits, Collected
<1>9. ASSUME Synthetic(b, t, e)
      PROVE  e = "trap" /\ q.part[t].resume /\ ~q.part[t].stopped /\ ~thread[t].stopped
  BY Zenon, <1>1, <1>4, <1>9 DEF Synthetic, Taken
<1>10. /\ q' \in QType /\ Counted(q') /\ q'.borrowed = q.borrowed
       /\ \A x \in Tasks : /\ q'.part[x].interrupted = q.part[x].interrupted
                           /\ q'.part[x].borrowed = q.part[x].borrowed
       /\ \A x \in Tasks \ {t} : /\ q'.part[x].synthetic = q.part[x].synthetic
                                 /\ (e = "birth" /\ x = c) \/ q'.part[x] = q.part[x]
       /\ q'.part[t].member /\ q'.part[t].resume = q.part[t].resume /\ q'.part[t].stopped
       /\ q'.part[t].synthetic = Synthetic(b, t, e)
       /\ q'.deferred = IF Synthetic(b, t, e) THEN q.deferred
                        ELSE Append(q.deferred, [task |-> t, status |-> e])
  <2>1. /\ q' \in QType /\ Counted(q') /\ q'.borrowed = q.borrowed
        /\ \A x \in Tasks : /\ q'.part[x].interrupted = b.part[x].interrupted
                            /\ q'.part[x].borrowed = b.part[x].borrowed
        /\ \A x \in Tasks \ {t} : /\ q'.part[x].synthetic = b.part[x].synthetic
                                  /\ (e = "birth" /\ x = c) \/ q'.part[x] = b.part[x]
        /\ q'.part[t].member /\ q'.part[t].resume = q.part[t].resume /\ q'.part[t].stopped
    BY Zenon, <1>4, <1>7 DEF Heard
  <2>2. IF Synthetic(b, t, e)
        THEN q'.part[t].synthetic /\ q'.deferred = q.deferred
        ELSE ~q'.part[t].synthetic /\ q'.deferred = Append(q.deferred, [task |-> t, status |-> e])
    BY Zenon, <1>4, <1>7 DEF Heard
  <2>3. q'.part[t].synthetic \in BOOLEAN /\ Synthetic(b, t, e) \in BOOLEAN
    BY Zenon, <2>1 DEF QType, PartType, Synthetic
  <2> QED
    BY ZenonT(30), <1>4, <2>1, <2>2, <2>3
<1>11. ASSUME e = "birth"
       PROVE  /\ q'.part[c].member /\ ~q'.part[c].resume
              /\ q'.part[c].stopped => Caught(c)
              /\ q'.part[c].stopped \/ (~q.part[c].interrupted /\ ~q.part[c].synthetic) \/ q'.part[c] = q.part[c]
              /\ thread[c].stopped => q'.part[c].stopped
  <2>1. /\ q'.part[c].member
        /\ q'.part[c].resume => q.part[c].resume
        /\ q'.part[c].stopped => (q.part[c].member /\ q.part[c].stopped) \/ Deferred(b, c) \/ thread[c].stopped
        /\ q'.part[c].stopped \/ ~q.part[c].member \/ q'.part[c] = q.part[c]
        /\ ~thread[c].born /\ thread[c].initial /\ thread[c].stopped => q'.part[c].stopped
    BY Zenon, <1>3, <1>4, <1>5, <1>7, <1>11 DEF Awaited
  <2>2. Deferred(b, c) <=> Deferred(q, c)
    BY Zenon, <1>4 DEF Deferred
  <2>3. ~q.part[c].member => ~q.part[c].interrupted /\ ~q.part[c].synthetic
    BY Zenon, <1>1, <1>3, OffType DEF Taken
  <2>4. thread[c].stopped => thread[c].initial
    BY Zenon, <1>1, <1>3 DEF Recorded
  <2> QED
    BY Zenon, <1>5, <1>11, <2>1, <2>2, <2>3, <2>4 DEF Caught
<1> HIDE DEF e, c

<1>12. /\ Len(q.deferred) \in Nat /\ DOMAIN q.deferred = 1 .. Len(q.deferred)
       /\ \A i \in DOMAIN q.deferred : i \in DOMAIN q'.deferred /\ q'.deferred[i] = q.deferred[i]
       /\ \A i \in DOMAIN q'.deferred :
             \/ i \in DOMAIN q.deferred
             \/ ~Synthetic(b, t, e) /\ i = Len(q.deferred) + 1 /\ q'.deferred[i] = [task |-> t, status |-> e]
       /\ ~Synthetic(b, t, e) => /\ Len(q.deferred) + 1 \in DOMAIN q'.deferred
                                 /\ q'.deferred[Len(q.deferred) + 1] = [task |-> t, status |-> e]
  <2>1. q.deferred \in Seq(EntryType)
    BY Zenon, <1>1, Entries
  <2>2. CASE Synthetic(b, t, e)
    BY SMTT(30), <1>10, <2>1, <2>2
  <2>3. CASE ~Synthetic(b, t, e)
    <3>1. q'.deferred = Append(q.deferred, [task |-> t, status |-> e])
      BY Zenon, <1>10, <2>3
    <3> DEFINE y == [task |-> t, status |-> e]
    <3>2. y \in EntryType
      BY Zenon, <1>3 DEF EntryType
    <3> HIDE DEF y
    <3>3. /\ Len(q.deferred) \in Nat /\ DOMAIN q.deferred = 1 .. Len(q.deferred)
          /\ DOMAIN q'.deferred = 1 .. (Len(q.deferred) + 1)
          /\ \A i \in DOMAIN q.deferred : q'.deferred[i] = q.deferred[i]
          /\ q'.deferred[Len(q.deferred) + 1] = y
      BY <2>1, <3>1, <3>2 DEF y
    <3> QED
      BY <2>3, <3>3 DEF y
  <2> QED
    BY Zenon, <2>2, <2>3
<1>13. \A x \in Tasks : Deferred(q', x) <=> Deferred(q, x) \/ (x = t /\ ~Synthetic(b, t, e))
  <2>1. ~Synthetic(b, t, e) => q'.deferred[Len(q.deferred) + 1].task = t
    BY <1>12
  <2> QED
    BY Zenon, <1>12, <2>1 DEF Deferred
<1>14. \A p : Births(q', p) <=> Births(q, p) \/ (p = t /\ e = "birth")
  <2>1. e = "birth" => ~Synthetic(b, t, e)
    BY Zenon, <1>9
  <2>2. \A p : [task |-> t, status |-> e] = [task |-> p, status |-> "birth"] <=> p = t /\ e = "birth"
    BY Zenon
  <2> QED
    BY Zenon, <1>12, <2>1, <2>2 DEF Births
<1>15. TypeOK'
  BY Zenon, <1>1, <1>2, <1>3, <1>10 DEF TypeOK, QType, PartType, EntryType, Statuses
<1>16. Reported'
  BY Zenon, <1>1, <1>2, <1>3 DEF Reported, Fits
<1>17. \A x \in Tasks \ {t} : Caught(x)' => Caught(x)
  <2>1. \A x \in Tasks \ {t} : q'.part[x].member /\ q'.part[x].stopped => Caught(x)
    BY Zenon, <1>10, <1>11 DEF Caught
  <2> QED
    BY Zenon, <1>2, <1>13, <2>1 DEF Caught
<1>18. Collected'
  <2>1. kernel[t] \notin {"unborn", "running"} /\ event'[t] \notin {"stop", "trap", "birth"}
    BY Zenon, <1>3, <1>8 DEF None
  <2> QED
    BY Zenon, <1>1, <1>2, <1>3, <1>17, <2>1 DEF Collected
<1>19. Recorded'
  BY Zenon, <1>1, <1>2, <1>3 DEF Recorded, None
<1>20. Taken'
  <2>1. Lent(q') = Lent(q)
    BY Zenon, <1>10 DEF Lent
  <2>2. ASSUME NEW x \in Tasks
        PROVE  /\ ~q'.part[x].member => q'.part[x] = Off
               /\ q'.part[x].borrowed <=> kernel[x] = "lent"
               /\ q'.part[x].resume => thread[x].born
               /\ q'.part[x].interrupted /\ ~q'.part[x].stopped => q'.part[x].resume
               /\ q'.part[x].synthetic => q'.part[x].stopped
               /\ thread[x].stopped => q'.part[x].stopped /\ ~q'.part[x].synthetic
    <3>1. CASE x = t
      BY Zenon, <1>1, <1>9, <1>10, <3>1 DEF Taken
    <3>2. CASE x # t /\ e = "birth" /\ x = c
      BY Zenon, <1>1, <1>10, <1>11, <3>2 DEF Taken
    <3>3. CASE x # t /\ ~(e = "birth" /\ x = c)
      <4>1. q'.part[x] = q.part[x]
        BY Zenon, <1>10, <3>3
      <4> QED
        BY Zenon, <1>1, <4>1 DEF Taken
    <3> QED
      BY Zenon, <3>1, <3>2, <3>3
  <2>3. stage = "held" => \A x \in Tasks : q'.part[x].stopped
    BY Zenon, <1>1, <1>5, <1>10 DEF Taken, e, c
  <2> QED
    BY Zenon, <1>1, <1>2, <1>10, <2>1, <2>2, <2>3 DEF Taken
<1>21. Acting'
  <2>1. \A x \in Tasks : q.part[x].member => q'.part[x].member
    BY Zenon, <1>10, <1>11
  <2> QED
    BY Zenon, <1>1, <1>2, <2>1 DEF Acting, TypeOK
<1>22. \A p, x \in Tasks : Pending(p, x)' <=> Pending(p, x)
  <2>1. \A p, x : /\ Pending(p, x) <=> \/ event[p] = "birth" /\ child[p] = x
                                       \/ lost[p] = x
                                       \/ child[p] = x /\ Births(q, p)
                  /\ Pending(p, x)' <=> \/ event'[p] = "birth" /\ child'[p] = x
                                        \/ lost'[p] = x
                                        \/ child'[p] = x /\ Births(q', p)
    BY Zenon DEF Pending, Births
  <2>2. \A p \in Tasks : event[p] = "birth" \/ Births(q, p) <=> event'[p] = "birth" \/ Births(q', p)
    BY Zenon, <1>3, <1>14 DEF e, None
  <2> QED
    BY Zenon, <1>2, <2>1, <2>2
<1>23. Born'
  <2>1. \A p \in Tasks : lost'[p] # None =>
          /\ kernel'[p] \in {"exiting", "leaving", "dead"}
          /\ \A i \in DOMAIN q'.deferred : q'.deferred[i] # [task |-> p, status |-> "birth"]
    <3>1. \A p \in Tasks : lost[p] # None => kernel[p] \in {"exiting", "leaving", "dead"} /\ ~Births(q, p)
      BY Zenon, <1>1 DEF Born, Births
    <3>2. \A p \in Tasks : lost[p] # None => ~Births(q', p)
      BY Zenon, <1>5, <1>14, <3>1 DEF e
    <3> QED
      BY Zenon, <1>2, <3>1, <3>2 DEF Births
  <2> QED
    BY SMTT(30), <1>1, <1>2, <1>22, <2>1 DEF Born
<1>24. Queued'
  <2>1. \A i \in DOMAIN q.deferred : q.deferred[i].task = t => e \in {"exiting", "exit"} /\ kernel[t] \in {"exiting", "dead"}
    <3>1. Deferred(q, t) => e \in {"exiting", "exit"} /\ kernel[t] \in {"exiting", "dead"}
      BY Zenon, <1>1, <1>2, <1>3, <1>8 DEF Caught, Statuses, Reported, Fits, e
    <3> QED
      BY Zenon, <3>1 DEF Deferred
  <2>2. e = "exit" => kernel[t] = "dead"
    BY Zenon, <1>1, <1>2 DEF Reported, Fits, e, None
  <2>3. \A i \in DOMAIN q'.deferred :
           \/ i \in DOMAIN q.deferred /\ q'.deferred[i] = q.deferred[i]
           \/ i = Len(q.deferred) + 1 /\ q'.deferred[i].task = t /\ q'.deferred[i].status = e
    BY <1>12
  <2> QED
    <3>1. ASSUME NEW i \in DOMAIN q'.deferred, NEW j \in DOMAIN q'.deferred, i # j,
                 q'.deferred[i].task = q'.deferred[j].task
          PROVE  /\ kernel'[q'.deferred[i].task] \in {"exiting", "leaving", "dead"}
                 /\ q'.deferred[i].status # "birth" \/ q'.deferred[j].status # "birth"
      <4>1. CASE i \in DOMAIN q.deferred /\ j \in DOMAIN q.deferred
                 /\ q'.deferred[i] = q.deferred[i] /\ q'.deferred[j] = q.deferred[j]
        BY Zenon, <1>1, <1>2, <3>1, <4>1 DEF Queued
      <4>2. CASE /\ i \in DOMAIN q.deferred /\ q'.deferred[i] = q.deferred[i]
                 /\ q'.deferred[j].task = t /\ q'.deferred[j].status = e
        BY Zenon, <1>2, <2>1, <3>1, <4>2
      <4>3. CASE /\ j \in DOMAIN q.deferred /\ q'.deferred[j] = q.deferred[j]
                 /\ q'.deferred[i].task = t /\ q'.deferred[i].status = e
        BY Zenon, <1>2, <2>1, <3>1, <4>3
      <4> QED
        BY Zenon, <2>3, <3>1, <4>1, <4>2, <4>3
    <3>2. ASSUME NEW i \in DOMAIN q'.deferred, q'.deferred[i].status = "exit"
          PROVE  kernel'[q'.deferred[i].task] = "dead"
      BY Zenon, <1>1, <1>2, <2>2, <2>3, <3>2 DEF Queued
    <3> QED
      BY Zenon, <3>1, <3>2 DEF Queued
<1>25. Kept'
  <2>1. \A x \in Tasks \ {t} : \A k \in Keepers : Keeps(k, x)' <=> Keeps(k, x)
    <3>1. \A x \in Tasks \ {t} : Keeps("synthetic", x)' <=> Keeps("synthetic", x)
      BY Zenon, <1>5, <1>10, <1>11 DEF Keeps, e, c
    <3>2. \A x \in Tasks \ {t} : Keeps("deferred", x)' <=> Keeps("deferred", x)
      BY Zenon, <1>13 DEF Keeps
    <3>3. \A x \in Tasks : \A k \in {"handler", "parked", "repair", "birth"} : Keeps(k, x)' <=> Keeps(k, x)
      BY <1>2 DEF Keeps
    <3> QED
      BY Zenon, <3>1, <3>2, <3>3 DEF Keepers
  <2>2. ASSUME kernel[t] = "stopped"
        PROVE  /\ Keeps("synthetic", t)' <=> Synthetic(b, t, e)
               /\ Keeps("deferred", t)' <=> ~Synthetic(b, t, e)
               /\ \A k \in {"handler", "parked", "repair", "birth"} : ~Keeps(k, t)'
    <3>1. ~Caught(t)
      BY Zenon, <1>1, <1>2, <1>3, <1>8, <2>2 DEF Reported, Fits, e
    <3>2. \A k \in Keepers : ~Keeps(k, t)
      BY SMTT(30), <1>1, <3>1, KeeperCaught
    <3>3. \A k \in {"handler", "parked", "repair", "birth"} : Keeps(k, t)' <=> Keeps(k, t)
      BY Zenon, <1>2 DEF Keeps
    <3>4. Keeps("synthetic", t)' <=> q'.part[t].synthetic /\ q'.part[t].resume
      BY Zenon DEF Keeps
    <3>5. Keeps("synthetic", t)' <=> Synthetic(b, t, e)
      BY Zenon, <1>9, <1>10, <3>4
    <3>6. Keeps("deferred", t)' <=> ~Synthetic(b, t, e)
      BY Zenon, <1>13, <3>2 DEF Keeps, Keepers
    <3> QED
      BY Zenon, <3>2, <3>3, <3>5, <3>6 DEF Keepers
  <2>3. kernel[t] = "exiting" => Keeps("deferred", t)'
    <3>1. kernel[t] = "exiting" => ~Synthetic(b, t, e)
      BY Zenon, <1>8, <1>9
    <3> QED
      BY Zenon, <1>13, <3>1 DEF Keeps
  <2>4. /\ kernel[t] \in {"stopped", "lent"} =>
              \A j, k \in Keepers : Keeps(j, t)' /\ Keeps(k, t)' => j = k
        /\ kernel[t] \in {"stopped", "lent", "exiting"} => \E k \in Keepers : Keeps(k, t)'
    BY Zenon, <1>8, <2>2, <2>3 DEF Keepers
  <2> QED
    BY SMTT(30), <1>1, <1>2, <1>3, <2>1, <2>4 DEF Kept
<1>26. Barred'
  <2>1. ASSUME NEW x \in Tasks, kernel[x] = "running"
        PROVE  ~q'.part[x].stopped \/ (~thread[x].born /\ Unseen(x)')
    <3>1. x # t /\ ~Caught(x)
      BY Zenon, <1>1, <1>8, <2>1 DEF Collected
    <3>2. CASE e = "birth" /\ x = c
      BY Zenon, <1>11, <3>1, <3>2
    <3>3. CASE ~(e = "birth" /\ x = c)
      <4>1. q'.part[x] = q.part[x]
        BY Zenon, <1>10, <3>1, <3>3
      <4>2. Unseen(x) => Unseen(x)'
        <5>1. BirthDeferred(x, left) => BirthDeferred(x, left)'
          BY Zenon, <1>2, <1>12 DEF BirthDeferred
        <5>2. \A p \in Tasks : event[p] = "birth" /\ child[p] = x => event'[p] = "birth" /\ child'[p] = x
          BY Zenon, <1>2, <1>3, <3>3 DEF e, c
        <5> QED
          BY Zenon, <1>2, <5>1, <5>2 DEF Unseen
      <4> QED
        BY SMTT(30), <1>1, <1>2, <2>1, <4>1, <4>2 DEF Barred
    <3> QED
      BY Zenon, <3>2, <3>3
  <2>2. ASSUME NEW x \in Tasks, event'[x] = "birth"
        PROVE  ~q'.part[x].stopped
    <3>1. x # t /\ event[x] = "birth"
      BY Zenon, <1>3, <2>2 DEF None
    <3>2. q'.part[x] = q.part[x]
      BY Zenon, <1>5, <1>10, <3>1 DEF e, c
    <3> QED
      BY SMTT(30), <1>1, <1>2, <3>1, <3>2 DEF Barred
  <2> QED
    BY Zenon, <1>2, <2>1, <2>2 DEF Barred
<1> QED
  BY Zenon, <1>15, <1>16, <1>18, <1>19, <1>20, <1>21, <1>23, <1>24, <1>25, <1>26 DEF IInv

-----------------------------------------------------------------------------
\* The theorems.

\* The first tasks run and nothing is deferred.
LEMMA InitInv == Init => IInv
<1> SUFFICES ASSUME Init
             PROVE  IInv
  BY Zenon
<1>1. /\ kernel = [t \in Tasks |-> IF t \in First THEN "running" ELSE "unborn"]
      /\ asked = [t \in Tasks |-> FALSE] /\ event = [t \in Tasks |-> None]
      /\ child = [t \in Tasks |-> t] /\ lost = [t \in Tasks |-> None]
      /\ thread = [t \in Tasks |-> [NoThread EXCEPT !.born = t \in First, !.initial = t \in First]]
      /\ q = [part |-> [t \in Tasks |-> Off], waiting |-> 0, borrowed |-> 0, deferred |-> <<>>]
      /\ stage = "off" /\ actor = None /\ left = 0
  BY Zenon DEF Init
<1>2. /\ q.part = [t \in Tasks |-> Off] /\ \A t \in Tasks : q.part[t] = Off
      /\ q.waiting = 0 /\ q.borrowed = 0 /\ q.deferred = <<>> /\ q \in QType
  <2> DEFINE P == [t \in Tasks |-> Off]
  <2>1. P \in [Tasks -> PartType] /\ \A t \in Tasks : P[t] = Off
    BY Zenon, OffType
  <2>2. q = [part |-> P, waiting |-> 0, borrowed |-> 0, deferred |-> <<>>]
    BY Zenon, <1>1
  <2> HIDE DEF P
  <2>3. q.part = P /\ q.waiting = 0 /\ q.borrowed = 0 /\ q.deferred = <<>>
    BY Zenon, <2>2
  <2>4. <<>> \in Seq(EntryType)
    OBVIOUS
  <2>5. q \in QType
    BY Zenon, <2>1, <2>2, <2>4 DEF QType
  <2> QED
    BY Zenon, <2>1, <2>3, <2>5 DEF P
<1>3. /\ thread \in [Tasks -> ThreadType]
      /\ \A t \in Tasks : /\ thread[t].born = (t \in First) /\ thread[t].initial = (t \in First)
                          /\ ~thread[t].stopped /\ ~thread[t].active /\ ~thread[t].parked
  <2>1. \A v \in BOOLEAN : LET r == [NoThread EXCEPT !.born = v, !.initial = v]
                           IN  /\ r \in ThreadType /\ r.born = v /\ r.initial = v
                               /\ ~r.stopped /\ ~r.active /\ ~r.parked
    BY Zenon DEF NoThread, ThreadType
  <2>2. \A t \in Tasks : thread[t] = [NoThread EXCEPT !.born = t \in First, !.initial = t \in First]
    BY Zenon, <1>1
  <2>3. \A t \in Tasks : (t \in First) \in BOOLEAN
    OBVIOUS
  <2> HIDE DEF NoThread
  <2>4. thread = [t \in Tasks |-> thread[t]]
    BY Zenon, <1>1
  <2> QED
    BY ZenonT(30), <2>1, <2>2, <2>3, <2>4
<1>4. TypeOK
  <2>1. /\ kernel \in [Tasks -> {"unborn", "running", "stopped", "lent", "exiting", "leaving", "dead"}]
        /\ asked \in [Tasks -> BOOLEAN]
        /\ event \in [Tasks -> {None, "stop", "trap", "birth", "exiting", "exit"}]
        /\ child \in [Tasks -> Tasks] /\ lost \in [Tasks -> Tasks \cup {None}]
    BY Zenon, <1>1
  <2> QED
    BY Zenon, <1>1, <1>2, <1>3, <2>1 DEF TypeOK, QType, PartType, EntryType, Statuses, ThreadType
<1>5. \A t : ~Deferred(q, t)
  BY <1>2 DEF Deferred
<1>6. \A t \in Tasks : ~Caught(t)
  BY Zenon, <1>2, <1>3, <1>5, OffType DEF Caught
<1>7. Reported /\ Collected /\ Recorded
  BY Zenon, <1>1, <1>3, <1>6 DEF Reported, Fits, Collected, Recorded, None
<1>8. Taken
  <2>1. Waiting(q) = {} /\ Lent(q) = {}
    BY Zenon, <1>2, OffType DEF Waiting, Lent
  <2>2. Counted(q) /\ q.borrowed = Cardinality(Lent(q))
    BY Zenon, <1>2, <2>1, FS_EmptySet DEF Counted
  <2>3. \A t \in Tasks : kernel[t] # "lent"
    BY Zenon, <1>1
  <2>4. stage = "off"
    BY Zenon, <1>1
  <2> QED
    BY Zenon, <1>2, <1>3, <2>2, <2>3, <2>4, OffType DEF Taken
<1>9. Acting
  BY Zenon, <1>1 DEF Acting
<1>10. \A p, c \in Tasks : ~Pending(p, c)
  <2>1. \A p \in Tasks : event[p] # "birth" /\ lost[p] = None
    BY Zenon, <1>1 DEF None
  <2>2. \A i \in DOMAIN q.deferred : FALSE
    BY <1>2
  <2> QED
    BY Zenon, <2>1, <2>2, TasksAssumption DEF Pending
<1>11. Born
  BY Zenon, <1>1, <1>2, <1>3, <1>10 DEF Born
<1>12. Queued
  BY <1>2 DEF Queued
<1>13. Kept
  BY Zenon, <1>1 DEF Kept
<1>14. Barred
  BY Zenon, <1>1 DEF Barred
<1> QED
  BY Zenon, <1>4, <1>7, <1>8, <1>9, <1>11, <1>12, <1>13, <1>14 DEF IInv

\* Every step of the kernel, the dispatcher and the repair keeps the invariant.
LEMMA StepInv == IInv /\ [Next]_vars => IInv'
<1> SUFFICES ASSUME IInv, [Next]_vars
             PROVE  IInv'
  BY Zenon
<1>1. CASE UNCHANGED vars
  <2>1. /\ kernel' = kernel /\ asked' = asked /\ event' = event /\ child' = child /\ lost' = lost
        /\ thread' = thread /\ q' = q /\ stage' = stage /\ actor' = actor /\ left' = left
    BY ZenonT(30), <1>1 DEF vars, repair
  <2>2. TypeOK' /\ Reported' /\ Recorded' /\ Queued' /\ Acting'
    BY <2>1 DEF IInv, TypeOK, Reported, Recorded, Queued, Acting
  <2>3. Collected'
    BY Zenon, <2>1 DEF IInv, Collected, Caught, Deferred
  <2>4. Taken'
    BY Zenon, <2>1 DEF IInv, Taken, Counted, Waiting, Lent
  <2>5. Born'
    <3>1. \A p, c : Pending(p, c)' <=> Pending(p, c)
      BY Zenon, <2>1 DEF Pending
    <3> QED
      BY Zenon, <2>1, <3>1 DEF IInv, Born
  <2>6. Kept'
    <3>1. \A k, t : Keeps(k, t)' <=> Keeps(k, t)
      BY <2>1 DEF Keeps, Deferred
    <3> QED
      BY ZenonT(30), <2>1, <3>1 DEF IInv, Kept
  <2>7. Barred'
    <3>1. \A t : Unseen(t)' <=> Unseen(t)
      BY Zenon, <2>1 DEF Unseen, BirthDeferred
    <3> QED
      BY Zenon, <2>1, <3>1 DEF IInv, Barred
  <2> QED
    BY Zenon, <2>2, <2>3, <2>4, <2>5, <2>6, <2>7 DEF IInv
<1>2. ASSUME NEW t \in Tasks, RunStop(t)
      PROVE  IInv'
  BY Zenon, <1>2, HaltsStep DEF RunStop, Halts, Still
<1>3. ASSUME NEW t \in Tasks, RunTrap(t)
      PROVE  IInv'
  BY Zenon, <1>3, HaltsStep DEF RunTrap, Halts, Still
<1>4. ASSUME NEW t \in Tasks, Resume(t)
      PROVE  IInv'
  BY Zenon, <1>4, ResumeStep, ParkStep
<1>5. CASE KernelNext
  BY Zenon, <1>2, <1>3, <1>5, RunBirthStep, KilledStep, RunExitStep DEF KernelNext
<1>6. CASE Take \/ Hold \/ Finish \/ Yield
  BY SMTT(30), <1>6, TakeStep, HoldStep, FinishStep, YieldStep
<1>7. ASSUME NEW t \in Tasks,
             \/ Collect(t) \/ Displaced(t) \/ Interrupt(t) \/ Begin(t)
             \/ BarrierEvent(t) \/ Lend(t) \/ Return(t)
      PROVE  IInv'
  BY SMTT(30), <1>7, CollectStep, DisplacedStep, InterruptStep, BeginStep, BarrierEventStep, LendStep, ReturnStep
<1> QED
  BY Zenon, <1>1, <1>4, <1>5, <1>6, <1>7 DEF Next

\* Every state of the barrier, the repair and the dispatcher that can be
\* reached satisfies the inductive invariant.
THEOREM Invariance == Spec => []IInv
  BY InitInv, StepInv, PTL DEF Spec

\* While the repair rewrites the address space (the held stage of
\* memory_repair) nobody runs but a newborn whose first stop is still to
\* come: everyone the barrier knows of has stopped.
THEOREM BarrierIsABarrier == Spec => []BarrierHolds
<1>1. IInv => BarrierHolds
  <2> SUFFICES ASSUME IInv, stage = "held", NEW t \in Tasks, kernel[t] = "running"
               PROVE  asked[t] /\ ((\E p \in Tasks : lost[p] = t) \/ BirthDeferred(t, left))
    BY Zenon DEF BarrierHolds
  <2>1. \A x \in Tasks : q.part[x].stopped
    BY Zenon DEF IInv, Taken
  <2>2. ~thread[t].born /\ Unseen(t) /\ \A p \in Tasks : event[p] # "birth"
    BY Zenon, <2>1 DEF IInv, Barred
  <2>3. asked[t]
    BY Zenon, <2>2 DEF IInv, Born
  <2> QED
    BY Zenon, <2>2, <2>3 DEF Unseen
<1> QED
  BY <1>1, Invariance, PTL

\* Every stop that has been collected has one owner who will resume it, and
\* an exit stop at least one: a handler, the park list, the deferred queue,
\* the release of the barrier, the repair or the birth.
THEOREM StopsHaveOneOwner == Spec => []OneCustodian
<1>1. IInv => OneCustodian
  <2> SUFFICES ASSUME IInv
               PROVE  OneCustodian
    BY Zenon
  <2>1. TypeOK /\ \A t \in Tasks : Deferred(q, t) => kernel[t] # "running"
    BY Zenon DEF IInv, Collected, Caught
  <2>2. ASSUME NEW t \in Tasks, event[t] = None, kernel[t] \in {"stopped", "exiting"}
        PROVE  Custodians(t) >= 1 /\ (kernel[t] = "stopped" => Custodians(t) = 1)
    <3> DEFINE K == {k \in Keepers : Keeps(k, t)}
    <3>1. PICK k \in Keepers : Keeps(k, t)
      BY Zenon, <2>2 DEF IInv, Kept
    <3>2. IsFiniteSet(Keepers)
      <4>1. \A S, x : IsFiniteSet(S) => IsFiniteSet(S \cup {x})
        BY Zenon, FS_AddElement
      <4>2. Keepers = ((((({} \cup {"handler"}) \cup {"parked"}) \cup {"deferred"})
                        \cup {"synthetic"}) \cup {"repair"}) \cup {"birth"}
        BY Zenon DEF Keepers
      <4>3. IsFiniteSet({})
        BY Zenon, FS_EmptySet
      <4> QED
        BY Zenon, <4>1, <4>2, <4>3
    <3>3. IsFiniteSet(K) /\ Cardinality(K) \in Nat
      BY Zenon, <3>2, FS_Subset, FS_CardinalityType
    <3>4. Cardinality(K) # 0
      BY Zenon, <3>1, <3>3, FS_EmptySet
    <3>5. ASSUME kernel[t] = "stopped"
          PROVE  Cardinality(K) = 1
      <4>1. K = {k}
        BY Zenon, <3>1, <3>5 DEF IInv, Kept
      <4> QED
        BY Zenon, <4>1, FS_Singleton
    <3>6. Custodians(t) = Cardinality(K)
      BY Zenon DEF Custodians
    <3> HIDE DEF K
    <3> QED
      BY SMTT(30), <3>3, <3>4, <3>5, <3>6
  <2> QED
    BY Zenon, <2>1, <2>2 DEF OneCustodian
<1> QED
  BY <1>1, Invariance, PTL
=============================================================================
