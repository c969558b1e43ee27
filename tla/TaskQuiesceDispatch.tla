------------------------ MODULE TaskQuiesceDispatch ------------------------
(***************************************************************************)
(* The inductive invariant of the task barrier, what the operations on the *)
(* barrier's records do, and that the steps of the tasks and of the        *)
(* dispatcher keep the invariant, for any finite number of tasks.          *)
(***************************************************************************)
EXTENDS TaskQuiesce, FiniteSetTheorems, TLAPS

Statuses == {"stop", "trap", "birth", "exiting", "exit"}
PartType == [member : BOOLEAN, stopped : BOOLEAN, resume : BOOLEAN,
             interrupted : BOOLEAN, synthetic : BOOLEAN, borrowed : BOOLEAN]
ThreadType == [born : BOOLEAN, initial : BOOLEAN, stopped : BOOLEAN,
               active : BOOLEAN, parked : BOOLEAN, pending : BOOLEAN]
EntryType == [task : Tasks, status : Statuses]
QType == [part : [Tasks -> PartType], waiting : Nat, borrowed : Nat, deferred : Seq(EntryType)]

\* The uncollected event fits the state of the task.
Fits(k, e) ==
    \/ e = None
    \/ k = "stopped" /\ e \in {"stop", "trap", "birth"}
    \/ k = "exiting" /\ e = "exiting"
    \/ k = "dead" /\ e = "exit"
Reported ==
    \A t \in Tasks : /\ Fits(kernel[t], event[t])
                     /\ kernel[t] = "unborn" => ~thread[t].initial /\ ~thread[t].born

\* Somebody has collected a stop of the task and has not resumed it.
Caught(t) == thread[t].stopped \/ Deferred(q, t) \/ (q.part[t].member /\ q.part[t].stopped)
Collected ==
    \A t \in Tasks : Caught(t) => /\ kernel[t] \notin {"unborn", "running"}
                                  /\ event[t] \notin {"stop", "trap", "birth"}

\* The dispatcher's records.
Recorded ==
    \A t \in Tasks :
        /\ thread[t].active \/ thread[t].parked => thread[t].born /\ thread[t].stopped
        /\ ~(thread[t].active /\ thread[t].parked)
        /\ thread[t].stopped => thread[t].initial
        /\ thread[t].initial => thread[t].born \/ thread[t].stopped
        /\ event[t] = "birth" => thread[t].born

\* The participants, and the counters of the ones awaited and lent.
Waiting(b) == {t \in Tasks : ~b.part[t].stopped}
Counted(b) == b.waiting = Cardinality(Waiting(b))
Lent(b) == {t \in Tasks : b.part[t].borrowed}
Taken ==
    /\ Counted(q) /\ q.borrowed = Cardinality(Lent(q))
    /\ stage # "held" => q.borrowed = 0
    /\ stage = "off" => q.part = [t \in Tasks |-> Off]
    /\ stage = "off" => \A t \in Tasks : ~thread[t].parked
    /\ stage = "held" => \A t \in Tasks : q.part[t].stopped
    /\ \A t \in Tasks :
          /\ ~q.part[t].member => q.part[t] = Off
          /\ q.part[t].borrowed <=> kernel[t] = "lent"
          /\ q.part[t].resume => thread[t].born
          /\ q.part[t].interrupted /\ ~q.part[t].stopped => q.part[t].resume
          /\ q.part[t].synthetic => q.part[t].stopped
          /\ thread[t].stopped => q.part[t].stopped /\ ~q.part[t].synthetic

\* The repair keeps its task.
Acting ==
    /\ stage = "off" <=> actor = None
    /\ actor # None => /\ kernel[actor] \in {"stopped", "lent"}
                       /\ thread[actor].born /\ thread[actor].stopped
                       /\ q.part[actor].member

\* A birth the dispatcher has not handled.
Pending(p, c) ==
    \/ event[p] = "birth" /\ child[p] = c
    \/ lost[p] = c
    \/ child[p] = c /\ \E i \in DOMAIN q.deferred : q.deferred[i] = [task |-> p, status |-> "birth"]
Born ==
    /\ \A p, c \in Tasks : Pending(p, c) =>
          p # c /\ ~thread[c].born /\ kernel[c] \in {"running", "stopped", "lent", "exiting"}
    /\ \A p, r, c \in Tasks : Pending(p, c) /\ Pending(r, c) => p = r
    /\ \A c \in Tasks : kernel[c] = "running" /\ ~thread[c].born =>
          asked[c] /\ ~thread[c].initial /\ \E p \in Tasks : Pending(p, c)
    /\ \A p \in Tasks : lost[p] # None =>
          /\ kernel[p] \in {"exiting", "leaving", "dead"}
          /\ \A i \in DOMAIN q.deferred : q.deferred[i] # [task |-> p, status |-> "birth"]

\* The events of one task in the deferred queue.
Queued ==
    /\ \A i, j \in DOMAIN q.deferred : i # j /\ q.deferred[i].task = q.deferred[j].task =>
          /\ kernel[q.deferred[i].task] \in {"exiting", "leaving", "dead"}
          /\ q.deferred[i].status # "birth" \/ q.deferred[j].status # "birth"
    /\ \A i \in DOMAIN q.deferred : q.deferred[i].status = "exit" => kernel[q.deferred[i].task] = "dead"

\* Every collected stop has exactly one keeper, an exit stop at least one.
Kept ==
    \A t \in Tasks :
        /\ kernel[t] \in {"stopped", "lent"} =>
              \A j, k \in Keepers : Keeps(j, t) /\ Keeps(k, t) => j = k
        /\ kernel[t] \in {"stopped", "lent", "exiting"} /\ event[t] = None =>
              \E k \in Keepers : Keeps(k, t)

\* During a repair a task runs only while the barrier awaits it, or as a
\* newborn of a birth the barrier has not seen.
Unseen(t) ==
    \/ \E p \in Tasks : event[p] = "birth" /\ child[p] = t
    \/ \E p \in Tasks : lost[p] = t
    \/ BirthDeferred(t, left)
Barred ==
    stage # "off" => \A t \in Tasks :
        /\ kernel[t] = "running" => ~q.part[t].stopped \/ (~thread[t].born /\ Unseen(t))
        /\ event[t] = "birth" => ~q.part[t].stopped

\* The inductive invariant.
IInv == /\ TypeOK /\ Reported /\ Collected /\ Recorded /\ Taken /\ Acting
        /\ Born /\ Queued /\ Kept /\ Barred
-----------------------------------------------------------------------------
\* The operations on the structure of the barrier.

\* The types of the structure and of the records, by the names used below.
LEMMA QTyped ==
    ASSUME TypeOK
    PROVE  /\ q \in QType
           /\ thread \in [Tasks -> ThreadType] /\ event \in [Tasks -> Statuses \cup {None}]
           /\ child \in [Tasks -> Tasks] /\ lost \in [Tasks -> Tasks \cup {None}]
  BY Zenon DEF TypeOK, QType, PartType, EntryType, ThreadType, Statuses

\* Off is what a task outside the barrier has.
LEMMA OffType == Off \in PartType /\ Off.stopped /\ ~Off.member /\ ~Off.resume /\ ~Off.borrowed
                   /\ ~Off.synthetic /\ ~Off.interrupted
  BY Zenon DEF Off, PartType

\* A record nobody uses.
LEMMA NoThreadType == NoThread \in ThreadType /\ ~NoThread.born /\ ~NoThread.initial /\ ~NoThread.stopped
                        /\ ~NoThread.active /\ ~NoThread.parked
  BY Zenon DEF NoThread, ThreadType

\* stopped() keeps the counter exact (task_quiesce.c).
LEMMA StoppedEffect ==
    ASSUME NEW b \in QType, NEW t \in Tasks, NEW v \in BOOLEAN, Counted(b)
    PROVE  /\ Stopped(b, t, v) \in QType /\ Counted(Stopped(b, t, v))
           /\ Stopped(b, t, v).part = [b.part EXCEPT ![t].stopped = v]
           /\ Stopped(b, t, v).deferred = b.deferred
           /\ Stopped(b, t, v).borrowed = b.borrowed
<1> DEFINE r == Stopped(b, t, v)
<1>1. IsFiniteSet(Waiting(b)) /\ Cardinality(Waiting(b)) \in Nat
  <2>1. Waiting(b) \subseteq Tasks /\ IsFiniteSet(Tasks)
    BY Zenon, TasksAssumption DEF Waiting
  <2> QED
    BY Zenon, <2>1, FS_Subset, FS_CardinalityType
<1>2. CASE b.part[t].stopped = v
  <2>1. r = b
    BY Zenon, <1>2 DEF Stopped
  <2>2. b.part = [b.part EXCEPT ![t].stopped = v]
    BY Zenon, <1>2 DEF QType, PartType
  <2> QED
    BY Zenon, <2>1, <2>2
<1>3. CASE b.part[t].stopped # v
  <2>1. r = [b EXCEPT !.part[t].stopped = v, !.waiting = IF v THEN @ - 1 ELSE @ + 1]
    BY Zenon, <1>3 DEF Stopped
  <2>2. /\ r.part = [b.part EXCEPT ![t].stopped = v] /\ r.deferred = b.deferred
        /\ r.borrowed = b.borrowed /\ r.waiting = IF v THEN b.waiting - 1 ELSE b.waiting + 1
    BY Zenon, <2>1 DEF QType
  <2>3. r.part \in [Tasks -> PartType]
    BY SMTT(30), <2>2 DEF QType, PartType
  <2>4. \A x \in Tasks : r.part[x].stopped = IF x = t THEN v ELSE b.part[x].stopped
    BY <2>2 DEF QType, PartType
  <2>5. CASE v
    <3>1. t \in Waiting(b) /\ Waiting(r) = Waiting(b) \ {t}
      BY Zenon, <1>3, <2>4, <2>5 DEF Waiting, QType, PartType
    <3>2. Cardinality(Waiting(r)) = Cardinality(Waiting(b)) - 1
      BY ZenonT(30), <1>1, <3>1, FS_RemoveElement
    <3>3. Cardinality(Waiting(r)) \in Nat
      BY Zenon, <1>1, <3>1, FS_RemoveElement, FS_CardinalityType
    <3>4. r.waiting = Cardinality(Waiting(r)) /\ r.waiting \in Nat
      BY Zenon, <2>2, <2>5, <3>2, <3>3 DEF Counted
    <3> QED
      BY Zenon, <2>1, <2>2, <2>3, <3>4 DEF Counted, QType
  <2>6. CASE ~v
    <3>1. t \notin Waiting(b) /\ Waiting(r) = Waiting(b) \cup {t}
      BY Zenon, <1>3, <2>4, <2>6 DEF Waiting, QType, PartType
    <3>2. Cardinality(Waiting(r)) = Cardinality(Waiting(b)) + 1
      BY Zenon, <1>1, <3>1, FS_AddElement
    <3>3. r.waiting = Cardinality(Waiting(r)) /\ r.waiting \in Nat
      BY SMTT(30), <1>1, <2>2, <2>6, <3>2 DEF Counted
    <3> QED
      BY Zenon, <2>1, <2>2, <2>3, <3>3 DEF Counted, QType
  <2> QED
    BY Zenon, <2>5, <2>6
<1> QED
  BY Zenon, <1>2, <1>3

\* r is b but for the participant t.
Only(r, b, t) ==
    /\ r \in QType /\ Counted(r) /\ r.borrowed = b.borrowed
    /\ \A x \in Tasks \ {t} : r.part[x] = b.part[x]
    /\ r.part[t].interrupted = b.part[t].interrupted
    /\ r.part[t].borrowed = b.part[t].borrowed

\* md_task_quiesce_add, for a structure whose outsiders have no record.
LEMMA AddEffect ==
    ASSUME NEW b \in QType, NEW t \in Tasks, NEW s \in BOOLEAN, NEW v \in BOOLEAN,
           Counted(b), ~b.part[t].member => b.part[t] = Off,
           NEW r, r = Add(b, t, s, v)
    PROVE  /\ Only(r, b, t) /\ r.deferred = b.deferred
           /\ r.part[t].member /\ r.part[t].resume = v
           /\ r.part[t].stopped = (s \/ Deferred(b, t))
           /\ r.part[t].synthetic = b.part[t].synthetic
<1> DEFINE p == [b.part[t] EXCEPT !.member = TRUE, !.resume = v]
           c == [b EXCEPT !.part[t] = p]
           u == (s \/ Deferred(b, t))
<1>1. /\ p \in PartType /\ p.member /\ p.resume = v /\ p.stopped = b.part[t].stopped
      /\ p.interrupted = b.part[t].interrupted /\ p.synthetic = b.part[t].synthetic
      /\ p.borrowed = b.part[t].borrowed
  <2>1. b.part[t] \in PartType
    BY Zenon DEF QType
  <2> HIDE DEF c, u
  <2> QED
    BY Zenon, <2>1 DEF PartType
<1>2. Add(b, t, s, v) = Stopped(c, t, u)
  <2>1. (IF b.part[t].member THEN b.part[t] ELSE Off) = b.part[t]
    BY Zenon
  <2>2. [b EXCEPT !.part[t] = [(IF @.member THEN @ ELSE Off) EXCEPT !.member = TRUE, !.resume = v]] = c
    BY <2>1, Zenon
  <2> QED
    BY <2>2, Zenon DEF Add
<1> HIDE DEF p
<1>3. /\ c \in QType /\ c.deferred = b.deferred /\ c.borrowed = b.borrowed /\ c.waiting = b.waiting
      /\ c.part = [b.part EXCEPT ![t] = p]
  BY Zenon, <1>1 DEF QType
<1>4. c.part[t] = p /\ \A x \in Tasks \ {t} : c.part[x] = b.part[x]
  BY Zenon, <1>3 DEF QType
<1>5. Waiting(c) = Waiting(b)
  BY Zenon, <1>1, <1>4 DEF Waiting
<1>6. Counted(c)
  BY Zenon, <1>3, <1>5 DEF Counted
<1>7. u \in BOOLEAN
  BY Zenon DEF Deferred
<1> HIDE DEF c, u
<1>8. /\ r \in QType /\ Counted(r) /\ r.part = [c.part EXCEPT ![t].stopped = u]
      /\ r.deferred = b.deferred /\ r.borrowed = b.borrowed
  <2>1. r = Stopped(c, t, u)
    BY Zenon, <1>2 DEF c, u
  <2> QED
    BY SMTT(30), <1>3, <1>6, <1>7, <2>1, StoppedEffect
<1>9. /\ \A x \in Tasks \ {t} : r.part[x] = b.part[x]
      /\ r.part[t].member /\ r.part[t].resume = v /\ r.part[t].stopped = u
      /\ r.part[t].interrupted = b.part[t].interrupted
      /\ r.part[t].synthetic = b.part[t].synthetic
      /\ r.part[t].borrowed = b.part[t].borrowed
  <2>1. c.part \in [Tasks -> PartType]
    BY Zenon, <1>3 DEF QType
  <2>2. r.part[t] = [p EXCEPT !.stopped = u] /\ \A x \in Tasks \ {t} : r.part[x] = c.part[x]
    BY Zenon, <1>4, <1>8, <2>1
  <2> QED
    BY <1>1, <1>4, <2>2 DEF PartType
<1> QED
  BY Zenon, <1>8, <1>9 DEF Only, u

\* The event of a participant is deferred.
LEMMA DeferEffect ==
    ASSUME NEW b \in QType, NEW t \in Tasks, NEW e \in Statuses, Counted(b)
    PROVE  LET r == Defer(b, t, e)
           IN  /\ Only(r, b, t) /\ r.deferred = Append(b.deferred, [task |-> t, status |-> e])
               /\ r.part[t].member = b.part[t].member /\ r.part[t].resume = b.part[t].resume
               /\ r.part[t].stopped /\ ~r.part[t].synthetic
<1> DEFINE c == Stopped(b, t, TRUE)
           r == Defer(b, t, e)
<1>1. /\ c \in QType /\ Counted(c) /\ c.part = [b.part EXCEPT ![t].stopped = TRUE]
      /\ c.deferred = b.deferred /\ c.borrowed = b.borrowed
  BY Zenon, StoppedEffect
<1>2. r = [c EXCEPT !.part[t].synthetic = FALSE,
                    !.deferred = Append(@, [task |-> t, status |-> e])]
  BY Zenon DEF Defer
<1> HIDE DEF c, r
<1>3. /\ r.part = [c.part EXCEPT ![t].synthetic = FALSE] /\ r.waiting = c.waiting
      /\ r.borrowed = b.borrowed /\ r.deferred = Append(b.deferred, [task |-> t, status |-> e])
      /\ r = [part |-> r.part, waiting |-> r.waiting, borrowed |-> r.borrowed, deferred |-> r.deferred]
  BY Zenon, <1>1, <1>2 DEF QType
<1>4. b.part \in [Tasks -> PartType] /\ c.part \in [Tasks -> PartType]
  BY Zenon, <1>1 DEF QType
<1>5. /\ r.part[t] = [c.part[t] EXCEPT !.synthetic = FALSE]
      /\ c.part[t] = [b.part[t] EXCEPT !.stopped = TRUE]
      /\ \A x \in Tasks \ {t} : r.part[x] = b.part[x] /\ r.part[x] = c.part[x]
  BY ZenonT(30), <1>1, <1>3, <1>4
<1>6. /\ r.part[t].interrupted = b.part[t].interrupted /\ r.part[t].borrowed = b.part[t].borrowed
      /\ r.part[t].member = b.part[t].member /\ r.part[t].resume = b.part[t].resume
      /\ r.part[t].stopped /\ ~r.part[t].synthetic /\ c.part[t].stopped
  BY <1>4, <1>5 DEF PartType
<1>7. r.part \in [Tasks -> PartType]
  <2>1. [c.part[t] EXCEPT !.synthetic = FALSE] \in PartType
    BY ZenonT(30), <1>4 DEF PartType
  <2> QED
    BY Zenon, <1>3, <1>4, <2>1
<1>8. r.deferred \in Seq(EntryType)
  <2>1. b.deferred \in Seq(EntryType) /\ [task |-> t, status |-> e] \in EntryType
    BY Zenon DEF QType, EntryType
  <2> QED
    BY <1>3, <2>1
<1>9. Waiting(r) = Waiting(c)
  BY Zenon, <1>5, <1>6 DEF Waiting
<1>10. Counted(r)
  BY Zenon, <1>1, <1>3, <1>9 DEF Counted
<1>11. r \in QType
  BY Zenon, <1>1, <1>3, <1>7, <1>8 DEF QType
<1> QED
  BY Zenon, <1>3, <1>5, <1>6, <1>10, <1>11 DEF Only, r

\* What the event of t does to the participants: its own part, and that of the
\* child of a birth, which is awaited unless its stop is known.
Heard(r, b, t, e) ==
    /\ r \in QType /\ Counted(r) /\ r.borrowed = b.borrowed
    /\ \A x \in Tasks : /\ r.part[x].interrupted = b.part[x].interrupted
                        /\ r.part[x].borrowed = b.part[x].borrowed
    /\ \A x \in Tasks \ {t} : /\ r.part[x].synthetic = b.part[x].synthetic
                              /\ (e = "birth" /\ x = child[t]) \/ r.part[x] = b.part[x]
    /\ r.part[t].member = b.part[t].member /\ r.part[t].resume = b.part[t].resume
    /\ r.part[t].stopped
    /\ IF Synthetic(b, t, e)
       THEN r.part[t].synthetic /\ r.deferred = b.deferred
       ELSE ~r.part[t].synthetic /\ r.deferred = Append(b.deferred, [task |-> t, status |-> e])
Awaited(r, b, c) ==
    /\ r.part[c].member
    /\ r.part[c].resume => b.part[c].resume
    /\ r.part[c].stopped => (b.part[c].member /\ b.part[c].stopped) \/ Deferred(b, c) \/ thread[c].stopped
    /\ r.part[c].stopped \/ ~b.part[c].member \/ r.part[c] = b.part[c]
    /\ ~thread[c].born /\ thread[c].initial /\ thread[c].stopped => r.part[c].stopped

\* md_task_quiesce_event marks the participant stopped, keeps or swallows its
\* event, and after a birth awaits the newborn.
LEMMA EventEffect ==
    ASSUME TypeOK, NEW b \in QType, NEW t \in Tasks, NEW e \in Statuses, Counted(b),
           \A x \in Tasks : ~b.part[x].member => b.part[x] = Off,
           e = "birth" => child[t] # t
    PROVE  /\ Heard(Event(b, t, e), b, t, e)
           /\ e = "birth" => Awaited(Event(b, t, e), b, child[t])
<1> DEFINE r == Event(b, t, e)
<1>1. CASE Synthetic(b, t, e)
  <2> DEFINE s == Stopped(b, t, TRUE)
  <2>1. /\ s \in QType /\ Counted(s) /\ s.part = [b.part EXCEPT ![t].stopped = TRUE]
        /\ s.deferred = b.deferred /\ s.borrowed = b.borrowed
    BY Zenon, StoppedEffect
  <2>2. r = [s EXCEPT !.part[t].synthetic = TRUE]
    BY Zenon, <1>1 DEF Event
  <2> HIDE DEF s, r
  <2>3. /\ r.part = [s.part EXCEPT ![t].synthetic = TRUE] /\ r.waiting = s.waiting
        /\ r.borrowed = b.borrowed /\ r.deferred = b.deferred
        /\ r = [part |-> r.part, waiting |-> r.waiting, borrowed |-> r.borrowed, deferred |-> r.deferred]
    BY Zenon, <2>1, <2>2 DEF QType
  <2>4. b.part \in [Tasks -> PartType] /\ s.part \in [Tasks -> PartType]
    BY Zenon, <2>1 DEF QType
  <2>5. /\ r.part[t] = [s.part[t] EXCEPT !.synthetic = TRUE]
        /\ s.part[t] = [b.part[t] EXCEPT !.stopped = TRUE]
        /\ \A x \in Tasks \ {t} : r.part[x] = b.part[x] /\ r.part[x] = s.part[x]
    BY SMTT(30), <2>1, <2>3, <2>4
  <2>6. /\ r.part[t].interrupted = b.part[t].interrupted /\ r.part[t].borrowed = b.part[t].borrowed
        /\ r.part[t].member = b.part[t].member /\ r.part[t].resume = b.part[t].resume
        /\ r.part[t].stopped /\ r.part[t].synthetic /\ s.part[t].stopped
    BY <2>4, <2>5 DEF PartType
  <2>7. r.part \in [Tasks -> PartType]
    <3>1. [s.part[t] EXCEPT !.synthetic = TRUE] \in PartType
      BY ZenonT(30), <2>4 DEF PartType
    <3> QED
      BY Zenon, <2>3, <2>4, <3>1
  <2>8. Waiting(r) = Waiting(s)
    BY Zenon, <2>5, <2>6 DEF Waiting
  <2>9. Counted(r) /\ r \in QType
    BY Zenon, <2>1, <2>3, <2>7, <2>8 DEF Counted, QType
  <2>10. e # "birth"
    BY Zenon, <1>1 DEF Synthetic
  <2> QED
    BY Zenon, <1>1, <2>3, <2>5, <2>6, <2>9, <2>10 DEF Heard, r
<1>2. ASSUME ~Synthetic(b, t, e)
      PROVE  Heard(r, b, t, e) /\ (e = "birth" => Awaited(r, b, child[t]))
  <2> DEFINE d == Defer(b, t, e)
             c == child[t]
  <2>1. /\ Only(d, b, t) /\ d.deferred = Append(b.deferred, [task |-> t, status |-> e])
        /\ d.part[t].member = b.part[t].member /\ d.part[t].resume = b.part[t].resume
        /\ d.part[t].stopped /\ ~d.part[t].synthetic
    BY Zenon, DeferEffect
  <2>2. r = IF e = "birth" THEN Dispatched(AwaitNewborn(d, c), c) ELSE d
    BY <1>2, Zenon DEF Event
  <2> HIDE DEF r, d
  <2>3. CASE e # "birth"
    <3>1. r = d
      BY Zenon, <2>2, <2>3
    <3> QED
      BY Zenon, <1>2, <2>1, <2>3, <3>1 DEF Only, Heard
  <2>4. CASE e = "birth"
    <3> DEFINE w == AwaitNewborn(d, c)
    <3>1. c \in Tasks /\ c # t /\ r = Dispatched(w, c)
      BY Zenon, <2>2, <2>4, QTyped
    <3>2. d.part[c] = b.part[c] /\ d \in QType /\ Counted(d)
      BY Zenon, <2>1, <3>1 DEF Only
    <3>3. /\ Only(w, d, c) /\ w.deferred = d.deferred /\ w.part[c].member
          /\ w.part[c].synthetic = d.part[c].synthetic
          /\ \/ b.part[c].member /\ w.part[c] = b.part[c]
             \/ ~b.part[c].member /\ ~w.part[c].resume /\ w.part[c].stopped = Deferred(d, c)
      <4>1. CASE d.part[c].member
        <5>1. w = d
          BY Zenon, <4>1 DEF AwaitNewborn
        <5> QED
          BY Zenon, <3>2, <4>1, <5>1 DEF Only
      <4>2. CASE ~d.part[c].member
        <5>1. w = Add(d, c, FALSE, FALSE)
          BY Zenon, <4>2 DEF AwaitNewborn
        <5>2. ~d.part[c].member => d.part[c] = Off
          BY Zenon, <3>1, <3>2
        <5> HIDE DEF w
        <5>3. /\ Only(w, d, c) /\ w.deferred = d.deferred
              /\ w.part[c].member /\ w.part[c].resume = FALSE
              /\ w.part[c].stopped = (FALSE \/ Deferred(d, c))
              /\ w.part[c].synthetic = d.part[c].synthetic
          <6>1. \A s, v \in BOOLEAN : w = Add(d, c, s, v) =>
                  /\ Only(w, d, c) /\ w.deferred = d.deferred
                  /\ w.part[c].member /\ w.part[c].resume = v
                  /\ w.part[c].stopped = (s \/ Deferred(d, c))
                  /\ w.part[c].synthetic = d.part[c].synthetic
            BY SMTT(30), <3>1, <3>2, <5>2, AddEffect
          <6> QED
            BY ZenonT(30), <5>1, <6>1
        <5>4. (FALSE \/ Deferred(d, c)) = Deferred(d, c)
          BY Zenon DEF Deferred
        <5> QED
          BY Zenon, <3>2, <4>2, <5>3, <5>4
      <4> QED
        BY Zenon, <4>1, <4>2
    <3> HIDE DEF w
    <3>4. /\ Only(r, w, c) /\ r.deferred = w.deferred /\ r.part[c].member
          /\ r.part[c].synthetic = w.part[c].synthetic
          /\ r.part[c] = w.part[c] \/ (thread[c].stopped /\ r.part[c].stopped /\ ~r.part[c].resume)
          /\ ~thread[c].born /\ thread[c].initial /\ thread[c].stopped => r.part[c].stopped
      <4>1. CASE ~thread[c].born /\ thread[c].initial /\ thread[c].stopped
        <5>1. r = Add(w, c, TRUE, FALSE)
          BY Zenon, <3>1, <4>1 DEF Dispatched
        <5>2. w \in QType /\ Counted(w) /\ (~w.part[c].member => w.part[c] = Off)
          BY Zenon, <3>3 DEF Only
        <5>3. /\ Only(r, w, c) /\ r.deferred = w.deferred
              /\ r.part[c].member /\ r.part[c].resume = FALSE
              /\ r.part[c].stopped = (TRUE \/ Deferred(w, c))
              /\ r.part[c].synthetic = w.part[c].synthetic
          <6>1. \A s, v \in BOOLEAN : r = Add(w, c, s, v) =>
                  /\ Only(r, w, c) /\ r.deferred = w.deferred
                  /\ r.part[c].member /\ r.part[c].resume = v
                  /\ r.part[c].stopped = (s \/ Deferred(w, c))
                  /\ r.part[c].synthetic = w.part[c].synthetic
            BY SMTT(30), <3>1, <5>2, AddEffect
          <6> QED
            BY ZenonT(30), <5>1, <6>1
        <5> QED
          BY Zenon, <4>1, <5>3
      <4>2. CASE ~(~thread[c].born /\ thread[c].initial /\ thread[c].stopped)
        <5>1. r = w
          BY Zenon, <3>1, <4>2 DEF Dispatched
        <5> QED
          BY Zenon, <3>3, <4>2, <5>1 DEF Only
      <4> QED
        BY Zenon, <4>1, <4>2
    <3>5. Deferred(d, c) => Deferred(b, c)
      <4>1. b.deferred \in Seq(EntryType) /\ [task |-> t, status |-> e] \in EntryType
        BY Zenon DEF QType, EntryType
      <4>2. \A i \in DOMAIN d.deferred : d.deferred[i].task = c =>
               i \in DOMAIN b.deferred /\ b.deferred[i].task = c
        BY SMTT(30), <2>1, <3>1, <4>1
      <4> QED
        BY Zenon, <4>2 DEF Deferred
    <3>6. Awaited(r, b, c)
      BY Zenon, <3>1, <3>2, <3>3, <3>4, <3>5 DEF Awaited
    <3>7. /\ \A x \in Tasks \ {t, c} : r.part[x] = b.part[x]
          /\ r.part[t] = d.part[t]
          /\ r.part[c].synthetic = b.part[c].synthetic /\ r.part[c].interrupted = b.part[c].interrupted
          /\ r.part[c].borrowed = b.part[c].borrowed
      <4>1. \A x \in Tasks \ {t} : d.part[x] = b.part[x]
        BY Zenon, <2>1 DEF Only
      <4>2. /\ \A x \in Tasks \ {c} : w.part[x] = d.part[x]
            /\ w.part[c].interrupted = d.part[c].interrupted /\ w.part[c].borrowed = d.part[c].borrowed
        BY Zenon, <3>3 DEF Only
      <4>3. /\ \A x \in Tasks \ {c} : r.part[x] = w.part[x]
            /\ r.part[c].interrupted = w.part[c].interrupted /\ r.part[c].borrowed = w.part[c].borrowed
        BY Zenon, <3>4 DEF Only
      <4>4. r.part[c].synthetic = d.part[c].synthetic
        BY <3>3, <3>4, Zenon
      <4> QED
        BY ZenonT(30), <3>1, <3>2, <4>1, <4>2, <4>3, <4>4
    <3>8. r \in QType /\ Counted(r) /\ r.borrowed = b.borrowed /\ r.deferred = d.deferred
      BY Zenon, <2>1, <3>3, <3>4 DEF Only
    <3>9. d.part[t].interrupted = b.part[t].interrupted /\ d.part[t].borrowed = b.part[t].borrowed
      BY Zenon, <2>1 DEF Only
    <3> QED
      BY ZenonT(30), <1>2, <2>1, <2>4, <3>1, <3>6, <3>7, <3>8, <3>9 DEF Heard
  <2> QED
    BY Zenon, <2>3, <2>4
<1> QED
  BY Zenon, <1>1, <1>2

-----------------------------------------------------------------------------
\* Consequences of the invariant.

\* A deferred event is of a task and has a status.
LEMMA Entries ==
    ASSUME TypeOK
    PROVE  /\ q.deferred \in Seq(EntryType)
           /\ \A i \in DOMAIN q.deferred :
                 /\ q.deferred[i] = [task |-> q.deferred[i].task, status |-> q.deferred[i].status]
                 /\ q.deferred[i].task \in Tasks /\ q.deferred[i].status \in Statuses
<1>1. q.deferred \in Seq(EntryType)
  BY Zenon, QTyped DEF QType
<1>2. \A i \in DOMAIN q.deferred : q.deferred[i] \in EntryType
  BY <1>1
<1> QED
  BY Zenon, <1>1, <1>2 DEF EntryType

\* Whoever keeps a task has collected its stop.
LEMMA KeeperCaught ==
    ASSUME Recorded, Taken, Acting, NEW t \in Tasks, NEW k, Keeps(k, t)
    PROVE  Caught(t)
<1>1. CASE thread[t].active \/ thread[t].parked \/ Deferred(q, t) \/ thread[t].stopped
  BY Zenon, <1>1 DEF Recorded, Caught
<1>2. CASE q.part[t].synthetic
  <2>1. q.part[t].member
    BY Zenon, <1>2, OffType DEF Taken
  <2> QED
    BY Zenon, <1>2, <2>1 DEF Taken, Caught
<1>3. CASE t = actor
  <2>1. thread[t].stopped
    BY Zenon, <1>3, TasksAssumption DEF Acting
  <2> QED
    BY Zenon, <2>1 DEF Caught
<1> QED
  BY Zenon, <1>1, <1>2, <1>3 DEF Keeps

\* Tasks only get nearer to their end.
LEMMA QueuedStill ==
    ASSUME TypeOK, Queued, q' = q,
           \A x \in Tasks : /\ kernel[x] \in {"exiting", "leaving", "dead"} =>
                                 kernel'[x] \in {"exiting", "leaving", "dead"}
                            /\ kernel[x] = "dead" => kernel'[x] = "dead"
    PROVE  Queued'
<1>1. \A i \in DOMAIN q.deferred : q.deferred[i].task \in Tasks
  BY Zenon, Entries
<1> QED
  BY <1>1 DEF Queued

-----------------------------------------------------------------------------
\* The kernel's steps.

\* The dispatcher and the barrier do nothing.
Still == UNCHANGED <<thread, q, repair>>

\* Nobody gains or loses a task in such a step.
LEMMA StillKeeps ==
    ASSUME Still
    PROVE  /\ \A t : \A k : Keeps(k, t)' <=> Keeps(k, t)
           /\ \A t : Caught(t)' <=> Caught(t)
           /\ thread' = thread /\ q' = q /\ stage' = stage /\ actor' = actor /\ left' = left
  BY DEF Still, repair, Keeps, Caught, Deferred

\* A task whose records and entries stay keeps its keepers.
LEMMA SameKeepers ==
    ASSUME NEW x,
           /\ thread'[x].active <=> thread[x].active
           /\ thread'[x].parked <=> thread[x].parked
           /\ thread'[x].initial /\ thread'[x].stopped /\ ~thread'[x].born <=>
                 thread[x].initial /\ thread[x].stopped /\ ~thread[x].born
           /\ q'.deferred = q.deferred /\ actor' = actor
           /\ q'.part[x].synthetic /\ q'.part[x].resume <=> q.part[x].synthetic /\ q.part[x].resume
    PROVE  \A k : Keeps(k, x)' <=> Keeps(k, x)
<1>1. Deferred(q', x) <=> Deferred(q, x)
  BY Zenon DEF Deferred
<1> QED
  BY ZenonT(30), <1>1 DEF Keeps

\* A running task stops by itself or because it was asked to.
Halts(t, e) ==
    /\ kernel[t] = "running"
    /\ kernel' = [kernel EXCEPT ![t] = "stopped"]
    /\ event' = [event EXCEPT ![t] = e]
    /\ asked' = [asked EXCEPT ![t] = FALSE]
    /\ UNCHANGED <<child, lost>>

\* A stop that nobody has collected yet keeps the invariant.
LEMMA HaltsStep ==
    ASSUME IInv, NEW t \in Tasks, NEW e \in {"stop", "trap"}, Halts(t, e), Still
    PROVE  IInv'
<1>1. /\ TypeOK /\ Reported /\ Collected /\ Recorded /\ Taken /\ Acting
      /\ Born /\ Queued /\ Kept /\ Barred
  BY Zenon DEF IInv
<1>2. /\ kernel[t] = "running" /\ event[t] = None
      /\ kernel'[t] = "stopped" /\ event'[t] = e /\ asked'[t] = FALSE
      /\ \A x \in Tasks \ {t} : kernel'[x] = kernel[x] /\ event'[x] = event[x] /\ asked'[x] = asked[x]
      /\ child' = child /\ lost' = lost
  BY ZenonT(30), <1>1 DEF Halts, TypeOK, Reported, Fits, None
<1>3. /\ \A x : \A k : Keeps(k, x)' <=> Keeps(k, x)
      /\ \A x : Caught(x)' <=> Caught(x)
      /\ thread' = thread /\ q' = q /\ stage' = stage /\ actor' = actor /\ left' = left
  BY Zenon, StillKeeps
<1>4. ~Caught(t)
  BY Zenon, <1>1, <1>2 DEF Collected
<1>5. TypeOK'
  <2>1. /\ kernel' \in [Tasks -> {"unborn", "running", "stopped", "lent", "exiting", "leaving", "dead"}]
        /\ event' \in [Tasks -> {None, "stop", "trap", "birth", "exiting", "exit"}]
        /\ asked' \in [Tasks -> BOOLEAN]
    BY Zenon, <1>1 DEF TypeOK, Halts
  <2> QED
    BY Zenon, <1>1, <1>2, <1>3, <2>1 DEF TypeOK
<1>6. Reported'
  BY <1>1, <1>2, <1>3 DEF Reported, Fits
<1>7. Collected'
  BY Zenon, <1>1, <1>2, <1>3, <1>4 DEF Collected
<1>8. Recorded'
  BY Zenon, <1>1, <1>2, <1>3 DEF Recorded
<1>9. Taken'
  <2>1. \A x \in Tasks : kernel'[x] = "lent" <=> kernel[x] = "lent"
    BY Zenon, <1>2
  <2> QED
    BY Zenon, <1>1, <1>3, <2>1 DEF Taken, Counted, Waiting, Lent
<1>10. Acting'
  BY Zenon, <1>1, <1>2, <1>3 DEF Acting, TypeOK
<1>11. \A p, c \in Tasks : Pending(p, c)' <=> Pending(p, c)
  BY Zenon, <1>2, <1>3 DEF Pending, None
<1>12. Born'
  BY SMTT(30), <1>1, <1>2, <1>3, <1>11 DEF Born
<1>13. Queued'
  <2>1. \A i \in DOMAIN q.deferred : q.deferred[i].task \in Tasks \ {t}
    BY Zenon, <1>1, <1>4, Entries DEF Caught, Deferred
  <2> QED
    BY SMTT(30), <1>1, <1>2, <1>3, <2>1 DEF Queued
<1>14. Kept'
  <2>1. \A k \in Keepers : ~Keeps(k, t)
    BY Zenon, <1>1, <1>4, KeeperCaught
  <2> QED
    BY ZenonT(30), <1>1, <1>2, <1>3, <2>1 DEF Kept, None
<1>15. Barred'
  BY <1>1, <1>2, <1>3 DEF Barred, Unseen, BirthDeferred, None
<1> QED
  BY Zenon, <1>5, <1>6, <1>7, <1>8, <1>9, <1>10, <1>12, <1>13, <1>14, <1>15 DEF IInv

\* A birth keeps it: the newborn is pending until the dispatcher handles the event.
LEMMA RunBirthStep ==
    ASSUME IInv, NEW t \in Tasks, NEW c \in Tasks, RunBirth(t, c)
    PROVE  IInv'
<1>1. /\ TypeOK /\ Reported /\ Collected /\ Recorded /\ Taken /\ Acting
      /\ Born /\ Queued /\ Kept /\ Barred
  BY Zenon DEF IInv
<1>2. Still
  BY Zenon DEF RunBirth, Still
<1>3. /\ \A x : \A k : Keeps(k, x)' <=> Keeps(k, x)
      /\ \A x : Caught(x)' <=> Caught(x)
      /\ thread' = thread /\ q' = q /\ stage' = stage /\ actor' = actor /\ left' = left
  BY Zenon, <1>2, StillKeeps
<1>4. /\ c # t /\ kernel[t] = "running" /\ event[t] = None /\ kernel[c] = "unborn" /\ event[c] = None
      /\ kernel'[t] = "stopped" /\ event'[t] = "birth" /\ child'[t] = c
      /\ kernel'[c] = "running" /\ event'[c] = None /\ asked'[c]
      /\ \A x \in Tasks \ {t} : child'[x] = child[x] /\ event'[x] = event[x]
      /\ \A x \in Tasks \ {t, c} : kernel'[x] = kernel[x] /\ asked'[x] = asked[x]
      /\ lost' = lost
  BY ZenonT(30), <1>1 DEF RunBirth, TypeOK, Reported, Fits, None
<1>5. ~Caught(t) /\ ~Caught(c) /\ ~thread[c].born /\ ~thread[c].initial
  BY Zenon, <1>1, <1>4 DEF Collected, Reported
<1>6. thread[t].born
  BY Zenon, <1>1, <1>4 DEF RunBirth, Born
<1>7. TypeOK'
  <2>1. /\ kernel' \in [Tasks -> {"unborn", "running", "stopped", "lent", "exiting", "leaving", "dead"}]
        /\ event' \in [Tasks -> {None, "stop", "trap", "birth", "exiting", "exit"}]
        /\ asked' \in [Tasks -> BOOLEAN] /\ child' \in [Tasks -> Tasks]
    BY Zenon, <1>1 DEF TypeOK, RunBirth
  <2> QED
    BY Zenon, <1>1, <1>3, <1>4, <2>1 DEF TypeOK
<1>8. Reported'
  BY SMTT(30), <1>1, <1>3, <1>4 DEF Reported, Fits
<1>9. Collected'
  BY Zenon, <1>1, <1>3, <1>4, <1>5 DEF Collected
<1>10. Recorded'
  BY ZenonT(30), <1>1, <1>3, <1>4, <1>6 DEF Recorded
<1>11. Taken'
  <2>1. \A x \in Tasks : kernel'[x] = "lent" <=> kernel[x] = "lent"
    BY Zenon, <1>4
  <2> QED
    BY Zenon, <1>1, <1>3, <2>1 DEF Taken, Counted, Waiting, Lent
<1>12. Acting'
  BY Zenon, <1>1, <1>3, <1>4 DEF Acting, TypeOK
<1>13. \A i \in DOMAIN q.deferred : q.deferred[i].task \in Tasks \ {t, c}
  BY Zenon, <1>1, <1>5, Entries DEF Caught, Deferred
<1>14. /\ \A p, x \in Tasks : Pending(p, x)' <=> Pending(p, x) \/ (p = t /\ x = c)
       /\ \A p \in Tasks : ~Pending(p, c)
  <2>1. lost[t] = None
    BY Zenon, <1>1, <1>4 DEF Born
  <2>2. \A i \in DOMAIN q.deferred : q.deferred[i] # [task |-> t, status |-> "birth"]
    BY <1>13
  <2>3. \A p \in Tasks : ~Pending(p, c)
    BY Zenon, <1>1, <1>4 DEF Born
  <2>4. \A x \in Tasks : ~Pending(t, x) /\ (Pending(t, x)' <=> x = c)
    BY Zenon, <1>3, <1>4, <2>1, <2>2, TasksAssumption DEF Pending, None
  <2>5. \A p \in Tasks \ {t}, x \in Tasks : Pending(p, x)' <=> Pending(p, x)
    BY Zenon, <1>3, <1>4 DEF Pending
  <2> QED
    BY Zenon, <2>3, <2>4, <2>5
<1>15. Born'
  <2>1. \A p, x \in Tasks : Pending(p, x)' =>
           p # x /\ ~thread[x].born /\ kernel'[x] \in {"running", "stopped", "lent", "exiting"}
    BY SMTT(30), <1>1, <1>4, <1>5, <1>14 DEF Born
  <2>2. \A p, r, x \in Tasks : Pending(p, x)' /\ Pending(r, x)' => p = r
    BY SMTT(30), <1>1, <1>14 DEF Born
  <2>3. \A x \in Tasks : kernel'[x] = "running" /\ ~thread[x].born =>
           asked'[x] /\ ~thread[x].initial /\ \E p \in Tasks : Pending(p, x)'
    BY SMTT(30), <1>1, <1>4, <1>5, <1>6, <1>14 DEF Born
  <2>4. \A p \in Tasks : lost[p] # None =>
          /\ kernel'[p] \in {"exiting", "leaving", "dead"}
          /\ \A i \in DOMAIN q.deferred : q.deferred[i] # [task |-> p, status |-> "birth"]
    BY Zenon, <1>1, <1>4 DEF Born
  <2> QED
    BY SMTT(30), <1>3, <1>4, <2>1, <2>2, <2>3, <2>4 DEF Born
<1>16. Queued'
  <2>1. \A i \in DOMAIN q.deferred : kernel'[q.deferred[i].task] = kernel[q.deferred[i].task]
    BY Zenon, <1>4, <1>13
  <2> QED
    BY ZenonT(30), <1>1, <1>3, <2>1 DEF Queued
<1>17. Kept'
  <2>1. \A k \in Keepers : ~Keeps(k, t)
    BY Zenon, <1>1, <1>5, KeeperCaught
  <2> QED
    BY ZenonT(30), <1>1, <1>3, <1>4, <2>1 DEF Kept, None
<1>18. Barred'
  <2>1. ASSUME stage # "off"
        PROVE  ~q.part[t].stopped
    BY Zenon, <1>1, <1>4, <1>6, <2>1 DEF Barred
  <2>2. Unseen(c)'
    BY Zenon, <1>4 DEF Unseen
  <2>3. \A x \in Tasks : Unseen(x) => Unseen(x)'
    <3>1. \A x \in Tasks : BirthDeferred(x, left) => BirthDeferred(x, left)'
      BY SMTT(30), <1>3, <1>4, <1>13 DEF BirthDeferred
    <3> QED
      BY SMTT(30), <1>4, <3>1 DEF Unseen, None
  <2> QED
    BY ZenonT(30), <1>1, <1>3, <1>4, <1>5, <2>1, <2>2, <2>3 DEF Barred
<1> QED
  BY Zenon, <1>7, <1>8, <1>9, <1>10, <1>11, <1>12, <1>15, <1>16, <1>17, <1>18 DEF IInv

\* The two ways to die: a task is killed, and an exit stop has been resumed.
LEMMA KilledStep ==
    ASSUME IInv, NEW t \in Tasks, Killed(t)
    PROVE  IInv'
<1>1. /\ TypeOK /\ Reported /\ Collected /\ Recorded /\ Taken /\ Acting
      /\ Born /\ Queued /\ Kept /\ Barred
  BY Zenon DEF IInv
<1>2. Still
  BY Zenon DEF Killed, Still
<1>3. /\ \A x : \A k : Keeps(k, x)' <=> Keeps(k, x)
      /\ \A x : Caught(x)' <=> Caught(x)
      /\ thread' = thread /\ q' = q /\ stage' = stage /\ actor' = actor /\ left' = left
  BY Zenon, <1>2, StillKeeps
<1>4. /\ kernel[t] \in {"running", "stopped"} /\ t # actor
      /\ kernel'[t] = "exiting" /\ event'[t] = "exiting" /\ asked'[t] = FALSE
      /\ \A x \in Tasks \ {t} : /\ kernel'[x] = kernel[x] /\ event'[x] = event[x]
                                /\ asked'[x] = asked[x] /\ lost'[x] = lost[x]
      /\ lost'[t] = IF event[t] = "birth" THEN child[t] ELSE lost[t]
      /\ child' = child
  BY Zenon, <1>1 DEF Killed, TypeOK
<1>5. lost[t] = None
  BY Zenon, <1>1, <1>4 DEF Born
<1>6. TypeOK'
  <2>1. /\ kernel' \in [Tasks -> {"unborn", "running", "stopped", "lent", "exiting", "leaving", "dead"}]
        /\ event' \in [Tasks -> {None, "stop", "trap", "birth", "exiting", "exit"}]
        /\ asked' \in [Tasks -> BOOLEAN] /\ lost' \in [Tasks -> Tasks \cup {None}]
    BY Zenon, <1>1 DEF TypeOK, Killed
  <2> QED
    BY Zenon, <1>1, <1>3, <1>4, <2>1 DEF TypeOK
<1>7. Reported'
  BY ZenonT(30), <1>1, <1>3, <1>4 DEF Reported, Fits
<1>8. Collected'
  BY Zenon, <1>1, <1>3, <1>4 DEF Collected
<1>9. Recorded'
  BY Zenon, <1>1, <1>3, <1>4 DEF Recorded
<1>10. Taken'
  <2>1. \A x \in Tasks : kernel'[x] = "lent" <=> kernel[x] = "lent"
    BY Zenon, <1>4
  <2> QED
    BY Zenon, <1>1, <1>3, <2>1 DEF Taken, Counted, Waiting, Lent
<1>11. Acting'
  BY Zenon, <1>1, <1>3, <1>4 DEF Acting, TypeOK
<1>12. \A p, x \in Tasks : Pending(p, x)' <=> Pending(p, x)
  <2>1. \A p \in Tasks \ {t}, x \in Tasks : Pending(p, x)' <=> Pending(p, x)
    BY Zenon, <1>3, <1>4 DEF Pending
  <2>2. \A x \in Tasks : x # None
    BY Zenon, TasksAssumption
  <2>3. \A x \in Tasks : Pending(t, x)' <=> Pending(t, x)
    BY ZenonT(30), <1>3, <1>4, <1>5, <2>2 DEF Pending
  <2> QED
    BY Zenon, <2>1, <2>3
<1>13. Born'
  <2>1. \A i \in DOMAIN q.deferred : event[t] = "birth" => q.deferred[i] # [task |-> t, status |-> "birth"]
    BY <1>1 DEF Collected, Caught, Deferred
  <2>2. \A p \in Tasks : lost'[p] # None =>
          /\ kernel'[p] \in {"exiting", "leaving", "dead"}
          /\ \A i \in DOMAIN q.deferred : q.deferred[i] # [task |-> p, status |-> "birth"]
    BY ZenonT(30), <1>1, <1>4, <1>5, <2>1 DEF Born
  <2> QED
    BY SMTT(30), <1>1, <1>3, <1>4, <1>12, <2>2 DEF Born
<1>14. Queued'
  <2>1. \A x \in Tasks :
           /\ kernel[x] \in {"exiting", "leaving", "dead"} =>
                 kernel'[x] \in {"exiting", "leaving", "dead"}
           /\ kernel[x] = "dead" => kernel'[x] = "dead"
    BY Zenon, <1>4
  <2> QED
    BY Zenon, <1>1, <1>3, <2>1, QueuedStill
<1>15. Kept'
  BY Zenon, <1>1, <1>3, <1>4 DEF Kept, None
<1>16. Barred'
  <2>1. \A x \in Tasks : Unseen(x) => Unseen(x)'
    <3>1. \A x \in Tasks : BirthDeferred(x, left) => BirthDeferred(x, left)'
      BY Zenon, <1>3, <1>4 DEF BirthDeferred
    <3>2. \A x \in Tasks : x # None
      BY TasksAssumption
    <3> QED
      BY ZenonT(30), <1>4, <1>5, <3>1, <3>2 DEF Unseen
  <2> QED
    BY Zenon, <1>1, <1>3, <1>4, <2>1 DEF Barred
<1> QED
  BY Zenon, <1>6, <1>7, <1>8, <1>9, <1>10, <1>11, <1>13, <1>14, <1>15, <1>16 DEF IInv

\* A task whose exit stop was resumed is dead and has its wait status to report.
LEMMA RunExitStep ==
    ASSUME IInv, NEW t \in Tasks, RunExit(t)
    PROVE  IInv'
<1>1. /\ TypeOK /\ Reported /\ Collected /\ Recorded /\ Taken /\ Acting
      /\ Born /\ Queued /\ Kept /\ Barred
  BY DEF IInv
<1>2. Still
  BY Zenon DEF RunExit, Still
<1>3. /\ \A x : \A k : Keeps(k, x)' <=> Keeps(k, x)
      /\ \A x : Caught(x)' <=> Caught(x)
      /\ thread' = thread /\ q' = q /\ stage' = stage /\ actor' = actor /\ left' = left
  BY <1>2, StillKeeps
<1>4. /\ kernel[t] = "leaving" /\ event[t] = None /\ kernel'[t] = "dead" /\ event'[t] = "exit"
      /\ \A x \in Tasks \ {t} : kernel'[x] = kernel[x] /\ event'[x] = event[x]
      /\ asked' = asked /\ child' = child /\ lost' = lost
  BY Zenon, <1>1 DEF RunExit, TypeOK, Reported, Fits, None
<1>5. TypeOK'
  <2>1. /\ kernel' \in [Tasks -> {"unborn", "running", "stopped", "lent", "exiting", "leaving", "dead"}]
        /\ event' \in [Tasks -> {None, "stop", "trap", "birth", "exiting", "exit"}]
    BY Zenon, <1>1 DEF TypeOK, RunExit
  <2> QED
    BY Zenon, <1>1, <1>3, <1>4, <2>1 DEF TypeOK
<1>6. Reported' /\ Collected' /\ Recorded'
  BY SMTT(30), <1>1, <1>3, <1>4 DEF Reported, Fits, Collected, Recorded
<1>7. Taken'
  <2>1. \A x \in Tasks : kernel'[x] = "lent" <=> kernel[x] = "lent"
    BY Zenon, <1>4
  <2> QED
    BY <1>1, <1>3, <2>1 DEF Taken, Counted, Waiting, Lent
<1>8. Acting'
  BY Zenon, <1>1, <1>3, <1>4 DEF Acting, TypeOK
<1>9. \A p, x \in Tasks : Pending(p, x)' <=> Pending(p, x)
  BY Zenon, <1>3, <1>4 DEF Pending, None
<1>10. Born'
  BY SMTT(30), <1>1, <1>3, <1>4, <1>9 DEF Born
<1>11. Queued'
  <2>1. \A x \in Tasks :
           /\ kernel[x] \in {"exiting", "leaving", "dead"} =>
                 kernel'[x] \in {"exiting", "leaving", "dead"}
           /\ kernel[x] = "dead" => kernel'[x] = "dead"
    BY Zenon, <1>4
  <2> QED
    BY SMTT(30), <1>1, <1>3, <2>1, QueuedStill
<1>12. Kept'
  BY Zenon, <1>1, <1>3, <1>4 DEF Kept
<1>13. Barred'
  <2>1. \A x \in Tasks : Unseen(x) => Unseen(x)'
    <3>1. \A x \in Tasks : BirthDeferred(x, left) => BirthDeferred(x, left)'
      BY Zenon, <1>3, <1>4 DEF BirthDeferred
    <3> QED
      BY Zenon, <1>4, <3>1 DEF Unseen, None
  <2> QED
    BY Zenon, <1>1, <1>3, <1>4, <2>1 DEF Barred
<1> QED
  BY Zenon, <1>5, <1>6, <1>7, <1>8, <1>10, <1>11, <1>12, <1>13 DEF IInv

-----------------------------------------------------------------------------
\* Steps of the dispatcher and the repair that move one record.

\* lost_stop_event: a handler finds its task in an exit stop and gives it up.
LEMMA DisplacedStep ==
    ASSUME IInv, NEW t \in Tasks, Displaced(t)
    PROVE  IInv'
<1>1. /\ TypeOK /\ Reported /\ Collected /\ Recorded /\ Taken /\ Acting
      /\ Born /\ Queued /\ Kept /\ Barred
  BY DEF IInv
<1>2. /\ kernel' = kernel /\ asked' = asked /\ event' = event /\ child' = child /\ lost' = lost
      /\ q' = q /\ stage' = stage /\ actor' = actor /\ left' = left
  BY Zenon DEF Displaced, repair
<1>3. /\ thread' \in [Tasks -> ThreadType] /\ ~thread'[t].active
      /\ \A x \in Tasks \ {t} : thread'[x] = thread[x]
      /\ \A x \in Tasks : /\ thread'[x].born = thread[x].born /\ thread'[x].initial = thread[x].initial
                          /\ thread'[x].stopped = thread[x].stopped /\ thread'[x].parked = thread[x].parked
  BY ZenonT(30), <1>1, QTyped DEF Displaced, ThreadType
<1>4. event[t] = "exiting" /\ kernel[t] = "exiting"
  BY Zenon, <1>1 DEF Displaced, Reported, Fits, None
<1>5. TypeOK'
  BY Zenon, <1>1, <1>2, <1>3 DEF TypeOK, ThreadType
<1>6. \A x \in Tasks : Caught(x)' <=> Caught(x)
  BY Zenon, <1>2, <1>3 DEF Caught, Deferred
<1>7. \A x \in Tasks \ {t} : \A k : Keeps(k, x)' <=> Keeps(k, x)
  <2>1. ASSUME NEW x \in Tasks \ {t}
        PROVE  /\ thread'[x].active <=> thread[x].active
               /\ thread'[x].parked <=> thread[x].parked
               /\ thread'[x].initial /\ thread'[x].stopped /\ ~thread'[x].born <=>
                     thread[x].initial /\ thread[x].stopped /\ ~thread[x].born
               /\ q'.deferred = q.deferred /\ actor' = actor
               /\ q'.part[x].synthetic /\ q'.part[x].resume <=> q.part[x].synthetic /\ q.part[x].resume
    BY Zenon, <1>2, <1>3
  <2> QED
    BY Zenon, <2>1, SameKeepers
<1>8. Reported' /\ Collected' /\ Recorded'
  BY Zenon, <1>1, <1>2, <1>3, <1>6 DEF Reported, Collected, Recorded
<1>9. Taken'
  BY Zenon, <1>1, <1>2, <1>3 DEF Taken, Counted, Waiting, Lent
<1>10. Acting'
  BY Zenon, <1>1, <1>2, <1>3 DEF Acting, TypeOK
<1>11. \A p, x : Pending(p, x)' <=> Pending(p, x)
  BY Zenon, <1>2 DEF Pending
<1>12. Born'
  BY ZenonT(30), <1>1, <1>2, <1>3, <1>11 DEF Born
<1>13. Queued'
  BY <1>1, <1>2 DEF Queued
<1>14. Kept'
  BY Zenon, <1>1, <1>2, <1>4, <1>7 DEF Kept, None
<1>15. Barred'
  BY SMTT(30), <1>1, <1>2, <1>3 DEF Barred, Unseen, BirthDeferred
<1> QED
  BY SMTT(30), <1>5, <1>8, <1>9, <1>10, <1>12, <1>13, <1>14, <1>15 DEF IInv

\* debugger_interrupt asks a task to stop and changes nobody's owner.
LEMMA InterruptStep ==
    ASSUME IInv, NEW t \in Tasks, Interrupt(t)
    PROVE  IInv'
<1>1. /\ TypeOK /\ Reported /\ Collected /\ Recorded /\ Taken /\ Acting
      /\ Born /\ Queued /\ Kept /\ Barred
  BY DEF IInv
<1>2. /\ kernel' = kernel /\ event' = event /\ child' = child /\ lost' = lost
      /\ q' = q /\ stage' = stage /\ actor' = actor /\ left' = left
  BY Zenon DEF Interrupt, repair
<1>3. /\ thread' \in [Tasks -> ThreadType] /\ asked' \in [Tasks -> BOOLEAN]
      /\ \A x \in Tasks : asked[x] => asked'[x]
      /\ \A x \in Tasks : /\ thread'[x].born = thread[x].born /\ thread'[x].initial = thread[x].initial
                          /\ thread'[x].stopped = thread[x].stopped /\ thread'[x].parked = thread[x].parked
                          /\ thread'[x].active = thread[x].active
  <2>1. asked' \in [Tasks -> BOOLEAN] /\ \A x \in Tasks : asked[x] => asked'[x]
    BY Zenon, <1>1 DEF Interrupt, TypeOK
  <2>2. thread \in [Tasks -> ThreadType] /\ thread' = [thread EXCEPT ![t].pending = TRUE]
    BY Zenon, <1>1, QTyped DEF Interrupt
  <2> QED
    BY ZenonT(30), <2>1, <2>2 DEF ThreadType
<1>4. TypeOK'
  BY Zenon, <1>1, <1>2, <1>3 DEF TypeOK, ThreadType
<1>5. \A x \in Tasks : Caught(x)' <=> Caught(x)
  BY Zenon, <1>2, <1>3 DEF Caught, Deferred
<1>6. \A x \in Tasks : \A k : Keeps(k, x)' <=> Keeps(k, x)
  <2>1. ASSUME NEW x \in Tasks
        PROVE  /\ thread'[x].active <=> thread[x].active
               /\ thread'[x].parked <=> thread[x].parked
               /\ thread'[x].initial /\ thread'[x].stopped /\ ~thread'[x].born <=>
                     thread[x].initial /\ thread[x].stopped /\ ~thread[x].born
               /\ q'.deferred = q.deferred /\ actor' = actor
               /\ q'.part[x].synthetic /\ q'.part[x].resume <=> q.part[x].synthetic /\ q.part[x].resume
    BY Zenon, <1>2, <1>3
  <2> QED
    BY Zenon, <2>1, SameKeepers
<1>7. Reported' /\ Collected' /\ Recorded'
  BY Zenon, <1>1, <1>2, <1>3, <1>5 DEF Reported, Collected, Recorded
<1>8. Taken'
  BY ZenonT(30), <1>1, <1>2, <1>3 DEF Taken, Counted, Waiting, Lent
<1>9. Acting'
  BY Zenon, <1>1, <1>2, <1>3 DEF Acting, TypeOK
<1>10. \A p, x : Pending(p, x)' <=> Pending(p, x)
  BY Zenon, <1>2 DEF Pending
<1>11. Born'
  BY ZenonT(30), <1>1, <1>2, <1>3, <1>10 DEF Born
<1>12. Queued'
  BY <1>1, <1>2 DEF Queued
<1>13. Kept'
  BY Zenon, <1>1, <1>2, <1>6 DEF Kept
<1>14. Barred'
  BY <1>1, <1>2, <1>3 DEF Barred, Unseen, BirthDeferred
<1> QED
  BY <1>4, <1>7, <1>8, <1>9, <1>11, <1>12, <1>13, <1>14 DEF IInv

\* The counter is zero only when nobody is awaited.
LEMMA HoldStep ==
    ASSUME IInv, Hold
    PROVE  IInv'
<1>1. /\ TypeOK /\ Reported /\ Collected /\ Recorded /\ Taken /\ Acting
      /\ Born /\ Queued /\ Kept /\ Barred
  BY Zenon DEF IInv
<1>2. /\ kernel' = kernel /\ asked' = asked /\ event' = event /\ child' = child /\ lost' = lost
      /\ thread' = thread /\ q' = q /\ actor' = actor /\ left' = left
      /\ stage = "writers" /\ stage' = "held" /\ q.waiting = 0
  BY Zenon DEF Hold, Ready
<1>3. \A x \in Tasks : q.part[x].stopped
  <2>1. Waiting(q) \subseteq Tasks /\ IsFiniteSet(Tasks)
    BY Zenon, TasksAssumption DEF Waiting
  <2>2. IsFiniteSet(Waiting(q))
    BY Zenon, <2>1, FS_Subset
  <2>3. Waiting(q) = {}
    BY Zenon, <1>1, <1>2, <2>2, FS_EmptySet DEF Taken, Counted
  <2> QED
    BY Zenon, <2>3 DEF Waiting
<1>4. TypeOK'
  BY Zenon, <1>1, <1>2 DEF TypeOK
<1>5. Reported' /\ Collected' /\ Recorded' /\ Queued'
  <2>1. \A x \in Tasks : Caught(x)' <=> Caught(x)
    BY Zenon, <1>2 DEF Caught, Deferred
  <2>2. Reported' /\ Collected' /\ Recorded'
    BY Zenon, <1>1, <1>2, <2>1 DEF Reported, Collected, Recorded
  <2> QED
    BY ZenonT(30), <1>1, <1>2, <2>2 DEF Queued
<1>6. Taken'
  BY Zenon, <1>1, <1>2, <1>3 DEF Taken, Counted, Waiting, Lent
<1>7. Acting'
  BY Zenon, <1>1, <1>2 DEF Acting
<1>8. Born'
  <2>1. \A p, x : Pending(p, x)' <=> Pending(p, x)
    BY Zenon, <1>2 DEF Pending
  <2> QED
    BY Zenon, <1>1, <1>2, <2>1 DEF Born
<1>9. Kept'
  BY <1>1, <1>2 DEF Kept, Keeps, Deferred
<1>10. Barred'
  BY <1>1, <1>2 DEF Barred, Unseen, BirthDeferred
<1> QED
  BY Zenon, <1>4, <1>5, <1>6, <1>7, <1>8, <1>9, <1>10 DEF IInv

\* A task is lent and comes back: nothing but its own record and the counter change.
Lends(t, v) ==
    /\ kernel' = [kernel EXCEPT ![t] = IF v THEN "lent" ELSE "stopped"]
    /\ q' = [q EXCEPT !.part[t].borrowed = v, !.borrowed = IF v THEN @ + 1 ELSE @ - 1]
    /\ UNCHANGED <<asked, event, child, lost, thread, repair>>

\* Lending and returning keep the counter exact and the task with its owner.
LEMMA LendsStep ==
    ASSUME IInv, NEW t \in Tasks, NEW v \in BOOLEAN, Lends(t, v),
           kernel[t] = IF v THEN "stopped" ELSE "lent", stage = "held",
           v => q.part[t].member
    PROVE  IInv'
<1>1. /\ TypeOK /\ Reported /\ Collected /\ Recorded /\ Taken /\ Acting
      /\ Born /\ Queued /\ Kept /\ Barred
  BY Zenon DEF IInv
<1>2. /\ asked' = asked /\ event' = event /\ child' = child /\ lost' = lost
      /\ thread' = thread /\ stage' = stage /\ actor' = actor /\ left' = left
  BY Zenon DEF Lends, repair
<1>3. /\ kernel[t] \in {"stopped", "lent"} /\ kernel'[t] \in {"stopped", "lent"}
      /\ kernel'[t] = "lent" <=> v
      /\ \A x \in Tasks \ {t} : kernel'[x] = kernel[x]
      /\ kernel' \in [Tasks -> {"unborn", "running", "stopped", "lent", "exiting", "leaving", "dead"}]
  BY Zenon, <1>1 DEF Lends, TypeOK
<1>4. q.part[t].borrowed = ~v /\ q.part[t].member /\ q.part[t].stopped
  <2>1. q.part[t] \in PartType
    BY Zenon, <1>1, QTyped DEF QType
  <2>2. q.part[t].borrowed <=> ~v
    BY Zenon, <1>1 DEF Taken
  <2>3. q.part[t].member
    BY Zenon, <1>1, <2>2, OffType DEF Taken
  <2> QED
    BY Zenon, <1>1, <2>1, <2>2, <2>3 DEF Taken, PartType
<1>5. event[t] = None
  <2>1. Caught(t)
    BY Zenon, <1>4 DEF Caught
  <2> QED
    BY Zenon, <1>1, <1>3, <2>1 DEF Collected, Reported, Fits
<1>6. /\ q'.part = [q.part EXCEPT ![t].borrowed = v] /\ q'.waiting = q.waiting
      /\ q'.deferred = q.deferred /\ q'.borrowed = IF v THEN q.borrowed + 1 ELSE q.borrowed - 1
      /\ q' = [part |-> q'.part, waiting |-> q'.waiting, borrowed |-> q'.borrowed, deferred |-> q'.deferred]
  <2>1. q \in QType /\ q' = [q EXCEPT !.part[t].borrowed = v, !.borrowed = IF v THEN @ + 1 ELSE @ - 1]
    BY Zenon, <1>1, QTyped DEF Lends
  <2> QED
    BY Zenon, <2>1 DEF QType
<1>7. /\ q'.part \in [Tasks -> PartType] /\ q'.part[t].borrowed = v
      /\ \A x \in Tasks \ {t} : q'.part[x] = q.part[x]
      /\ \A x \in Tasks : /\ q'.part[x].member = q.part[x].member /\ q'.part[x].stopped = q.part[x].stopped
                          /\ q'.part[x].resume = q.part[x].resume /\ q'.part[x].synthetic = q.part[x].synthetic
                          /\ q'.part[x].interrupted = q.part[x].interrupted
  <2>1. q.part \in [Tasks -> PartType]
    BY Zenon, <1>1, QTyped DEF QType
  <2> QED
    BY <1>6, <2>1 DEF PartType
<1>8. q'.borrowed = Cardinality(Lent(q')) /\ q'.borrowed \in Nat
  <2>1. Lent(q) \subseteq Tasks /\ IsFiniteSet(Tasks)
    BY Zenon, TasksAssumption DEF Lent
  <2>2. IsFiniteSet(Lent(q)) /\ q.borrowed = Cardinality(Lent(q)) /\ q.borrowed \in Nat
    BY Zenon, <1>1, <2>1, FS_Subset, FS_CardinalityType DEF Taken
  <2>3. CASE v
    <3>1. Lent(q') = Lent(q) \cup {t} /\ t \notin Lent(q)
      BY Zenon, <1>4, <1>7, <2>3 DEF Lent
    <3>2. Cardinality(Lent(q')) = Cardinality(Lent(q)) + 1
      BY Zenon, <2>2, <3>1, FS_AddElement
    <3> QED
      BY <1>6, <2>2, <2>3, <3>2
  <2>4. CASE ~v
    <3>1. Lent(q') = Lent(q) \ {t} /\ t \in Lent(q)
      BY Zenon, <1>4, <1>7, <2>4 DEF Lent
    <3>2. Cardinality(Lent(q')) = Cardinality(Lent(q)) - 1 /\ Cardinality(Lent(q')) \in Nat
      BY Zenon, <2>2, <3>1, FS_RemoveElement, FS_CardinalityType
    <3> QED
      BY Zenon, <1>6, <2>2, <2>4, <3>2
  <2> QED
    BY Zenon, <2>3, <2>4
<1>9. TypeOK'
  <2>1. q' \in QType
    <3>1. q.waiting \in Nat /\ q.deferred \in Seq(EntryType)
      BY Zenon, <1>1, QTyped DEF QType
    <3> QED
      BY Zenon, <1>6, <1>7, <1>8, <3>1 DEF QType
  <2> QED
    BY Zenon, <1>1, <1>2, <1>3, <2>1 DEF TypeOK, QType, PartType, EntryType, Statuses
<1>10. \A x \in Tasks : Caught(x)' <=> Caught(x)
  BY Zenon, <1>2, <1>6, <1>7 DEF Caught, Deferred
<1>11. \A x \in Tasks : \A k : Keeps(k, x)' <=> Keeps(k, x)
  <2>1. ASSUME NEW x \in Tasks
        PROVE  /\ thread'[x].active <=> thread[x].active
               /\ thread'[x].parked <=> thread[x].parked
               /\ thread'[x].initial /\ thread'[x].stopped /\ ~thread'[x].born <=>
                     thread[x].initial /\ thread[x].stopped /\ ~thread[x].born
               /\ q'.deferred = q.deferred /\ actor' = actor
               /\ q'.part[x].synthetic /\ q'.part[x].resume <=> q.part[x].synthetic /\ q.part[x].resume
    BY ZenonT(30), <1>2, <1>6, <1>7
  <2> QED
    BY Zenon, <2>1, SameKeepers
<1>12. Reported' /\ Collected' /\ Recorded'
  BY SMTT(30), <1>1, <1>2, <1>3, <1>5, <1>10 DEF Reported, Collected, Recorded, Fits, None
<1>13. Taken'
  <2>1. Counted(q')
    <3>1. Waiting(q') = Waiting(q)
      BY Zenon, <1>7 DEF Waiting
    <3> QED
      BY Zenon, <1>1, <1>6, <3>1 DEF Taken, Counted
  <2>2. \A x \in Tasks :
          /\ ~q'.part[x].member => q'.part[x] = Off
          /\ q'.part[x].borrowed <=> kernel'[x] = "lent"
          /\ q'.part[x].resume => thread[x].born
          /\ q'.part[x].interrupted /\ ~q'.part[x].stopped => q'.part[x].resume
          /\ q'.part[x].synthetic => q'.part[x].stopped
          /\ thread[x].stopped => q'.part[x].stopped /\ ~q'.part[x].synthetic
    <3>1. ASSUME NEW x \in Tasks
          PROVE  /\ q.part[x].borrowed <=> kernel[x] = "lent"
                 /\ ~q.part[x].member => q.part[x] = Off
                 /\ q.part[x].resume => thread[x].born
                 /\ q.part[x].interrupted /\ ~q.part[x].stopped => q.part[x].resume
                 /\ q.part[x].synthetic => q.part[x].stopped
                 /\ thread[x].stopped => q.part[x].stopped /\ ~q.part[x].synthetic
      BY Zenon, <1>1 DEF Taken
    <3>2. ASSUME NEW x \in Tasks
          PROVE  q'.part[x].borrowed <=> kernel'[x] = "lent"
      BY <1>3, <1>7, <3>1
    <3>3. ASSUME NEW x \in Tasks, ~q'.part[x].member
          PROVE  q'.part[x] = Off
      <4>1. x # t
        BY Zenon, <1>4, <1>7, <3>3
      <4>2. q'.part[x] = q.part[x]
        BY Zenon, <1>7, <4>1
      <4> QED
        BY Zenon, <3>1, <3>3, <4>2
    <3> QED
      BY Zenon, <1>7, <3>1, <3>2, <3>3
  <2>3. \A x \in Tasks : q'.part[x].stopped
    BY Zenon, <1>1, <1>7 DEF Taken
  <2> QED
    BY Zenon, <1>1, <1>2, <1>8, <2>1, <2>2, <2>3 DEF Taken
<1>14. Acting'
  BY Zenon, <1>1, <1>2, <1>3, <1>7 DEF Acting, TypeOK
<1>15. \A p, x : Pending(p, x)' <=> Pending(p, x)
  BY Zenon, <1>2, <1>6 DEF Pending
<1>16. Born'
  BY SMTT(30), <1>1, <1>2, <1>3, <1>6, <1>15 DEF Born
<1>17. Queued'
  <2>1. \A i \in DOMAIN q.deferred : q.deferred[i].task \in Tasks
    BY Zenon, <1>1, Entries
  <2> QED
    BY <1>1, <1>3, <1>6, <2>1 DEF Queued
<1>18. Kept'
  BY Zenon, <1>1, <1>2, <1>3, <1>11 DEF Kept
<1>19. Barred'
  <2>1. \A x \in Tasks : Unseen(x)' <=> Unseen(x)
    BY Zenon, <1>2, <1>6 DEF Unseen, BirthDeferred
  <2>2. \A x \in Tasks : kernel'[x] = "running" => kernel[x] = "running"
    BY Zenon, <1>3
  <2>3. \A x \in Tasks : q'.part[x].stopped = q.part[x].stopped
    BY Zenon, <1>7
  <2> QED
    BY Zenon, <1>1, <1>2, <2>1, <2>2, <2>3 DEF Barred
<1> QED
  BY Zenon, <1>9, <1>12, <1>13, <1>14, <1>16, <1>17, <1>18, <1>19 DEF IInv

\* md_task_quiesce_borrow is such a step.
LEMMA LendStep ==
    ASSUME IInv, NEW t \in Tasks, Lend(t)
    PROVE  IInv'
<1>1. Lends(t, TRUE)
  BY Zenon DEF Lend, Lends
<1>2. \A v \in BOOLEAN : v /\ Lends(t, v) => IInv'
  BY Zenon, LendsStep DEF Lend
<1> QED
  BY Zenon, <1>1, <1>2

\* md_task_quiesce_return is such a step.
LEMMA ReturnStep ==
    ASSUME IInv, NEW t \in Tasks, Return(t)
    PROVE  IInv'
<1>1. Lends(t, FALSE)
  BY Zenon DEF Return, Lends
<1>2. kernel[t] = "lent" /\ stage = "held"
  <2>1. Taken /\ q.part[t].borrowed
    BY Zenon DEF IInv, Return
  <2>2. IsFiniteSet(Lent(q)) /\ t \in Lent(q)
    BY Zenon, <2>1, TasksAssumption, FS_Subset DEF Lent
  <2>3. Cardinality(Lent(q)) # 0
    BY Zenon, <2>2, FS_EmptySet
  <2> QED
    BY Zenon, <2>1, <2>3 DEF Taken
<1>3. \A v \in BOOLEAN : ~v /\ Lends(t, v) => IInv'
  BY Zenon, <1>2, LendsStep
<1> QED
  BY Zenon, <1>1, <1>3

-----------------------------------------------------------------------------
\* The dispatcher takes an event, from the kernel or from the deferred queue.

Births(b, p) == \E i \in DOMAIN b.deferred : b.deferred[i] = [task |-> p, status |-> "birth"]

\* What is known of the event e of t once it has been taken, ev and b being
\* the events and the queue without it.
Fetched(t, e, ev, b) ==
    /\ ev \in [Tasks -> Statuses \cup {None}] /\ \A x \in Tasks \ {t} : ev[x] = event[x]
    /\ ev[t] \in {None, event[t]} /\ ev[t] \notin {"stop", "trap", "birth"}
    /\ kernel[t] \notin {"unborn", "running"} /\ (e = "exit" => kernel[t] = "dead")
    /\ b \in QType /\ b.part = q.part /\ b.waiting = q.waiting /\ b.borrowed = q.borrowed
    /\ b.deferred = q.deferred \/ (q.deferred # <<>> /\ b.deferred = Tail(q.deferred))
    /\ \A x \in Tasks \ {t} : Deferred(b, x) <=> Deferred(q, x)
    /\ kernel[t] = "stopped" => /\ ev[t] = None /\ ~Deferred(b, t)
                                /\ ~thread[t].active /\ ~thread[t].parked
    /\ \A p \in Tasks : Births(b, p) <=> Births(q, p) /\ ~(p = t /\ e = "birth")
    /\ e = "birth" => Pending(t, child[t]) /\ lost[t] = None
    /\ e # "birth" => (event[t] = "birth" => ev[t] = "birth")

\* The rest of a queue.
LEMMA TailOf ==
    ASSUME NEW S, NEW s \in Seq(S), s # <<>>
    PROVE  /\ Tail(s) \in Seq(S) /\ Len(Tail(s)) = Len(s) - 1 /\ Len(s) \in Nat \ {0}
           /\ DOMAIN Tail(s) = 1 .. (Len(s) - 1) /\ DOMAIN s = 1 .. Len(s)
           /\ \A i \in 1 .. (Len(s) - 1) : Tail(s)[i] = s[i + 1] /\ i + 1 \in DOMAIN s
           /\ Head(s) = s[1] /\ 1 \in DOMAIN s
  OBVIOUS

\* What the dispatcher does with an event e of task t: it publishes the newborn c
\* that the event announces and resumes the ones in go.
Undisturbed == asked' = asked /\ child' = child /\ stage' = stage /\ actor' = actor /\ left' = left
ParentOf(t, e, c) ==
    /\ c \in Tasks \cup {None} /\ (e \notin {"birth", "exiting"} => c = None)
    /\ e = "birth" => c = child[t]
    /\ e = "exiting" => c = lost[t]
NewbornOf(t, c) ==
    c # None => /\ c \in Tasks /\ Pending(t, c) /\ c # t
                /\ ~thread[c].born /\ ~thread[c].active /\ ~thread[c].parked
                /\ kernel[c] \in {"running", "stopped", "lent", "exiting"}
                /\ thread[c].initial = thread[c].stopped
Unbarred ==
    \A x \in Tasks : q.part[x] = Off /\ q'.part[x] = Off /\ kernel[x] # "lent" /\ ~Keeps("synthetic", x)
HaltedNewborn(c) ==
    c # None /\ thread[c].initial =>
        /\ kernel[c] \in {"stopped", "exiting"} /\ ~(kernel[c] = "stopped" /\ Deferred(q, c))
        /\ kernel[c] = "stopped" => event[c] = None
Going(t, c, go) ==
    /\ go = (IF c # None /\ thread[c].initial THEN {c} ELSE {}) /\ go \subseteq Tasks /\ t \notin go
    /\ \A x \in go : x = c /\ c # None /\ thread[c].initial
Continued(ev, go) ==
    /\ kernel' \in [Tasks -> {"unborn", "running", "stopped", "lent", "exiting", "leaving", "dead"}]
    /\ \A x \in Tasks \ go : kernel'[x] = kernel[x] /\ event'[x] = ev[x]
    /\ \A x \in go : kernel'[x] = (IF kernel[x] = "stopped" THEN "running" ELSE "leaving") /\ event'[x] = None
    /\ event' \in [Tasks -> Statuses \cup {None}]
Recounted(t, e, c) ==
    /\ thread' \in [Tasks -> ThreadType]
    /\ \A x \in Tasks \ {t, c} : thread'[x] = thread[x]
    /\ c # None => /\ thread'[c].born /\ thread'[c].initial = thread[c].initial
                   /\ ~thread'[c].stopped /\ ~thread'[c].active /\ ~thread'[c].parked
    /\ e = "exit" => thread'[t] = NoThread
    /\ e # "exit" => /\ thread'[t].stopped /\ thread'[t].initial /\ thread'[t].born = thread[t].born
                     /\ thread'[t].active = thread[t].born /\ thread'[t].parked = thread[t].parked
Forgotten(t, e) ==
    /\ lost' \in [Tasks -> Tasks \cup {None}] /\ \A x \in Tasks \ {t} : lost'[x] = lost[x]
    /\ lost'[t] = IF e = "exiting" THEN None ELSE lost[t]
Handled(t, e, ev, c, go) ==
    /\ Undisturbed /\ ParentOf(t, e, c) /\ NewbornOf(t, c) /\ Unbarred /\ HaltedNewborn(c)
    /\ Going(t, c, go) /\ Continued(ev, go) /\ Recounted(t, e, c) /\ Forgotten(t, e)

\* Handling an event has that effect.
LEMMA HandleEffect ==
    ASSUME IInv, stage = "off", NEW t \in Tasks, NEW e \in Statuses, NEW ev,
           Fetched(t, e, ev, q'), Handle(t, e, ev), UNCHANGED <<asked, child, repair>>
    PROVE  \E c, go : Handled(t, e, ev, c, go)
<1>1. /\ TypeOK /\ Reported /\ Collected /\ Recorded /\ Taken /\ Acting
      /\ Born /\ Queued /\ Kept /\ Barred
  BY Zenon DEF IInv
<1> DEFINE c == CASE e = "birth" -> child[t] [] e = "exiting" -> lost[t] [] OTHER -> None
           seen == [thread[t] EXCEPT !.stopped = TRUE, !.pending = FALSE,
                                     !.initial = TRUE, !.active = thread[t].born]
           th == [thread EXCEPT ![t] = IF e = "exit" THEN NoThread ELSE seen]
           go == IF c # None /\ thread[c].initial THEN {c} ELSE {}
<1>2. /\ thread' = IF c = None THEN th ELSE Published(th, c)
      /\ kernel' = Continues(go) /\ event' = Unreported(ev, go)
      /\ lost' = IF e = "exiting" THEN [lost EXCEPT ![t] = None] ELSE lost
      /\ asked' = asked /\ child' = child /\ stage' = stage /\ actor' = actor /\ left' = left
  BY Zenon DEF Handle, repair
<1>3. /\ thread \in [Tasks -> ThreadType] /\ lost \in [Tasks -> Tasks \cup {None}]
      /\ child \in [Tasks -> Tasks] /\ None \notin Tasks
  BY Zenon, <1>1, QTyped, TasksAssumption
<1>4. /\ c \in Tasks \cup {None} /\ (e \notin {"birth", "exiting"} => c = None)
      /\ e = "birth" => c = child[t]
      /\ e = "exiting" => c = lost[t]
  BY Zenon, <1>3 DEF None
<1> HIDE DEF c
<1>5. ASSUME c # None
      PROVE  /\ c \in Tasks /\ Pending(t, c) /\ c # t
             /\ ~thread[c].born /\ ~thread[c].active /\ ~thread[c].parked
             /\ kernel[c] \in {"running", "stopped", "lent", "exiting"}
             /\ thread[c].initial = thread[c].stopped
  <2>1. c \in Tasks /\ e \in {"birth", "exiting"}
    BY Zenon, <1>4, <1>5
  <2>2. Pending(t, c)
    BY Zenon, <1>4, <2>1 DEF Pending, Fetched
  <2>3. c # t /\ ~thread[c].born /\ kernel[c] \in {"running", "stopped", "lent", "exiting"}
    BY Zenon, <1>1, <2>1, <2>2 DEF Born
  <2>4. thread[c].initial <=> thread[c].stopped
    BY Zenon, <1>1, <2>1, <2>3 DEF Recorded
  <2> QED
    BY Zenon, <1>1, <1>3, <2>1, <2>2, <2>3, <2>4 DEF Recorded, ThreadType
<1>6. \A x \in Tasks : q.part[x] = Off /\ q'.part[x] = Off /\ kernel[x] # "lent" /\ ~Keeps("synthetic", x)
  <2>1. \A x \in Tasks : q.part[x] = Off /\ q'.part[x] = Off
    BY ZenonT(30), <1>1 DEF Taken, Fetched
  <2>2. \A x \in Tasks : kernel[x] # "lent"
    <3>1. \A x \in Tasks : ~q.part[x].borrowed
      BY Zenon, <2>1, OffType
    <3>2. \A x \in Tasks : q.part[x].borrowed <=> kernel[x] = "lent"
      BY Zenon, <1>1 DEF Taken
    <3> QED
      BY Zenon, <3>1, <3>2
  <2>3. \A x \in Tasks : ~Keeps("synthetic", x)
    BY Zenon, <2>1, OffType DEF Keeps
  <2> QED
    BY Zenon, <2>1, <2>2, <2>3
<1>7. ASSUME c # None, thread[c].initial
      PROVE  /\ kernel[c] \in {"stopped", "exiting"} /\ ~(kernel[c] = "stopped" /\ Deferred(q, c))
             /\ kernel[c] = "stopped" => event[c] = None
  <2>1. thread[c].stopped /\ c \in Tasks /\ ~thread[c].born
    BY Zenon, <1>5, <1>7
  <2>2. Caught(c)
    BY Zenon, <2>1 DEF Caught
  <2>3. kernel[c] \in {"stopped", "exiting"} /\ (kernel[c] = "stopped" => event[c] = None)
    BY SMTT(30), <1>1, <1>5, <1>6, <1>7, <2>1, <2>2 DEF Collected, Reported, Fits
  <2>4. Keeps("birth", c) /\ (Deferred(q, c) => Keeps("deferred", c))
    BY Zenon, <1>7, <2>1 DEF Keeps
  <2> QED
    BY SMTT(30), <1>1, <2>1, <2>3, <2>4 DEF Kept, Keepers
<1>8. /\ go = (IF c # None /\ thread[c].initial THEN {c} ELSE {}) /\ go \subseteq Tasks /\ t \notin go
      /\ \A x \in go : x = c /\ c # None /\ thread[c].initial
  BY Zenon, <1>5
<1> HIDE DEF go
<1>9. /\ kernel' \in [Tasks -> {"unborn", "running", "stopped", "lent", "exiting", "leaving", "dead"}]
      /\ \A x \in Tasks \ go : kernel'[x] = kernel[x] /\ event'[x] = ev[x]
      /\ \A x \in go : kernel'[x] = (IF kernel[x] = "stopped" THEN "running" ELSE "leaving") /\ event'[x] = None
      /\ event' \in [Tasks -> Statuses \cup {None}]
  <2>1. \A x \in go : /\ kernel[x] \in {"stopped", "exiting"}
                      /\ kernel[x] = "stopped" => ev[x] = None
    BY ZenonT(30), <1>7, <1>8 DEF Fetched
  <2>2. \A x \in Tasks : ev[x] \in Statuses \cup {None}
    BY Zenon DEF Fetched
  <2>3. kernel \in [Tasks -> {"unborn", "running", "stopped", "lent", "exiting", "leaving", "dead"}]
    BY Zenon, <1>1 DEF TypeOK
  <2>4. \A x \in Tasks : event'[x] = IF x \in go /\ kernel[x] = "exiting" THEN None ELSE ev[x]
    BY Zenon, <1>2 DEF Unreported
  <2>5. event' \in [Tasks -> Statuses \cup {None}]
    BY Zenon, <1>2, <2>2 DEF Unreported
  <2>6. \A x \in Tasks : kernel'[x] = CASE x \in go /\ kernel[x] = "stopped" -> "running"
                                        [] x \in go /\ kernel[x] = "exiting" -> "leaving"
                                        [] OTHER -> kernel[x]
    BY Zenon, <1>2 DEF Continues
  <2>7. kernel' \in [Tasks -> {"unborn", "running", "stopped", "lent", "exiting", "leaving", "dead"}]
    BY Zenon, <1>2, <2>3 DEF Continues
  <2> QED
    BY Zenon, <1>8, <2>1, <2>4, <2>5, <2>6, <2>7
<1>10. /\ thread' \in [Tasks -> ThreadType]
       /\ \A x \in Tasks \ {t, c} : thread'[x] = thread[x]
       /\ c # None => /\ thread'[c].born /\ thread'[c].initial = thread[c].initial
                      /\ ~thread'[c].stopped /\ ~thread'[c].active /\ ~thread'[c].parked
       /\ e = "exit" => thread'[t] = NoThread
       /\ e # "exit" => /\ thread'[t].stopped /\ thread'[t].initial /\ thread'[t].born = thread[t].born
                        /\ thread'[t].active = thread[t].born /\ thread'[t].parked = thread[t].parked
  <2>1. seen \in ThreadType /\ NoThread \in ThreadType
    BY Zenon, <1>3, NoThreadType DEF ThreadType
  <2>2. /\ e # "exit" => th[t] = seen
        /\ e = "exit" => th[t] = NoThread
        /\ th \in [Tasks -> ThreadType] /\ \A x \in Tasks \ {t} : th[x] = thread[x]
    BY Zenon, <1>3, <2>1
  <2>3. /\ seen.stopped /\ seen.initial /\ seen.born = thread[t].born
        /\ seen.active = thread[t].born /\ seen.parked = thread[t].parked
    BY <1>3 DEF ThreadType
  <2> HIDE DEF th, seen
  <2>4. CASE c = None
    BY Zenon, <1>2, <2>2, <2>3, <2>4
  <2>5. CASE c # None
    <3>1. thread' = [th EXCEPT ![c].born = TRUE, ![c].stopped = @ /\ ~th[c].initial]
      BY <1>2, <2>5, Zenon DEF Published
    <3>2. /\ c \in Tasks /\ c # t /\ th[c] = thread[c] /\ thread[c] \in ThreadType
          /\ ~thread[c].active /\ ~thread[c].parked /\ thread[c].initial = thread[c].stopped
      BY Zenon, <1>3, <1>5, <2>2, <2>5
    <3>3. /\ thread' \in [Tasks -> ThreadType] /\ \A x \in Tasks \ {c} : thread'[x] = th[x]
          /\ thread'[c].born /\ thread'[c].initial = thread[c].initial
          /\ ~thread'[c].active /\ ~thread'[c].parked
          /\ thread'[c].stopped = (thread[c].stopped /\ ~thread[c].initial)
      BY ZenonT(30), <2>2, <3>1, <3>2 DEF ThreadType
    <3> QED
      BY ZenonT(30), <1>2, <2>2, <2>3, <3>2, <3>3
  <2> QED
    BY Zenon, <2>4, <2>5
<1> HIDE DEF th, seen

<1>11. /\ lost' \in [Tasks -> Tasks \cup {None}] /\ \A x \in Tasks \ {t} : lost'[x] = lost[x]
       /\ lost'[t] = IF e = "exiting" THEN None ELSE lost[t]
  BY Zenon, <1>2, <1>3
<1>12. /\ Undisturbed /\ ParentOf(t, e, c) /\ Unbarred /\ Going(t, c, go)
       /\ Continued(ev, go) /\ Recounted(t, e, c) /\ Forgotten(t, e)
  BY Zenon, <1>2, <1>4, <1>6, <1>8, <1>9, <1>10, <1>11
  DEF Undisturbed, ParentOf, Unbarred, Going, Continued, Recounted, Forgotten
<1>13. NewbornOf(t, c) /\ HaltedNewborn(c)
  BY Zenon, <1>5, <1>7 DEF NewbornOf, HaltedNewborn
<1>14. Handled(t, e, ev, c, go)
  BY Zenon, <1>12, <1>13 DEF Handled
<1> QED
  BY Zenon, <1>14

\* The types, and the events and records of the dispatcher.
LEMMA HandledTypes ==
    ASSUME IInv, stage = "off", NEW t \in Tasks, NEW e \in Statuses, NEW ev, NEW c, NEW go,
           Fetched(t, e, ev, q'), Handled(t, e, ev, c, go)
    PROVE  TypeOK' /\ Reported' /\ Collected' /\ Recorded'
<1>1. /\ TypeOK /\ Reported /\ Collected /\ Recorded /\ Taken /\ Acting
      /\ Born /\ Queued /\ Kept /\ Barred
  BY Zenon DEF IInv
<1>2. /\ Undisturbed /\ ParentOf(t, e, c) /\ NewbornOf(t, c) /\ Unbarred /\ HaltedNewborn(c)
      /\ Going(t, c, go) /\ Continued(ev, go) /\ Recounted(t, e, c) /\ Forgotten(t, e)
  BY Zenon DEF Handled
<1>3. /\ thread \in [Tasks -> ThreadType] /\ lost \in [Tasks -> Tasks \cup {None}]
      /\ child \in [Tasks -> Tasks] /\ None \notin Tasks
  BY Zenon, <1>1, QTyped, TasksAssumption
<1>4. TypeOK'
  <2>1. event' \in [Tasks -> {None, "stop", "trap", "birth", "exiting", "exit"}]
    BY Zenon, <1>2 DEF Statuses, Continued
  <2>2. q' \in [part : [Tasks -> [member : BOOLEAN, stopped : BOOLEAN, resume : BOOLEAN,
                                  interrupted : BOOLEAN, synthetic : BOOLEAN, borrowed : BOOLEAN]],
                waiting : Nat, borrowed : Nat,
                deferred : Seq([task : Tasks, status : {"stop", "trap", "birth", "exiting", "exit"}])]
    BY Zenon DEF Fetched, QType, PartType, EntryType, Statuses
  <2>3. thread' \in [Tasks -> [born : BOOLEAN, initial : BOOLEAN, stopped : BOOLEAN,
                               active : BOOLEAN, parked : BOOLEAN, pending : BOOLEAN]]
    BY Zenon, <1>2 DEF ThreadType, Recounted
  <2>4. /\ asked' \in [Tasks -> BOOLEAN] /\ child' \in [Tasks -> Tasks] /\ left' \in Nat
        /\ stage' \in {"off", "writers", "held"} /\ actor' \in Tasks \cup {None}
    BY ZenonT(30), <1>1, <1>2 DEF TypeOK, Undisturbed
  <2> QED
    BY ZenonT(30), <1>2, <2>1, <2>2, <2>3, <2>4 DEF TypeOK, Continued, Forgotten
<1>5. /\ \A x \in Tasks : Caught(x)' <=> thread'[x].stopped \/ Deferred(q', x)
      /\ \A x \in Tasks : Caught(x) <=> thread[x].stopped \/ Deferred(q, x)
  BY Zenon, <1>2, OffType DEF Caught, Unbarred
<1>6. \A x \in Tasks : ev[x] \in {None, event[x]}
  BY Zenon DEF Fetched
<1>7. Reported'
  <2>1. \A x \in Tasks : Fits(kernel'[x], event'[x])
    BY ZenonT(30), <1>1, <1>2, <1>6 DEF Reported, Fits, Continued
  <2>2. ASSUME NEW x \in Tasks, kernel'[x] = "unborn"
        PROVE  ~thread'[x].initial /\ ~thread'[x].born
    <3>1. x \notin go /\ kernel[x] = "unborn"
      BY Zenon, <1>2, <2>2 DEF Continued
    <3>2. x # t /\ x # c
      BY Zenon, <1>3, <1>2, <3>1 DEF Fetched, NewbornOf
    <3> QED
      BY Zenon, <1>1, <1>2, <3>1, <3>2 DEF Reported, Recounted
  <2> QED
    BY Zenon, <2>1, <2>2 DEF Reported
<1>8. Collected'
  <2>1. ASSUME NEW x \in Tasks, Caught(x)'
        PROVE  kernel'[x] \notin {"unborn", "running"} /\ event'[x] \notin {"stop", "trap", "birth"}
    <3>1. CASE x = t
      BY Zenon, <1>2, <3>1 DEF Fetched, Going, Continued
    <3>2. CASE x # t /\ x # c
      <4>1. Caught(x)
        BY Zenon, <1>2, <1>5, <2>1, <3>2 DEF Fetched, Recounted
      <4>2. x \notin go
        BY Zenon, <1>2, <3>2 DEF Going
      <4> QED
        BY Zenon, <1>1, <1>2, <1>6, <4>1, <4>2 DEF Collected, None, Continued
    <3>3. CASE x # t /\ x = c
      <4>1. c # None /\ Deferred(q, c)
        BY Zenon, <1>3, <1>2, <1>5, <2>1, <3>3 DEF Fetched, Recounted
      <4>2. Caught(c)
        BY Zenon, <3>3, <4>1 DEF Caught
      <4>3. CASE x \in go
        BY Zenon, <1>2, <3>3, <4>1, <4>3 DEF None, HaltedNewborn, Going, Continued
      <4>4. CASE x \notin go
        BY Zenon, <1>1, <1>2, <1>6, <3>3, <4>2, <4>4 DEF Collected, None, Continued
      <4> QED
        BY Zenon, <4>3, <4>4
    <3> QED
      BY Zenon, <3>1, <3>2, <3>3
  <2> QED
    BY Zenon, <2>1 DEF Collected
<1>9. Recorded'
  <2>1. ASSUME NEW x \in Tasks
        PROVE  /\ thread'[x].active \/ thread'[x].parked => thread'[x].born /\ thread'[x].stopped
               /\ ~(thread'[x].active /\ thread'[x].parked)
               /\ thread'[x].stopped => thread'[x].initial
               /\ thread'[x].initial => thread'[x].born \/ thread'[x].stopped
    <3>1. CASE x = t /\ e = "exit"
      <4>1. thread'[x] = NoThread
        BY Zenon, <1>2, <3>1 DEF Recounted
      <4> QED
        BY Zenon, <4>1, NoThreadType
    <3>2. CASE x = t /\ e # "exit"
      BY Zenon, <1>1, <1>2, <3>2 DEF Recorded, Taken, Recounted
    <3>3. CASE x # t /\ x = c
      BY Zenon, <1>3, <1>2, <3>3 DEF Recounted
    <3>4. CASE x # t /\ x # c
      BY Zenon, <1>1, <1>2, <3>4 DEF Recorded, Recounted
    <3> QED
      BY Zenon, <3>1, <3>2, <3>3, <3>4
  <2>2. ASSUME NEW x \in Tasks, event'[x] = "birth"
        PROVE  thread'[x].born
    <3>1. x \notin go /\ ev[x] = "birth" /\ event[x] = "birth" /\ thread[x].born
      BY Zenon, <1>1, <1>2, <1>6, <2>2 DEF Recorded, None, Continued
    <3>2. x # t
      BY Zenon, <3>1 DEF Fetched
    <3> QED
      BY Zenon, <1>3, <1>2, <3>1, <3>2 DEF Recounted
  <2> QED
    BY Zenon, <2>1, <2>2 DEF Recorded
<1> QED
  BY Zenon, <1>4, <1>7, <1>8, <1>9

\* Nobody is held, lent or parked.
LEMMA HandledTaken ==
    ASSUME IInv, stage = "off", NEW t \in Tasks, NEW e \in Statuses, NEW ev, NEW c, NEW go,
           Fetched(t, e, ev, q'), Handled(t, e, ev, c, go)
    PROVE  Taken' /\ Acting' /\ Barred'
<1>1. /\ TypeOK /\ Reported /\ Collected /\ Recorded /\ Taken /\ Acting
      /\ Born /\ Queued /\ Kept /\ Barred
  BY DEF IInv
<1>2. /\ Undisturbed /\ ParentOf(t, e, c) /\ NewbornOf(t, c) /\ Unbarred /\ HaltedNewborn(c)
      /\ Going(t, c, go) /\ Continued(ev, go) /\ Recounted(t, e, c) /\ Forgotten(t, e)
  BY DEF Handled
<1>3. /\ thread \in [Tasks -> ThreadType] /\ lost \in [Tasks -> Tasks \cup {None}]
      /\ child \in [Tasks -> Tasks] /\ None \notin Tasks
  BY <1>1, QTyped, TasksAssumption
<1>4. Taken'
  <2>1. Waiting(q') = Waiting(q) /\ Lent(q') = Lent(q) /\ q'.part = q.part
        /\ q'.waiting = q.waiting /\ q'.borrowed = q.borrowed
    BY Zenon DEF Waiting, Lent, Fetched
  <2>2. \A x \in Tasks : kernel'[x] # "lent"
    BY Zenon, <1>2 DEF Unbarred, Continued
  <2>3. \A x \in Tasks : /\ ~q'.part[x].borrowed /\ ~q'.part[x].resume
                         /\ ~q'.part[x].interrupted /\ ~q'.part[x].synthetic /\ q'.part[x].stopped
                         /\ q'.part[x] = Off
    BY ZenonT(30), <1>2, OffType DEF Unbarred
  <2>4. \A x \in Tasks : ~thread'[x].parked
    <3>1. \A x \in Tasks : ~thread[x].parked
      BY Zenon, <1>1 DEF Taken
    <3> QED
      BY Zenon, <1>3, <1>2, <3>1, NoThreadType DEF Recounted
  <2> QED
    BY Zenon, <1>1, <1>2, <2>1, <2>2, <2>3, <2>4 DEF Taken, Counted, Undisturbed
<1>5. Acting'
  BY Zenon, <1>1, <1>2 DEF Acting, Undisturbed
<1>6. Barred'
  BY Zenon, <1>2 DEF Barred, Undisturbed
<1> QED
  BY <1>4, <1>5, <1>6

\* The birth is pending no more, and no other one changes.
LEMMA HandledPending ==
    ASSUME IInv, stage = "off", NEW t \in Tasks, NEW e \in Statuses, NEW ev, NEW c, NEW go,
           Fetched(t, e, ev, q'), Handled(t, e, ev, c, go)
    PROVE  /\ \A p, x \in Tasks : Pending(p, x)' <=> Pending(p, x) /\ ~(p = t /\ x = c)
           /\ \A x \in Tasks : (c = None) \/ (x # c) \/ (\A p \in Tasks : ~Pending(p, x)')
<1>1. /\ TypeOK /\ Reported /\ Collected /\ Recorded /\ Taken /\ Acting
      /\ Born /\ Queued /\ Kept /\ Barred
  BY DEF IInv
<1>2. /\ Undisturbed /\ ParentOf(t, e, c) /\ NewbornOf(t, c) /\ Unbarred /\ HaltedNewborn(c)
      /\ Going(t, c, go) /\ Continued(ev, go) /\ Recounted(t, e, c) /\ Forgotten(t, e)
  BY DEF Handled
<1>3. /\ thread \in [Tasks -> ThreadType] /\ lost \in [Tasks -> Tasks \cup {None}]
      /\ child \in [Tasks -> Tasks] /\ None \notin Tasks
  BY <1>1, QTyped, TasksAssumption
<1>4. \A p, x \in Tasks : Pending(p, x)' <=> Pending(p, x) /\ ~(p = t /\ x = c)
  <2>1. \A p, x : /\ Pending(p, x) <=> \/ event[p] = "birth" /\ child[p] = x
                                       \/ lost[p] = x
                                       \/ child[p] = x /\ Births(q, p)
                  /\ Pending(p, x)' <=> \/ event'[p] = "birth" /\ child'[p] = x
                                        \/ lost'[p] = x
                                        \/ child'[p] = x /\ Births(q', p)
    BY Zenon DEF Pending, Births
  <2>2. \A p \in Tasks \ {t}, x \in Tasks : Pending(p, x)' <=> Pending(p, x)
    <3>1. \A p \in Tasks \ {t} : event'[p] = "birth" <=> event[p] = "birth"
      <4>1. ASSUME NEW p \in Tasks \ {t}, p \notin go
            PROVE  event'[p] = event[p]
        BY Zenon, <1>2, <4>1 DEF Fetched, Continued
      <4>2. ASSUME NEW p \in Tasks, p \in go
            PROVE  event'[p] # "birth" /\ event[p] # "birth"
        <5>1. kernel[p] \in {"stopped", "exiting"} /\ (kernel[p] = "stopped" => event[p] = None)
          BY Zenon, <1>2, <4>2 DEF HaltedNewborn, Going
        <5> QED
          BY Zenon, <1>1, <1>2, <4>2, <5>1 DEF Reported, Fits, None, Continued
      <4> QED
        BY Zenon, <4>1, <4>2
    <3>2. \A p \in Tasks \ {t} : Births(q', p) <=> Births(q, p)
      BY Zenon DEF Fetched
    <3> QED
      BY Zenon, <1>2, <2>1, <3>1, <3>2 DEF Undisturbed, Forgotten
  <2>3. event'[t] # "birth"
    BY Zenon, <1>2 DEF Fetched, Going, Continued
  <2>4. CASE e = "birth"
    <3>1. lost'[t] = None /\ ~Births(q', t) /\ lost[t] = None
      BY Zenon, <1>2, <2>4 DEF Fetched, Forgotten
    <3>2. \A x \in Tasks : ~Pending(t, x)'
      BY Zenon, <1>3, <2>1, <2>3, <3>1
    <3>3. \A x \in Tasks : Pending(t, x) => x = c
      <4>1. c = child[t] /\ \A x \in Tasks : lost[t] # x
        BY Zenon, <1>3, <1>2, <2>4, <3>1 DEF ParentOf
      <4> QED
        BY Zenon, <2>1, <4>1
    <3> QED
      BY Zenon, <2>2, <3>2, <3>3
  <2>5. CASE e = "exiting"
    <3>1. lost'[t] = None /\ (Births(q', t) <=> Births(q, t)) /\ event[t] # "birth" /\ c = lost[t]
      BY Zenon, <1>2, <2>5 DEF Fetched, ParentOf, Forgotten
    <3>2. lost[t] # None => ~Births(q, t)
      BY Zenon, <1>1 DEF Born, Births
    <3>3. \A x \in Tasks : Pending(t, x)' <=> child[t] = x /\ Births(q, t)
      BY Zenon, <1>2, <1>3, <2>1, <2>3, <3>1 DEF Undisturbed
    <3>4. \A x \in Tasks : Pending(t, x) <=> (child[t] = x /\ Births(q, t)) \/ lost[t] = x
      BY Zenon, <2>1, <3>1
    <3>5. \A x \in Tasks : Pending(t, x)' <=> Pending(t, x) /\ x # c
      BY Zenon, <1>3, <3>1, <3>2, <3>3, <3>4
    <3> QED
      BY Zenon, <2>2, <3>5
  <2>6. CASE e \notin {"birth", "exiting"}
    <3>1. lost'[t] = lost[t] /\ (Births(q', t) <=> Births(q, t)) /\ event[t] # "birth" /\ c = None
      BY Zenon, <1>2, <2>6 DEF Fetched, ParentOf, Forgotten
    <3>2. \A x \in Tasks : Pending(t, x)' <=> Pending(t, x)
      BY Zenon, <1>2, <2>1, <2>3, <3>1 DEF Undisturbed
    <3> QED
      BY Zenon, <1>3, <2>2, <3>1, <3>2
  <2> QED
    BY Zenon, <2>4, <2>5, <2>6
<1>5. \A x \in Tasks : (c = None) \/ (x # c) \/ (\A p \in Tasks : ~Pending(p, x)')
  <2> SUFFICES ASSUME NEW x \in Tasks, c # None, x = c, NEW p \in Tasks, Pending(p, x)'
               PROVE  FALSE
    BY ZenonT(30)
  <2>1. Pending(p, x) /\ p # t /\ Pending(t, x)
    BY Zenon, <1>2, <1>4 DEF NewbornOf
  <2> QED
    BY Zenon, <1>1, <2>1 DEF Born
<1> QED
  BY Zenon, <1>4, <1>5

\* The newborns that are left.
LEMMA HandledBorn ==
    ASSUME IInv, stage = "off", NEW t \in Tasks, NEW e \in Statuses, NEW ev, NEW c, NEW go,
           Fetched(t, e, ev, q'), Handled(t, e, ev, c, go)
    PROVE  Born'
<1>1. /\ TypeOK /\ Reported /\ Collected /\ Recorded /\ Taken /\ Acting
      /\ Born /\ Queued /\ Kept /\ Barred
  BY DEF IInv
<1>2. /\ Undisturbed /\ ParentOf(t, e, c) /\ NewbornOf(t, c) /\ Unbarred /\ HaltedNewborn(c)
      /\ Going(t, c, go) /\ Continued(ev, go) /\ Recounted(t, e, c) /\ Forgotten(t, e)
  BY DEF Handled
<1>3. /\ thread \in [Tasks -> ThreadType] /\ lost \in [Tasks -> Tasks \cup {None}]
      /\ child \in [Tasks -> Tasks] /\ None \notin Tasks
  BY <1>1, QTyped, TasksAssumption
<1>4. /\ \A p, x \in Tasks : Pending(p, x)' <=> Pending(p, x) /\ ~(p = t /\ x = c)
      /\ \A x \in Tasks : (c = None) \/ (x # c) \/ (\A p \in Tasks : ~Pending(p, x)')
  BY ZenonT(30), HandledPending
<1>5. \A i \in DOMAIN q'.deferred : \E j \in DOMAIN q.deferred : q'.deferred[i] = q.deferred[j]
  <2>1. CASE q'.deferred = q.deferred
    BY Zenon, <2>1
  <2>2. CASE q.deferred # <<>> /\ q'.deferred = Tail(q.deferred)
    <3>1. q.deferred \in Seq(EntryType)
      BY Zenon, <1>1, Entries
    <3>2. /\ DOMAIN Tail(q.deferred) = 1 .. (Len(q.deferred) - 1)
          /\ \A i \in 1 .. (Len(q.deferred) - 1) :
                Tail(q.deferred)[i] = q.deferred[i + 1] /\ i + 1 \in DOMAIN q.deferred
      BY Zenon, <2>2, <3>1, TailOf
    <3> QED
      BY Zenon, <2>2, <3>2
  <2> QED
    BY Zenon, <2>1, <2>2 DEF Fetched
<1>6. Born'
  <2>1. \A p, x \in Tasks : Pending(p, x)' =>
           p # x /\ ~thread'[x].born /\ kernel'[x] \in {"running", "stopped", "lent", "exiting"}
    <3> SUFFICES ASSUME NEW p \in Tasks, NEW x \in Tasks, Pending(p, x)'
                 PROVE  p # x /\ ~thread'[x].born /\ kernel'[x] \in {"running", "stopped", "lent", "exiting"}
      BY Zenon
    <3>1. /\ Pending(p, x) /\ x # c /\ x \notin go /\ p # x /\ ~thread[x].born
          /\ kernel[x] \in {"running", "stopped", "lent", "exiting"}
      <4>1. Pending(p, x) /\ x # c
        BY ZenonT(30), <1>3, <1>4
      <4> QED
        BY Zenon, <1>1, <1>2, <4>1 DEF Born, Going
    <3>2. ~thread'[x].born
      BY Zenon, <1>2, <3>1, NoThreadType DEF Recounted
    <3> QED
      BY Zenon, <1>2, <3>1, <3>2 DEF Continued
  <2>2. \A p, r, x \in Tasks : Pending(p, x)' /\ Pending(r, x)' => p = r
    BY Zenon, <1>1, <1>4 DEF Born
  <2>3. \A x \in Tasks : kernel'[x] = "running" /\ ~thread'[x].born =>
           asked'[x] /\ ~thread'[x].initial /\ \E p \in Tasks : Pending(p, x)'
    <3> SUFFICES ASSUME NEW x \in Tasks, kernel'[x] = "running", ~thread'[x].born
                 PROVE  asked'[x] /\ ~thread'[x].initial /\ \E p \in Tasks : Pending(p, x)'
      BY Zenon
    <3>1. x # c /\ x \notin go /\ kernel[x] = "running" /\ x # t
      <4>1. x # c
        BY Zenon, <1>3, <1>2 DEF Recounted
      <4>2. x \notin go /\ kernel[x] = "running"
        BY Zenon, <1>2, <4>1 DEF Going, Continued
      <4> QED
        BY Zenon, <4>1, <4>2 DEF Fetched
    <3>2. ~thread[x].born /\ thread'[x] = thread[x]
      BY Zenon, <1>2, <3>1 DEF Recounted
    <3> QED
      BY Zenon, <1>1, <1>2, <1>4, <3>1, <3>2 DEF Born, Undisturbed
  <2>4. \A p \in Tasks : lost'[p] # None =>
          /\ kernel'[p] \in {"exiting", "leaving", "dead"}
          /\ \A i \in DOMAIN q'.deferred : q'.deferred[i] # [task |-> p, status |-> "birth"]
    <3>1. \A p \in Tasks : lost'[p] # None => lost[p] # None
      BY Zenon, <1>2 DEF Forgotten
    <3>2. \A p \in Tasks : kernel[p] \in {"exiting", "leaving", "dead"} => kernel'[p] \in {"exiting", "leaving", "dead"}
      BY Zenon, <1>2 DEF Continued
    <3>3. \A p \in Tasks : lost[p] # None =>
            /\ kernel[p] \in {"exiting", "leaving", "dead"}
            /\ \A i \in DOMAIN q.deferred : q.deferred[i] # [task |-> p, status |-> "birth"]
      BY Zenon, <1>1 DEF Born
    <3> QED
      BY ZenonT(30), <1>5, <3>1, <3>2, <3>3
  <2> QED
    BY Zenon, <2>1, <2>2, <2>3, <2>4 DEF Born
<1> QED
  BY Zenon, <1>6

\* The queue that is left.
LEMMA HandledQueued ==
    ASSUME IInv, stage = "off", NEW t \in Tasks, NEW e \in Statuses, NEW ev, NEW c, NEW go,
           Fetched(t, e, ev, q'), Handled(t, e, ev, c, go)
    PROVE  Queued'
<1>1. /\ TypeOK /\ Reported /\ Collected /\ Recorded /\ Taken /\ Acting
      /\ Born /\ Queued /\ Kept /\ Barred
  BY DEF IInv
<1>2. /\ Undisturbed /\ ParentOf(t, e, c) /\ NewbornOf(t, c) /\ Unbarred /\ HaltedNewborn(c)
      /\ Going(t, c, go) /\ Continued(ev, go) /\ Recounted(t, e, c) /\ Forgotten(t, e)
  BY DEF Handled
<1>3. /\ thread \in [Tasks -> ThreadType] /\ lost \in [Tasks -> Tasks \cup {None}]
      /\ child \in [Tasks -> Tasks] /\ None \notin Tasks
  BY <1>1, QTyped, TasksAssumption
<1>4. Queued'
  <2>1. \A x \in Tasks : /\ kernel[x] \in {"exiting", "leaving", "dead"} => kernel'[x] \in {"exiting", "leaving", "dead"}
                         /\ kernel[x] = "dead" => kernel'[x] = "dead"
    BY Zenon, <1>2 DEF HaltedNewborn, Going, Continued
  <2>2. \A i \in DOMAIN q.deferred : q.deferred[i].task \in Tasks
    BY Zenon, <1>1, Entries
  <2>3. CASE q'.deferred = q.deferred
    <3>1. ASSUME NEW i \in DOMAIN q.deferred, NEW j \in DOMAIN q.deferred, i # j,
                 q.deferred[i].task = q.deferred[j].task
          PROVE  /\ kernel'[q.deferred[i].task] \in {"exiting", "leaving", "dead"}
                 /\ q.deferred[i].status # "birth" \/ q.deferred[j].status # "birth"
      BY Zenon, <1>1, <2>1, <2>2, <3>1 DEF Queued
    <3>2. ASSUME NEW i \in DOMAIN q.deferred, q.deferred[i].status = "exit"
          PROVE  kernel'[q.deferred[i].task] = "dead"
      BY Zenon, <1>1, <2>1, <2>2, <3>2 DEF Queued
    <3> QED
      BY ZenonT(30), <2>3, <3>1, <3>2 DEF Queued
  <2>4. CASE q.deferred # <<>> /\ q'.deferred = Tail(q.deferred)
    <3>1. \A i \in DOMAIN q'.deferred : /\ i \in Nat /\ i + 1 \in DOMAIN q.deferred
                                        /\ q'.deferred[i] = q.deferred[i + 1]
      BY SMTT(30), <1>1, <2>4, Entries, TailOf
    <3> QED
      BY <1>1, <2>1, <2>2, <3>1 DEF Queued
  <2> QED
    BY Zenon, <2>3, <2>4 DEF Fetched
<1> QED
  BY <1>4

\* The handler keeps the stop of its task, nobody that of a published newborn.
LEMMA HandledKept ==
    ASSUME IInv, stage = "off", NEW t \in Tasks, NEW e \in Statuses, NEW ev, NEW c, NEW go,
           Fetched(t, e, ev, q'), Handled(t, e, ev, c, go)
    PROVE  Kept'
<1>1. /\ TypeOK /\ Reported /\ Collected /\ Recorded /\ Taken /\ Acting
      /\ Born /\ Queued /\ Kept /\ Barred
  BY DEF IInv
<1>2. /\ Undisturbed /\ ParentOf(t, e, c) /\ NewbornOf(t, c) /\ Unbarred /\ HaltedNewborn(c)
      /\ Going(t, c, go) /\ Continued(ev, go) /\ Recounted(t, e, c) /\ Forgotten(t, e)
  BY DEF Handled
<1>3. /\ thread \in [Tasks -> ThreadType] /\ lost \in [Tasks -> Tasks \cup {None}]
      /\ child \in [Tasks -> Tasks] /\ None \notin Tasks
  BY <1>1, QTyped, TasksAssumption
<1>4. Kept'
  <2> SUFFICES ASSUME NEW x \in Tasks
               PROVE  /\ kernel'[x] \in {"stopped", "lent"} =>
                            \A j, k \in Keepers : Keeps(j, x)' /\ Keeps(k, x)' => j = k
                      /\ kernel'[x] \in {"stopped", "lent", "exiting"} /\ event'[x] = None =>
                            \E k \in Keepers : Keeps(k, x)'
    BY Zenon DEF Kept
  <2>1. actor = None /\ actor' = None
    BY Zenon, <1>1, <1>2 DEF Acting, Undisturbed
  <2>2. /\ ~Keeps("synthetic", x)' /\ ~Keeps("repair", x)'
        /\ ~Keeps("synthetic", x) /\ ~Keeps("repair", x)
    BY Zenon, <1>3, <1>2, <2>1, OffType DEF Keeps, Unbarred
  <2>3. CASE x = t
    <3>1. kernel'[t] = kernel[t] /\ event'[t] = ev[t]
      BY Zenon, <1>2 DEF Going, Continued
    <3>2. ASSUME kernel'[t] \in {"stopped", "lent", "exiting"}
          PROVE  /\ e # "exit"
                 /\ Keeps("handler", t)' <=> thread[t].born
                 /\ Keeps("birth", t)' <=> ~thread[t].born
      <4>1. e # "exit"
        BY Zenon, <3>1, <3>2 DEF Fetched
      <4> QED
        BY Zenon, <1>2, <4>1 DEF Keeps, Recounted
    <3>3. ASSUME kernel'[t] \in {"stopped", "lent"}
          PROVE  ~Keeps("parked", t)' /\ ~Keeps("deferred", t)'
      <4>1. kernel[t] = "stopped" /\ ~Deferred(q', t) /\ ~thread[t].parked
        BY ZenonT(30), <1>2, <3>1, <3>3 DEF Fetched, Unbarred
      <4> QED
        BY Zenon, <1>2, <3>2, <3>3, <4>1 DEF Keeps, Recounted
    <3> QED
      BY ZenonT(30), <2>2, <2>3, <3>2, <3>3 DEF Keepers
  <2>4. CASE x # t /\ x \in go
    BY Zenon, <1>2, <2>4 DEF Continued
  <2>5. CASE x # t /\ x \notin go
    <3>1. kernel'[x] = kernel[x] /\ event'[x] = event[x] /\ (Deferred(q', x) <=> Deferred(q, x))
      BY Zenon, <1>2, <2>5 DEF Fetched, Continued
    <3>2. \A k \in Keepers : Keeps(k, x)' <=> Keeps(k, x)
      <4>1. CASE x = c
        <5>1. ~thread[c].initial /\ c # None
          BY <1>3, <1>2, <2>5, <4>1 DEF Going
        <5> QED
          BY Zenon, <1>2, <2>2, <3>1, <4>1, <5>1 DEF Keeps, NewbornOf, Recounted
      <4>2. CASE x # c
        <5>1. thread'[x] = thread[x]
          BY Zenon, <1>2, <2>5, <4>2 DEF Recounted
        <5> QED
          BY ZenonT(30), <2>2, <3>1, <5>1 DEF Keeps
      <4> QED
        BY Zenon, <4>1, <4>2
    <3> QED
      BY Zenon, <1>1, <3>1, <3>2 DEF Kept
  <2> QED
    BY Zenon, <2>3, <2>4, <2>5
<1> QED
  BY <1>4

\* The dispatcher handles an event: its task has a handler, a published newborn
\* goes on, and the birth is pending no more.
LEMMA HandleStep ==
    ASSUME IInv, stage = "off", NEW t \in Tasks, NEW e \in Statuses, NEW ev,
           Fetched(t, e, ev, q'), Handle(t, e, ev), UNCHANGED <<asked, child, repair>>
    PROVE  IInv'
<1>1. PICK c, go : Handled(t, e, ev, c, go)
  BY Zenon, HandleEffect
<1>2. TypeOK' /\ Reported' /\ Collected' /\ Recorded'
  BY Zenon, <1>1, HandledTypes
<1>3. Taken' /\ Acting' /\ Barred'
  BY Zenon, <1>1, HandledTaken
<1>4. Born' /\ Queued' /\ Kept'
  BY Zenon, <1>1, HandledBorn, HandledQueued, HandledKept
<1> QED
  BY Zenon, <1>2, <1>3, <1>4 DEF IInv

\* An event the kernel has kept.
LEMMA CollectStep ==
    ASSUME IInv, NEW t \in Tasks, Collect(t)
    PROVE  IInv'
<1>1. /\ TypeOK /\ Reported /\ Collected /\ Recorded /\ Taken /\ Acting
      /\ Born /\ Queued /\ Kept /\ Barred
  BY DEF IInv
<1> DEFINE ev == [event EXCEPT ![t] = None]
<1>2. /\ stage = "off" /\ event[t] # None /\ Handle(t, event[t], ev) /\ q' = q
      /\ q.deferred = <<>> /\ UNCHANGED <<asked, child, repair>>
  BY Zenon DEF Collect
<1>3. event \in [Tasks -> Statuses \cup {None}] /\ event[t] \in Statuses
  BY Zenon, <1>1, <1>2, QTyped
<1>4. ev \in [Tasks -> Statuses \cup {None}] /\ ev[t] = None /\ \A x \in Tasks \ {t} : ev[x] = event[x]
  BY Zenon, <1>3
<1> HIDE DEF ev
<1>5. \A x : ~Deferred(q, x) /\ ~Births(q, x)
  BY <1>2 DEF Deferred, Births
<1>6. kernel[t] \notin {"unborn", "running"} /\ (event[t] = "exit" => kernel[t] = "dead")
  BY Zenon, <1>1, <1>2 DEF Reported, Fits
<1>7. ASSUME kernel[t] = "stopped"
      PROVE  ~thread[t].active /\ ~thread[t].parked
  <2>1. ~Caught(t)
    BY Zenon, <1>1, <1>2, <1>7 DEF Reported, Fits, Collected
  <2> QED
    BY Zenon, <1>1, <2>1 DEF Caught, Recorded
<1>8. event[t] = "birth" => Pending(t, child[t]) /\ lost[t] = None
  BY Zenon, <1>1 DEF Pending, Reported, Fits, Born, None
<1>9. Fetched(t, event[t], ev, q')
  <2>1. q' \in QType
    BY Zenon, <1>1, <1>2, QTyped
  <2> QED
    BY Zenon, <1>2, <1>4, <1>5, <1>6, <1>7, <1>8, <2>1 DEF Fetched, None
<1> QED
  BY Zenon, <1>2, <1>3, <1>9, HandleStep
=============================================================================
