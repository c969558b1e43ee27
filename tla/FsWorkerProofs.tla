--------------------------- MODULE FsWorkerProofs ---------------------------
(***************************************************************************)
(* The safety invariants of the filesystem worker, for any number of work  *)
(* records and any batch size: a record has one custodian, an acknowledged *)
(* pause is quiet, no signal is lost, and a control record is freed by its *)
(* last user.                                                              *)
(***************************************************************************)
EXTENDS FsWorker, SequenceTheorems, TLAPS

\* Where the two threads must be for their detached lists and the record in
\* the worker's hand to be in use, and what a retiring worker has announced.
Positions ==
    /\ hand # None <=> wpc = "run"
    /\ pass # <<>> => wpc = "resume" \/ (wpc \in {"run", "send"} /\ wret = "resume")
    /\ wpc = "run" => wret # "prepare"
    /\ wpc \notin {"run", "send"} => wret = "prepare"
    /\ wpc \in {"retire", "exited"} \/ wret = "retire" => stopping
    /\ taken # <<>> => spc = "deliver"

\* An acknowledged pause is known to the worker's poll until it prepares the
\* next one: that keeps it from serving anything but the queue's signals.
PauseIsPolled ==
    pause = "acknowledged" /\ ~stopping /\ wpc \in {"poll", "resume", "take"} => polled

\* OneCustodian without the types and the exited thread.
Custody ==
    /\ \A w \in Works : Places(w) = IF accepted[w] THEN 1 ELSE 0
    /\ Distinct(submitted) /\ Distinct(waiting) /\ Distinct(completed)
    /\ Distinct(pass) /\ Distinct(taken)

ExitedEmpty ==
    wpc = "exited" => submitted = <<>> /\ waiting = <<>> /\ pass = <<>> /\ hand = None

\* The inductive invariant.
IInv ==
    /\ TypeOK /\ Positions /\ Custody /\ ExitedEmpty /\ ControlReferences
    /\ PauseIsQuiet /\ PauseIsPolled /\ NoLostSignal

-----------------------------------------------------------------------------
\* The lists.

\* Nothing is on an empty list.
LEMMA HeldNowhere ==
    /\ \A w : ~Held(<<>>, w)
    /\ Distinct(<<>>)
BY DEF Held, Distinct

\* A record is appended to a list that does not hold it.
LEMMA HeldAppend ==
    ASSUME NEW q \in Seq(Works), NEW w \in Works
    PROVE  /\ Append(q, w) \in Seq(Works) /\ Append(q, w) # <<>>
           /\ \A v \in Works : Held(Append(q, w), v) <=> Held(q, v) \/ v = w
           /\ Distinct(q) /\ ~Held(q, w) => Distinct(Append(q, w))
<1>1. /\ Append(q, w) \in Seq(Works) /\ Append(q, w) # <<>>
      /\ DOMAIN q = 1..Len(q) /\ Len(q) \in Nat
      /\ DOMAIN Append(q, w) = 1..(Len(q) + 1)
      /\ \A i \in 1..Len(q) : Append(q, w)[i] = q[i]
      /\ Append(q, w)[Len(q) + 1] = w
  BY AppendProperties, LenProperties
<1>2. ASSUME NEW v \in Works
      PROVE  Held(Append(q, w), v) <=> Held(q, v) \/ v = w
  <2>1. ASSUME Held(Append(q, w), v), v # w
        PROVE  Held(q, v)
    <3>1. PICK i \in 1..(Len(q) + 1) : Append(q, w)[i] = v
      BY Zenon, <1>1, <2>1 DEF Held
    <3>2. i \in 1..Len(q)
      BY <1>1, <2>1, <3>1
    <3> QED
      BY Zenon, <1>1, <3>1, <3>2 DEF Held
  <2>2. ASSUME Held(q, v)
        PROVE  Held(Append(q, w), v)
    BY <1>1, <2>2 DEF Held
  <2>3. Held(Append(q, w), w)
    BY <1>1 DEF Held
  <2> QED
    BY Zenon, <2>1, <2>2, <2>3
<1>3. ASSUME Distinct(q), ~Held(q, w)
      PROVE  Distinct(Append(q, w))
  <2> SUFFICES ASSUME NEW i \in 1..(Len(q) + 1), NEW j \in 1..(Len(q) + 1),
                      Append(q, w)[i] = Append(q, w)[j]
               PROVE  i = j
    BY Zenon, <1>1 DEF Distinct
  <2> QED
    BY <1>1, <1>3 DEF Distinct, Held
<1> QED
  BY Zenon, <1>1, <1>2, <1>3

\* The head of a list is taken from it.
LEMMA HeldTail ==
    ASSUME NEW q \in Seq(Works), q # <<>>, Distinct(q)
    PROVE  /\ Head(q) \in Works /\ Tail(q) \in Seq(Works)
           /\ Held(q, Head(q))
           /\ \A v \in Works : Held(Tail(q), v) <=> Held(q, v) /\ v # Head(q)
           /\ Distinct(Tail(q))
<1>1. /\ Head(q) \in Works /\ Tail(q) \in Seq(Works)
      /\ DOMAIN q = 1..Len(q) /\ Len(q) \in Nat \ {0}
      /\ DOMAIN Tail(q) = 1..(Len(q) - 1)
      /\ \A i \in 1..(Len(q) - 1) : Tail(q)[i] = q[i + 1]
      /\ Head(q) = q[1]
  BY HeadTailProperties, LenProperties, EmptySeq
<1>2. Held(q, Head(q))
  BY <1>1 DEF Held
<1>3. ASSUME NEW v \in Works
      PROVE  Held(Tail(q), v) <=> Held(q, v) /\ v # Head(q)
  <2>1. ASSUME Held(Tail(q), v)
        PROVE  Held(q, v) /\ v # Head(q)
    <3>1. PICK i \in 1..(Len(q) - 1) : Tail(q)[i] = v
      BY Zenon, <1>1, <2>1 DEF Held
    <3>2. i + 1 \in DOMAIN q /\ q[i + 1] = v /\ i + 1 # 1 /\ 1 \in DOMAIN q
      BY <1>1, <3>1
    <3> QED
      BY Zenon, <1>1, <3>2 DEF Held, Distinct
  <2>2. ASSUME Held(q, v), v # Head(q)
        PROVE  Held(Tail(q), v)
    <3>1. PICK i \in 1..Len(q) : q[i] = v
      BY Zenon, <1>1, <2>2 DEF Held
    <3>2. i - 1 \in 1..(Len(q) - 1) /\ Tail(q)[i - 1] = v
      BY <1>1, <2>2, <3>1
    <3> QED
      BY Zenon, <1>1, <3>2 DEF Held
  <2> QED
    BY Zenon, <2>1, <2>2
<1>4. Distinct(Tail(q))
  <2> SUFFICES ASSUME NEW i \in 1..(Len(q) - 1), NEW j \in 1..(Len(q) - 1),
                      Tail(q)[i] = Tail(q)[j]
               PROVE  i = j
    BY Zenon, <1>1 DEF Distinct
  <2>1. i + 1 \in DOMAIN q /\ j + 1 \in DOMAIN q /\ q[i + 1] = q[j + 1]
    BY <1>1
  <2> QED
    BY <2>1 DEF Distinct
<1> QED
  BY Zenon, <1>1, <1>2, <1>3, <1>4

-----------------------------------------------------------------------------
\* The two threads' positions, the pause and the signals.

\* The threads use their detached lists only where the code does.
LEMMA PositionsNext ==
    ASSUME TypeOK, Positions, Next
    PROVE  Positions'
<1>h. \A q \in {pass, waiting, submitted} : q # <<>> => Head(q) \in Works /\ Head(q) # None
  BY HeadTailProperties, WorkerAssumption DEF TypeOK
<1>r. wret \in {"prepare", "resume", "take", "retire"}
  BY Zenon DEF TypeOK
<1> USE DEF Positions
<1>1. ASSUME NEW w \in Works, Submit(w)
      PROVE  Positions'
  BY Zenon, <1>1 DEF Submit, lists, worker, signals, super, flags, cont, control
<1>2. CASE SendWake
  BY Zenon, <1>2 DEF SendWake, lists, worker, signals, super, flags, cont, control
<1>3. CASE DispatchAcknowledge
  BY Zenon, <1>3 DEF DispatchAcknowledge, lists, worker, signals, super, flags, cont, control
<1>4. CASE DispatchDetach
  BY Zenon, <1>4 DEF DispatchDetach, lists, worker, signals, super, flags, cont, control
<1>5. CASE Deliver
  BY Zenon, <1>5 DEF Deliver, lists, worker, signals, super, flags, cont, control
<1>6. CASE DispatchEnd
  BY Zenon, <1>6 DEF DispatchEnd, lists, worker, signals, super, flags, cont, control
<1>7. CASE BarrierUp
  BY Zenon, <1>7 DEF BarrierUp, lists, worker, signals, super, flags, cont, control
<1>8. CASE BarrierDown
  BY Zenon, <1>8 DEF BarrierDown, lists, worker, signals, super, flags, cont, control
<1>9. CASE PauseBegin
  BY Zenon, <1>9 DEF PauseBegin, lists, worker, signals, super, flags, cont, control
<1>10. CASE PauseEnd
  BY Zenon, <1>10 DEF PauseEnd, lists, worker, signals, super, flags, cont, control
<1>11. CASE StopBegin
  BY Zenon, <1>11 DEF StopBegin, lists, worker, signals, super, flags, cont, control
<1>12. CASE StopSignal
  BY Zenon, <1>12 DEF StopSignal, lists, worker, signals, super, flags, cont, control
<1>13. CASE StopJoin
  BY Zenon, <1>13 DEF StopJoin, lists, worker, signals, super, flags, cont, control
<1>14. CASE Prepare
  BY Zenon, <1>14 DEF Prepare, lists, worker, signals, super, flags, cont, control
<1>15. CASE PollStop
  BY Zenon, <1>15 DEF PollStop, lists, worker, signals, super, flags, cont, control
<1>16. CASE PollWake
  BY Zenon, <1>16 DEF PollWake, lists, worker, signals, super, flags, cont, control
<1>17. CASE PollServe
  BY Zenon, <1>17 DEF PollServe, lists, worker, signals, super, flags, cont, control
<1>18. ASSUME NEW w \in Works \cup {None}, Serve(w)
      PROVE  Positions'
  BY Zenon, <1>18 DEF Serve, lists, worker, signals, super, flags, cont, control
<1>19. ASSUME NEW fail \in BOOLEAN, Resume(fail)
      PROVE  Positions'
  BY Zenon, <1>h, <1>19 DEF Resume, flags, super
<1>20. CASE ResumeEnd
  BY Zenon, <1>20 DEF ResumeEnd, lists, worker, signals, super, flags, cont, control
<1>21. CASE Take
  BY Zenon, <1>h, <1>21 DEF Take, flags, super
<1>22. CASE TakeEnd
  BY Zenon, <1>22 DEF TakeEnd, lists, worker, signals, super, flags, cont, control
<1>23. CASE RunWait
  BY Zenon, <1>r, <1>23 DEF RunWait, lists, worker, signals, super, flags, cont, control
<1>24. CASE RunPublish
  BY Zenon, <1>24 DEF RunPublish, lists, worker, signals, super, flags, cont, control
<1>25. CASE SendDone
  BY Zenon, <1>r, <1>25 DEF SendDone, lists, worker, signals, super, flags, cont, control
<1>26. CASE Retire
  BY Zenon, <1>h, <1>26 DEF Retire, flags, super
<1>27. CASE Exit
  BY Zenon, <1>27 DEF Exit, lists, worker, signals, super, flags, cont, control
<1>28. ASSUME NEW w \in Works, Produce(w)
      PROVE  Positions'
  BY Zenon, <1>28 DEF Produce, lists, worker, signals, super, flags, cont, control
<1>29. ASSUME NEW w \in Works, Ring(w)
      PROVE  Positions'
  BY Zenon, <1>29 DEF Ring, lists, worker, signals, super, flags, cont, control
<1>30. ASSUME NEW c \in Control, Dispose(c)
      PROVE  Positions'
  BY Zenon, <1>30 DEF Dispose, lists, worker, signals, super, flags, cont, control
<1>31. ASSUME NEW c \in Control, DisposeCancel(c)
      PROVE  Positions'
  BY Zenon, <1>31 DEF DisposeCancel, lists, worker, signals, super, flags, cont, control
<1>32. ASSUME NEW c \in Control, DisposeRing(c)
      PROVE  Positions'
  BY Zenon, <1>32 DEF DisposeRing, lists, worker, signals, super, flags, cont, control
<1>33. ASSUME NEW c \in Control, DisposeRelease(c)
      PROVE  Positions'
  BY Zenon, <1>33 DEF DisposeRelease, lists, worker, signals, super, flags, cont, control
<1> QED
  BY Zenon, <1>1, <1>2, <1>3, <1>4, <1>5, <1>6, <1>7, <1>8, <1>9, <1>10, <1>11,
     <1>12, <1>13, <1>14, <1>15, <1>16, <1>17, <1>18, <1>19, <1>20, <1>21,
     <1>22, <1>23, <1>24, <1>25, <1>26, <1>27, <1>28, <1>29, <1>30, <1>31,
     <1>32, <1>33 DEF Next, Supervisor, Worker, Others, Disposal

\* The worker stays quiet in an acknowledged pause: the queue admits nothing and
\* the poll serves nothing else.
LEMMA QuietNext ==
    ASSUME TypeOK, Positions, PauseIsQuiet, PauseIsPolled, Next
    PROVE  PauseIsQuiet' /\ PauseIsPolled'
<1>r. wret \in {"prepare", "resume", "take", "retire"}
  BY Zenon DEF TypeOK
<1> USE DEF Positions, PauseIsQuiet, PauseIsPolled
<1>1. ASSUME NEW w \in Works, Submit(w)
      PROVE  PauseIsQuiet' /\ PauseIsPolled'
  BY Zenon, <1>1 DEF Submit, lists, worker, signals, super, flags, cont, control
<1>2. CASE SendWake
  BY Zenon, <1>2 DEF SendWake, lists, worker, signals, super, flags, cont, control
<1>3. CASE DispatchAcknowledge
  BY Zenon, <1>3 DEF DispatchAcknowledge, lists, worker, signals, super, flags, cont, control
<1>4. CASE DispatchDetach
  BY Zenon, <1>4 DEF DispatchDetach, lists, worker, signals, super, flags, cont, control
<1>5. CASE Deliver
  BY Zenon, <1>5 DEF Deliver, lists, worker, signals, super, flags, cont, control
<1>6. CASE DispatchEnd
  BY Zenon, <1>6 DEF DispatchEnd, lists, worker, signals, super, flags, cont, control
<1>7. CASE BarrierUp
  BY Zenon, <1>7 DEF BarrierUp, lists, worker, signals, super, flags, cont, control
<1>8. CASE BarrierDown
  BY Zenon, <1>8 DEF BarrierDown, lists, worker, signals, super, flags, cont, control
<1>9. CASE PauseBegin
  BY Zenon, <1>9 DEF PauseBegin, lists, worker, signals, super, flags, cont, control
<1>10. CASE PauseEnd
  BY Zenon, <1>10 DEF PauseEnd, lists, worker, signals, super, flags, cont, control
<1>11. CASE StopBegin
  BY Zenon, <1>11 DEF StopBegin, lists, worker, signals, super, flags, cont, control
<1>12. CASE StopSignal
  BY Zenon, <1>12 DEF StopSignal, lists, worker, signals, super, flags, cont, control
<1>13. CASE StopJoin
  BY Zenon, <1>13 DEF StopJoin, lists, worker, signals, super, flags, cont, control
<1>14. CASE Prepare
  BY Zenon, <1>14 DEF Prepare, lists, worker, signals, super, flags, cont, control
<1>15. CASE PollStop
  BY Zenon, <1>15 DEF PollStop, lists, worker, signals, super, flags, cont, control
<1>16. CASE PollWake
  BY Zenon, <1>16 DEF PollWake, lists, worker, signals, super, flags, cont, control
<1>17. CASE PollServe
  BY Zenon, <1>17 DEF PollServe, lists, worker, signals, super, flags, cont, control
<1>18. ASSUME NEW w \in Works \cup {None}, Serve(w)
      PROVE  PauseIsQuiet' /\ PauseIsPolled'
  BY Zenon, <1>18 DEF Serve, lists, worker, signals, super, flags, cont, control
<1>19. ASSUME NEW fail \in BOOLEAN, Resume(fail)
      PROVE  PauseIsQuiet' /\ PauseIsPolled'
  BY Zenon, <1>19 DEF Resume, lists, worker, signals, super, flags, cont, control
<1>20. CASE ResumeEnd
  BY Zenon, <1>20 DEF ResumeEnd, lists, worker, signals, super, flags, cont, control
<1>21. CASE Take
  BY Zenon, <1>21 DEF Take, Admits, lists, worker, signals, super, flags, cont, control
<1>22. CASE TakeEnd
  <2>1. wpc' \in {"prepare", "serve"} /\ (polled => wpc' = "prepare") /\ pause' = pause
       /\ stopping' = stopping /\ hand' = hand /\ wpc = "take"
    BY Zenon, <1>22 DEF TakeEnd, lists, worker, signals, super, flags, cont, control
  <2> QED
    BY Zenon, <2>1
<1>23. CASE RunWait
  BY Zenon, <1>r, <1>23 DEF RunWait, lists, worker, signals, super, flags, cont, control
<1>24. CASE RunPublish
  BY Zenon, <1>24 DEF RunPublish, lists, worker, signals, super, flags, cont, control
<1>25. CASE SendDone
  BY Zenon, <1>r, <1>25 DEF SendDone, lists, worker, signals, super, flags, cont, control
<1>26. CASE Retire
  BY Zenon, <1>26 DEF Retire, lists, worker, signals, super, flags, cont, control
<1>27. CASE Exit
  BY Zenon, <1>27 DEF Exit, lists, worker, signals, super, flags, cont, control
<1>28. ASSUME NEW w \in Works, Produce(w)
      PROVE  PauseIsQuiet' /\ PauseIsPolled'
  BY Zenon, <1>28 DEF Produce, lists, worker, signals, super, flags, cont, control
<1>29. ASSUME NEW w \in Works, Ring(w)
      PROVE  PauseIsQuiet' /\ PauseIsPolled'
  BY Zenon, <1>29 DEF Ring, lists, worker, signals, super, flags, cont, control
<1>30. ASSUME NEW c \in Control, Dispose(c)
      PROVE  PauseIsQuiet' /\ PauseIsPolled'
  BY Zenon, <1>30 DEF Dispose, lists, worker, signals, super, flags, cont, control
<1>31. ASSUME NEW c \in Control, DisposeCancel(c)
      PROVE  PauseIsQuiet' /\ PauseIsPolled'
  BY Zenon, <1>31 DEF DisposeCancel, lists, worker, signals, super, flags, cont, control
<1>32. ASSUME NEW c \in Control, DisposeRing(c)
      PROVE  PauseIsQuiet' /\ PauseIsPolled'
  BY Zenon, <1>32 DEF DisposeRing, lists, worker, signals, super, flags, cont, control
<1>33. ASSUME NEW c \in Control, DisposeRelease(c)
      PROVE  PauseIsQuiet' /\ PauseIsPolled'
  BY Zenon, <1>33 DEF DisposeRelease, lists, worker, signals, super, flags, cont, control
<1> QED
  BY Zenon, <1>1, <1>2, <1>3, <1>4, <1>5, <1>6, <1>7, <1>8, <1>9, <1>10, <1>11,
     <1>12, <1>13, <1>14, <1>15, <1>16, <1>17, <1>18, <1>19, <1>20, <1>21,
     <1>22, <1>23, <1>24, <1>25, <1>26, <1>27, <1>28, <1>29, <1>30, <1>31,
     <1>32, <1>33 DEF Next, Supervisor, Worker, Others, Disposal

\* Whoever changes a queue or the pause leaves a signal that is sent or about to
\* be; whoever takes a signal goes on to look.
LEMMA SignalNext ==
    ASSUME TypeOK, Positions, NoLostSignal, Next
    PROVE  NoLostSignal'
<1>r. wret \in {"prepare", "resume", "take", "retire"}
  BY Zenon DEF TypeOK
<1> USE DEF Positions, NoLostSignal
<1>1. ASSUME NEW w \in Works, Submit(w)
      PROVE  NoLostSignal'
  BY Zenon, <1>1 DEF Submit, lists, worker, signals, super, flags, cont, control
<1>2. CASE SendWake
  BY Zenon, <1>2 DEF SendWake, lists, worker, signals, super, flags, cont, control
<1>3. CASE DispatchAcknowledge
  BY Zenon, <1>3 DEF DispatchAcknowledge, lists, worker, signals, super, flags, cont, control
<1>4. CASE DispatchDetach
  BY Zenon, <1>4 DEF DispatchDetach, lists, worker, signals, super, flags, cont, control
<1>5. CASE Deliver
  BY Zenon, <1>5 DEF Deliver, lists, worker, signals, super, flags, cont, control
<1>6. CASE DispatchEnd
  BY Zenon, <1>6 DEF DispatchEnd, lists, worker, signals, super, flags, cont, control
<1>7. CASE BarrierUp
  BY Zenon, <1>7 DEF BarrierUp, lists, worker, signals, super, flags, cont, control
<1>8. CASE BarrierDown
  BY Zenon, <1>8 DEF BarrierDown, lists, worker, signals, super, flags, cont, control
<1>9. CASE PauseBegin
  BY Zenon, <1>9 DEF PauseBegin, lists, worker, signals, super, flags, cont, control
<1>10. CASE PauseEnd
  BY Zenon, <1>10 DEF PauseEnd, lists, worker, signals, super, flags, cont, control
<1>11. CASE StopBegin
  BY Zenon, <1>11 DEF StopBegin, lists, worker, signals, super, flags, cont, control
<1>12. CASE StopSignal
  BY Zenon, <1>12 DEF StopSignal, lists, worker, signals, super, flags, cont, control
<1>13. CASE StopJoin
  BY Zenon, <1>13 DEF StopJoin, lists, worker, signals, super, flags, cont, control
<1>14. CASE Prepare
  BY Zenon, <1>14 DEF Prepare, lists, worker, signals, super, flags, cont, control
<1>15. CASE PollStop
  BY Zenon, <1>15 DEF PollStop, lists, worker, signals, super, flags, cont, control
<1>16. CASE PollWake
  BY Zenon, <1>16 DEF PollWake, lists, worker, signals, super, flags, cont, control
<1>17. CASE PollServe
  BY Zenon, <1>17 DEF PollServe, lists, worker, signals, super, flags, cont, control
<1>18. ASSUME NEW w \in Works \cup {None}, Serve(w)
      PROVE  NoLostSignal'
  BY Zenon, <1>18 DEF Serve, lists, worker, signals, super, flags, cont, control
<1>19. ASSUME NEW fail \in BOOLEAN, Resume(fail)
      PROVE  NoLostSignal'
  BY Zenon, <1>19 DEF Resume, lists, worker, signals, super, flags, cont, control
<1>20. CASE ResumeEnd
  BY Zenon, <1>20 DEF ResumeEnd, lists, worker, signals, super, flags, cont, control
<1>21. CASE Take
  BY Zenon, <1>21 DEF Take, lists, worker, signals, super, flags, cont, control
<1>22. CASE TakeEnd
  <2>1. wpc' \in {"prepare", "serve"} /\ wpc = "take" /\ pause' = pause
       /\ UNCHANGED <<submitted, completed, spc, stopping, done, barrier, recheck>>
    BY Zenon, <1>22 DEF TakeEnd, lists, worker, signals, super, flags, cont, control
  <2>2. submitted # <<>> => wake' \/ pause # "none" \/ stopping
    BY Zenon, <1>22 DEF TakeEnd, Admits
  <2> QED
    BY Zenon, <2>1, <2>2
<1>23. CASE RunWait
  BY Zenon, <1>r, <1>23 DEF RunWait, lists, worker, signals, super, flags, cont, control
<1>24. CASE RunPublish
  BY Zenon, <1>24 DEF RunPublish, lists, worker, signals, super, flags, cont, control
<1>25. CASE SendDone
  BY Zenon, <1>r, <1>25 DEF SendDone, lists, worker, signals, super, flags, cont, control
<1>26. CASE Retire
  BY Zenon, <1>26 DEF Retire, lists, worker, signals, super, flags, cont, control
<1>27. CASE Exit
  BY Zenon, <1>27 DEF Exit, lists, worker, signals, super, flags, cont, control
<1>28. ASSUME NEW w \in Works, Produce(w)
      PROVE  NoLostSignal'
  BY Zenon, <1>28 DEF Produce, lists, worker, signals, super, flags, cont, control
<1>29. ASSUME NEW w \in Works, Ring(w)
      PROVE  NoLostSignal'
  BY Zenon, <1>29 DEF Ring, lists, worker, signals, super, flags, cont, control
<1>30. ASSUME NEW c \in Control, Dispose(c)
      PROVE  NoLostSignal'
  BY Zenon, <1>30 DEF Dispose, lists, worker, signals, super, flags, cont, control
<1>31. ASSUME NEW c \in Control, DisposeCancel(c)
      PROVE  NoLostSignal'
  BY Zenon, <1>31 DEF DisposeCancel, lists, worker, signals, super, flags, cont, control
<1>32. ASSUME NEW c \in Control, DisposeRing(c)
      PROVE  NoLostSignal'
  BY Zenon, <1>32 DEF DisposeRing, lists, worker, signals, super, flags, cont, control
<1>33. ASSUME NEW c \in Control, DisposeRelease(c)
      PROVE  NoLostSignal'
  BY Zenon, <1>33 DEF DisposeRelease, lists, worker, signals, super, flags, cont, control
<1> QED
  BY Zenon, <1>1, <1>2, <1>3, <1>4, <1>5, <1>6, <1>7, <1>8, <1>9, <1>10, <1>11,
     <1>12, <1>13, <1>14, <1>15, <1>16, <1>17, <1>18, <1>19, <1>20, <1>21,
     <1>22, <1>23, <1>24, <1>25, <1>26, <1>27, <1>28, <1>29, <1>30, <1>31,
     <1>32, <1>33 DEF Next, Supervisor, Worker, Others, Disposal

-----------------------------------------------------------------------------
\* Custody.

\* A record in some place is accepted and in no other; one that is not accepted
\* is nowhere.
LEMMA PlaceIsOnly ==
    ASSUME TypeOK, Custody, NEW w \in Works
    PROVE  /\ Held(submitted, w) => accepted[w] /\ ~Held(waiting, w) /\ ~Held(completed, w)
                /\ ~Held(pass, w) /\ ~Held(taken, w) /\ hand # w
           /\ Held(waiting, w) => accepted[w] /\ ~Held(completed, w)
                /\ ~Held(pass, w) /\ ~Held(taken, w) /\ hand # w
           /\ Held(completed, w) => accepted[w] /\ ~Held(pass, w) /\ ~Held(taken, w)
                /\ hand # w
           /\ Held(pass, w) => accepted[w] /\ ~Held(taken, w) /\ hand # w
           /\ Held(taken, w) => accepted[w] /\ hand # w
           /\ hand = w => accepted[w]
<1>1. Places(w) = IF accepted[w] THEN 1 ELSE 0
  BY Zenon DEF Custody
<1> QED
  BY <1>1 DEF Places, Count

\* A step that moves no record.
LEMMA CustodyStays ==
    ASSUME Custody, UNCHANGED <<lists, hand, accepted>>
    PROVE  Custody'
BY DEF Custody, Places, Count, lists

\* Every step moves a record from one place to another, accepts one that was
\* nowhere, or gives one back.
LEMMA CustodyNext ==
    ASSUME TypeOK, Positions, Custody, Next
    PROVE  Custody'
<1>1. ASSUME NEW w \in Works, Submit(w)
      PROVE  Custody'
  <2>1. ~Held(submitted, w) /\ \A v \in Works : Held(submitted', v) <=> Held(submitted, v) \/ v = w
    BY Zenon, <1>1, PlaceIsOnly, HeldAppend DEF Submit, Idle, TypeOK
  <2>2. Distinct(submitted')
    BY Zenon, <1>1, <2>1, HeldAppend DEF Submit, TypeOK, Custody
  <2>3. ~Held(waiting, w) /\ ~Held(completed, w) /\ ~Held(pass, w) /\ ~Held(taken, w) /\ hand # w
    BY Zenon, <1>1, PlaceIsOnly DEF Submit, Idle
  <2>4. /\ accepted' = [accepted EXCEPT ![w] = TRUE]
       /\ UNCHANGED <<waiting, completed, pass, taken, hand>>
    BY Zenon, <1>1 DEF Submit, worker
  <2> QED
    BY <2>1, <2>2, <2>3, <2>4 DEF TypeOK, Custody, Places, Count
<1>2. CASE SendWake
  BY Zenon, <1>2, CustodyStays DEF SendWake, lists, worker, signals, super, flags, cont, control
<1>3. CASE DispatchAcknowledge
  BY Zenon, <1>3, CustodyStays DEF DispatchAcknowledge, lists, worker, signals, super, flags, cont, control
<1>4. CASE DispatchDetach
  <2>1. /\ taken = <<>> /\ taken' = completed /\ completed' = <<>>
       /\ UNCHANGED <<submitted, waiting, pass, hand, accepted>>
    BY Zenon, <1>4 DEF DispatchDetach, Positions, worker
  <2> QED
    BY <2>1, HeldNowhere DEF Custody, Places, Count
<1>5. CASE Deliver
  <2> DEFINE w == Head(taken)
  <2>1. /\ w \in Works /\ Held(taken, w) /\ Distinct(taken')
       /\ \A v \in Works : Held(taken', v) <=> Held(taken, v) /\ v # w
    BY Zenon, <1>5, HeldTail DEF Deliver, TypeOK, Custody
  <2>2. /\ accepted[w] /\ hand # w
       /\ ~Held(submitted, w) /\ ~Held(waiting, w) /\ ~Held(completed, w) /\ ~Held(pass, w)
    BY Zenon, <2>1, PlaceIsOnly
  <2>3. UNCHANGED <<submitted, waiting, pass, hand>>
    BY Zenon, <1>5 DEF Deliver, worker
  <2>4. CASE w \notin Control /\ barrier
    <3>1. completed' = Append(completed, w) /\ accepted' = accepted
      BY Zenon, <1>5, <2>4 DEF Deliver
    <3>2. /\ \A v \in Works : Held(completed', v) <=> Held(completed, v) \/ v = w
         /\ Distinct(completed')
      BY Zenon, <3>1, <2>1, <2>2, HeldAppend DEF TypeOK, Custody
    <3> HIDE DEF w
    <3> QED
      BY SMTT(30), <3>1, <3>2, <2>1, <2>2, <2>3 DEF TypeOK, Custody, Places, Count
  <2>5. CASE ~(w \notin Control /\ barrier)
    <3>1. completed' = completed /\ accepted' = [accepted EXCEPT ![w] = FALSE]
      BY Zenon, <1>5, <2>5 DEF Deliver
    <3> HIDE DEF w
    <3> QED
      BY SMTT(30), <3>1, <2>1, <2>2, <2>3 DEF TypeOK, Custody, Places, Count
  <2> QED
    BY Zenon, <2>4, <2>5
<1>6. CASE DispatchEnd
  BY Zenon, <1>6, CustodyStays DEF DispatchEnd, lists, worker, signals, super, flags, cont, control
<1>7. CASE BarrierUp
  BY Zenon, <1>7, CustodyStays DEF BarrierUp, lists, worker, signals, super, flags, cont, control
<1>8. CASE BarrierDown
  BY Zenon, <1>8, CustodyStays DEF BarrierDown, lists, worker, signals, super, flags, cont, control
<1>9. CASE PauseBegin
  BY Zenon, <1>9, CustodyStays DEF PauseBegin, lists, worker, signals, super, flags, cont, control
<1>10. CASE PauseEnd
  BY Zenon, <1>10, CustodyStays DEF PauseEnd, lists, worker, signals, super, flags, cont, control
<1>11. CASE StopBegin
  BY Zenon, <1>11, CustodyStays DEF StopBegin, lists, worker, signals, super, flags, cont, control
<1>12. CASE StopSignal
  BY Zenon, <1>12, CustodyStays DEF StopSignal, lists, worker, signals, super, flags, cont, control
<1>13. CASE StopJoin
  <2>1. /\ completed' = <<>> /\ UNCHANGED <<submitted, waiting, pass, taken, hand>>
       /\ accepted' = [w \in Works |-> accepted[w] /\ ~Held(completed, w)]
    BY Zenon, <1>13 DEF StopJoin, worker
  <2>2. ASSUME NEW w \in Works
       PROVE  Places(w)' = IF accepted'[w] THEN 1 ELSE 0
    <3>1. Places(w) = IF accepted[w] THEN 1 ELSE 0
      BY Zenon DEF Custody
    <3>2. Places(w)' = Places(w) - Count(completed, w)
      BY <2>1, HeldNowhere DEF Places, Count
    <3>3. accepted'[w] <=> accepted[w] /\ ~Held(completed, w)
      BY Zenon, <2>1
    <3> QED
      BY <3>1, <3>2, <3>3, PlaceIsOnly DEF Count
  <2> QED
    BY Zenon, <2>1, <2>2, HeldNowhere DEF Custody
<1>14. CASE Prepare
  BY Zenon, <1>14, CustodyStays DEF Prepare, lists, worker, signals, super, flags, cont, control
<1>15. CASE PollStop
  BY Zenon, <1>15, CustodyStays DEF PollStop, lists, worker, signals, super, flags, cont, control
<1>16. CASE PollWake
  <2>1. /\ pass = <<>> /\ pass' = waiting /\ waiting' = <<>>
       /\ UNCHANGED <<submitted, completed, taken, hand, accepted>>
    BY Zenon, <1>16 DEF PollWake, Positions
  <2> QED
    BY <2>1, HeldNowhere DEF Custody, Places, Count
<1>17. CASE PollServe
  BY Zenon, <1>17, CustodyStays DEF PollServe, lists, worker, signals, super, flags, cont, control
<1>18. ASSUME NEW w \in Works \cup {None}, Serve(w)
      PROVE  Custody'
  <2>1. CASE w = None
    BY Zenon, <1>18, <2>1, CustodyStays DEF Serve, lists
  <2>2. CASE w # None
    <3>1. /\ w \in Works /\ ~accepted[w]
         /\ completed' = Append(completed, w) /\ accepted' = [accepted EXCEPT ![w] = TRUE]
         /\ UNCHANGED <<submitted, waiting, pass, taken, hand>>
      BY Zenon, <1>18, <2>2 DEF Serve, Idle
    <3>2. /\ ~Held(submitted, w) /\ ~Held(waiting, w) /\ ~Held(completed, w)
         /\ ~Held(pass, w) /\ ~Held(taken, w) /\ hand # w
      BY Zenon, <3>1, PlaceIsOnly
    <3>3. /\ \A v \in Works : Held(completed', v) <=> Held(completed, v) \/ v = w
         /\ Distinct(completed')
      BY Zenon, <3>1, <3>2, HeldAppend DEF TypeOK, Custody
    <3> QED
      BY SMTT(30), <3>1, <3>2, <3>3 DEF TypeOK, Custody, Places, Count
  <2> QED
    BY Zenon, <2>1, <2>2
<1>19. ASSUME NEW fail \in BOOLEAN, Resume(fail)
      PROVE  Custody'
  <2> DEFINE w == Head(pass)
  <2>1. /\ w \in Works /\ Held(pass, w) /\ Distinct(pass')
       /\ \A v \in Works : Held(pass', v) <=> Held(pass, v) /\ v # w
    BY Zenon, <1>19, HeldTail DEF Resume, TypeOK, Custody
  <2>2. /\ hand = None /\ UNCHANGED <<submitted, completed, taken, accepted>>
    BY Zenon, <1>19 DEF Resume, Positions
  <2>3. ~Held(waiting, w)
    BY Zenon, <2>1, PlaceIsOnly
  <2>4. CASE turn < Batch /\ pause = "none" /\ Probe(w)
    <3>1. hand' = w /\ waiting' = waiting
      BY Zenon, <1>19, <2>4 DEF Resume
    <3> HIDE DEF w
    <3> QED
      BY SMTT(30), <3>1, <2>1, <2>2, WorkerAssumption DEF TypeOK, Custody, Places, Count
  <2>5. CASE ~(turn < Batch /\ pause = "none" /\ Probe(w))
    <3>1. hand' = hand /\ waiting' = Append(waiting, w)
      BY Zenon, <1>19, <2>5 DEF Resume
    <3>2. /\ \A v \in Works : Held(waiting', v) <=> Held(waiting, v) \/ v = w
         /\ Distinct(waiting')
      BY Zenon, <3>1, <2>1, <2>3, HeldAppend DEF TypeOK, Custody
    <3> HIDE DEF w
    <3> QED
      BY SMTT(30), <3>1, <3>2, <2>1, <2>2, <2>3 DEF TypeOK, Custody, Places, Count
  <2> QED
    BY Zenon, <2>4, <2>5
<1>20. CASE ResumeEnd
  BY Zenon, <1>20, CustodyStays DEF ResumeEnd, lists, worker, signals, super, flags, cont, control
<1>21. CASE Take
  <2> DEFINE w == Head(submitted)
  <2>1. /\ w \in Works /\ Held(submitted, w) /\ Distinct(submitted')
       /\ \A v \in Works : Held(submitted', v) <=> Held(submitted, v) /\ v # w
    BY Zenon, <1>21, HeldTail DEF Take, TypeOK, Custody
  <2>2. /\ hand = None /\ hand' = w
       /\ UNCHANGED <<waiting, completed, pass, taken, accepted>>
    BY Zenon, <1>21 DEF Take, Positions
  <2> HIDE DEF w
  <2> QED
    BY <2>1, <2>2, WorkerAssumption DEF TypeOK, Custody, Places, Count
<1>22. CASE TakeEnd
  BY Zenon, <1>22, CustodyStays DEF TakeEnd, lists, worker, signals, super, flags, cont, control
<1>23. CASE RunWait
  <2>1. /\ hand \in Works /\ hand' = None /\ waiting' = Append(waiting, hand)
       /\ UNCHANGED <<submitted, completed, pass, taken, accepted>>
    BY Zenon, <1>23 DEF RunWait, Positions, TypeOK
  <2>2. ~Held(waiting, hand)
    BY Zenon, <2>1, PlaceIsOnly
  <2>3. /\ \A v \in Works : Held(waiting', v) <=> Held(waiting, v) \/ v = hand
       /\ Distinct(waiting')
    BY Zenon, <2>1, <2>2, HeldAppend DEF TypeOK, Custody
  <2> QED
    BY <2>1, <2>2, <2>3, WorkerAssumption DEF TypeOK, Custody, Places, Count
<1>24. CASE RunPublish
  <2>1. /\ hand \in Works /\ hand' = None /\ completed' = Append(completed, hand)
       /\ UNCHANGED <<submitted, waiting, pass, taken, accepted>>
    BY Zenon, <1>24 DEF RunPublish, Positions, TypeOK
  <2>2. ~Held(completed, hand)
    BY Zenon, <2>1, PlaceIsOnly
  <2>3. /\ \A v \in Works : Held(completed', v) <=> Held(completed, v) \/ v = hand
       /\ Distinct(completed')
    BY Zenon, <2>1, <2>2, HeldAppend DEF TypeOK, Custody
  <2> QED
    BY <2>1, <2>2, <2>3, WorkerAssumption DEF TypeOK, Custody, Places, Count
<1>25. CASE SendDone
  BY Zenon, <1>25, CustodyStays DEF SendDone, lists, worker, signals, super, flags, cont, control
<1>26. CASE Retire
  <2>1. hand = None /\ UNCHANGED <<completed, pass, taken, accepted>>
    BY Zenon, <1>26 DEF Retire, Positions
  <2>2. CASE waiting # <<>>
    <3> DEFINE w == Head(waiting)
    <3>1. hand' = w /\ waiting' = Tail(waiting) /\ submitted' = submitted
      BY Zenon, <1>26, <2>2 DEF Retire
    <3>2. /\ w \in Works /\ Held(waiting, w) /\ Distinct(waiting')
         /\ \A v \in Works : Held(waiting', v) <=> Held(waiting, v) /\ v # w
      BY Zenon, <3>1, <2>2, HeldTail DEF TypeOK, Custody
    <3> HIDE DEF w
    <3>3. ASSUME NEW v \in Works
         PROVE  Places(v)' = Places(v)
      BY <3>1, <3>2, <2>1, WorkerAssumption DEF Places, Count
    <3> QED
      BY Zenon, <3>1, <3>2, <3>3, <2>1 DEF Custody
  <2>3. CASE waiting = <<>>
    <3> DEFINE w == Head(submitted)
    <3>1. /\ hand' = w /\ submitted' = Tail(submitted) /\ waiting' = waiting
         /\ submitted # <<>>
      BY Zenon, <1>26, <2>3 DEF Retire
    <3>2. /\ w \in Works /\ Held(submitted, w) /\ Distinct(submitted')
         /\ \A v \in Works : Held(submitted', v) <=> Held(submitted, v) /\ v # w
      BY Zenon, <3>1, HeldTail DEF TypeOK, Custody
    <3> HIDE DEF w
    <3>3. ASSUME NEW v \in Works
         PROVE  Places(v)' = Places(v)
      BY <3>1, <3>2, <2>1, WorkerAssumption DEF Places, Count
    <3> QED
      BY Zenon, <3>1, <3>2, <3>3, <2>1 DEF Custody
  <2> QED
    BY Zenon, <2>2, <2>3
<1>27. CASE Exit
  BY Zenon, <1>27, CustodyStays DEF Exit, lists, worker, signals, super, flags, cont, control
<1>28. ASSUME NEW w \in Works, Produce(w)
      PROVE  Custody'
  BY Zenon, <1>28, CustodyStays DEF Produce, lists, worker, signals, super, flags, cont, control
<1>29. ASSUME NEW w \in Works, Ring(w)
      PROVE  Custody'
  BY Zenon, <1>29, CustodyStays DEF Ring, lists, worker, signals, super, flags, cont, control
<1>30. ASSUME NEW c \in Control, Dispose(c)
      PROVE  Custody'
  BY Zenon, <1>30, CustodyStays DEF Dispose, lists, worker, signals, super, flags, cont, control
<1>31. ASSUME NEW c \in Control, DisposeCancel(c)
      PROVE  Custody'
  BY Zenon, <1>31, CustodyStays DEF DisposeCancel, lists, worker, signals, super, flags, cont, control
<1>32. ASSUME NEW c \in Control, DisposeRing(c)
      PROVE  Custody'
  BY Zenon, <1>32, CustodyStays DEF DisposeRing, lists, worker, signals, super, flags, cont, control
<1>33. ASSUME NEW c \in Control, DisposeRelease(c)
      PROVE  Custody'
  BY ZenonT(30), <1>33, CustodyStays DEF DisposeRelease, lists, worker, signals, super, flags, cont, control
<1> QED
  BY Zenon, <1>1, <1>2, <1>3, <1>4, <1>5, <1>6, <1>7, <1>8, <1>9, <1>10, <1>11,
     <1>12, <1>13, <1>14, <1>15, <1>16, <1>17, <1>18, <1>19, <1>20, <1>21,
     <1>22, <1>23, <1>24, <1>25, <1>26, <1>27, <1>28, <1>29, <1>30, <1>31,
     <1>32, <1>33 DEF Next, Supervisor, Worker, Others, Disposal

-----------------------------------------------------------------------------
\* The exited thread, the references and the types.

\* Nothing is given to a thread that has exited.
LEMMA ExitedNext ==
    ASSUME TypeOK, Positions, ExitedEmpty, Next
    PROVE  ExitedEmpty'
<1> USE DEF TypeOK, Positions, ExitedEmpty
<1>1. ASSUME NEW w \in Works, Submit(w)
      PROVE  ExitedEmpty'
  BY Zenon, <1>1 DEF Submit, lists, worker, signals, super, flags, cont, control
<1>2. CASE SendWake
  BY Zenon, <1>2 DEF SendWake, lists, worker, signals, super, flags, cont, control
<1>3. CASE DispatchAcknowledge
  BY Zenon, <1>3 DEF DispatchAcknowledge, lists, worker, signals, super, flags, cont, control
<1>4. CASE DispatchDetach
  BY Zenon, <1>4 DEF DispatchDetach, lists, worker, signals, super, flags, cont, control
<1>5. CASE Deliver
  BY Zenon, <1>5 DEF Deliver, lists, worker, signals, super, flags, cont, control
<1>6. CASE DispatchEnd
  BY Zenon, <1>6 DEF DispatchEnd, lists, worker, signals, super, flags, cont, control
<1>7. CASE BarrierUp
  BY Zenon, <1>7 DEF BarrierUp, lists, worker, signals, super, flags, cont, control
<1>8. CASE BarrierDown
  BY Zenon, <1>8 DEF BarrierDown, lists, worker, signals, super, flags, cont, control
<1>9. CASE PauseBegin
  BY Zenon, <1>9 DEF PauseBegin, lists, worker, signals, super, flags, cont, control
<1>10. CASE PauseEnd
  BY Zenon, <1>10 DEF PauseEnd, lists, worker, signals, super, flags, cont, control
<1>11. CASE StopBegin
  BY Zenon, <1>11 DEF StopBegin, lists, worker, signals, super, flags, cont, control
<1>12. CASE StopSignal
  BY Zenon, <1>12 DEF StopSignal, lists, worker, signals, super, flags, cont, control
<1>13. CASE StopJoin
  BY Zenon, <1>13 DEF StopJoin, lists, worker, signals, super, flags, cont, control
<1>14. CASE Prepare
  BY Zenon, <1>14 DEF Prepare, lists, worker, signals, super, flags, cont, control
<1>15. CASE PollStop
  BY Zenon, <1>15 DEF PollStop, lists, worker, signals, super, flags, cont, control
<1>16. CASE PollWake
  BY Zenon, <1>16 DEF PollWake, lists, worker, signals, super, flags, cont, control
<1>17. CASE PollServe
  BY Zenon, <1>17 DEF PollServe, lists, worker, signals, super, flags, cont, control
<1>18. ASSUME NEW w \in Works \cup {None}, Serve(w)
      PROVE  ExitedEmpty'
  BY Zenon, <1>18 DEF Serve, lists, worker, signals, super, flags, cont, control
<1>19. ASSUME NEW fail \in BOOLEAN, Resume(fail)
      PROVE  ExitedEmpty'
  BY Zenon, <1>19 DEF Resume, lists, worker, signals, super, flags, cont, control
<1>20. CASE ResumeEnd
  BY Zenon, <1>20 DEF ResumeEnd, lists, worker, signals, super, flags, cont, control
<1>21. CASE Take
  BY Zenon, <1>21 DEF Take, lists, worker, signals, super, flags, cont, control
<1>22. CASE TakeEnd
  BY Zenon, <1>22 DEF TakeEnd, lists, worker, signals, super, flags, cont, control
<1>23. CASE RunWait
  BY Zenon, <1>23 DEF RunWait, lists, worker, signals, super, flags, cont, control
<1>24. CASE RunPublish
  BY Zenon, <1>24 DEF RunPublish, lists, worker, signals, super, flags, cont, control
<1>25. CASE SendDone
  BY Zenon, <1>25 DEF SendDone, lists, worker, signals, super, flags, cont, control
<1>26. CASE Retire
  BY Zenon, <1>26 DEF Retire, lists, worker, signals, super, flags, cont, control
<1>27. CASE Exit
  BY Zenon, <1>27 DEF Exit, lists, worker, signals, super, flags, cont, control
<1>28. ASSUME NEW w \in Works, Produce(w)
      PROVE  ExitedEmpty'
  BY Zenon, <1>28 DEF Produce, lists, worker, signals, super, flags, cont, control
<1>29. ASSUME NEW w \in Works, Ring(w)
      PROVE  ExitedEmpty'
  BY Zenon, <1>29 DEF Ring, lists, worker, signals, super, flags, cont, control
<1>30. ASSUME NEW c \in Control, Dispose(c)
      PROVE  ExitedEmpty'
  BY Zenon, <1>30 DEF Dispose, lists, worker, signals, super, flags, cont, control
<1>31. ASSUME NEW c \in Control, DisposeCancel(c)
      PROVE  ExitedEmpty'
  BY Zenon, <1>31 DEF DisposeCancel, lists, worker, signals, super, flags, cont, control
<1>32. ASSUME NEW c \in Control, DisposeRing(c)
      PROVE  ExitedEmpty'
  BY Zenon, <1>32 DEF DisposeRing, lists, worker, signals, super, flags, cont, control
<1>33. ASSUME NEW c \in Control, DisposeRelease(c)
      PROVE  ExitedEmpty'
  BY Zenon, <1>33 DEF DisposeRelease, lists, worker, signals, super, flags, cont, control
<1> QED
  BY ZenonT(30), <1>1, <1>2, <1>3, <1>4, <1>5, <1>6, <1>7, <1>8, <1>9, <1>10, <1>11,
     <1>12, <1>13, <1>14, <1>15, <1>16, <1>17, <1>18, <1>19, <1>20, <1>21,
     <1>22, <1>23, <1>24, <1>25, <1>26, <1>27, <1>28, <1>29, <1>30, <1>31,
     <1>32, <1>33 DEF Next, Supervisor, Worker, Others, Disposal

\* The queue's reference goes with the record's acceptance, the owner's with its
\* disposal.
LEMMA ReferencesNext ==
    ASSUME TypeOK, Custody, ControlReferences, Next
    PROVE  ControlReferences'
<1>s. /\ accepted \in [Works -> BOOLEAN] /\ refs \in [Control -> 0..2]
      /\ holder \in [Control -> {"none", "held", "cancel", "ring", "release", "gone"}]
  BY Zenon DEF TypeOK
<1> USE <1>s, WorkerAssumption DEF ControlReferences
<1>1. ASSUME NEW w \in Works, Submit(w)
      PROVE  ControlReferences'
  BY <1>1 DEF Submit, Idle
<1>2. CASE SendWake
  BY Zenon, <1>2 DEF SendWake, control
<1>3. CASE DispatchAcknowledge
  BY Zenon, <1>3 DEF DispatchAcknowledge, control
<1>4. CASE DispatchDetach
  BY Zenon, <1>4 DEF DispatchDetach, control
<1>5. CASE Deliver
  <2> DEFINE w == Head(taken)
  <2>1. w \in Works /\ accepted[w]
    BY Zenon, <1>5, HeldTail, PlaceIsOnly DEF Deliver, Custody, TypeOK
  <2>2. CASE w \notin Control /\ barrier
    BY Zenon, <1>5, <2>2 DEF Deliver
  <2>3. CASE ~(w \notin Control /\ barrier)
    <3>1. /\ accepted' = [accepted EXCEPT ![w] = FALSE] /\ holder' = holder
         /\ refs' = [c \in Control |-> IF c = w THEN refs[c] - 1 ELSE refs[c]]
      BY Zenon, <1>5, <2>3 DEF Deliver, Release
    <3> HIDE DEF w
    <3> QED
      BY <3>1, <2>1
  <2> QED
    BY Zenon, <2>2, <2>3
<1>6. CASE DispatchEnd
  BY Zenon, <1>6 DEF DispatchEnd, control
<1>7. CASE BarrierUp
  BY Zenon, <1>7 DEF BarrierUp, control
<1>8. CASE BarrierDown
  BY Zenon, <1>8 DEF BarrierDown, control
<1>9. CASE PauseBegin
  BY Zenon, <1>9 DEF PauseBegin, control
<1>10. CASE PauseEnd
  BY Zenon, <1>10 DEF PauseEnd, control
<1>11. CASE StopBegin
  BY Zenon, <1>11 DEF StopBegin, control
<1>12. CASE StopSignal
  BY Zenon, <1>12 DEF StopSignal, control
<1>13. CASE StopJoin
  <2>1. \A c \in Control : Held(completed, c) => accepted[c]
    BY Zenon, PlaceIsOnly
  <2>2. /\ accepted' = [w \in Works |-> accepted[w] /\ ~Held(completed, w)]
       /\ refs' = [c \in Control |-> IF Held(completed, c) THEN refs[c] - 1 ELSE refs[c]]
       /\ holder' = holder
    BY Zenon, <1>13 DEF StopJoin
  <2>3. ASSUME NEW c \in Control
       PROVE  (accepted'[c] <=> accepted[c] /\ ~Held(completed, c)) /\ holder'[c] = holder[c]
    BY Zenon, <2>2
  <2>4. ASSUME NEW c \in Control
       PROVE  refs'[c] = (IF accepted'[c] THEN 1 ELSE 0)
                           + (IF holder'[c] \in {"none", "gone"} THEN 0 ELSE 1)
    <3>1. CASE Held(completed, c)
      <4>1. refs[c] = 1 + (IF holder[c] \in {"none", "gone"} THEN 0 ELSE 1)
        BY Zenon, <2>1, <3>1
      <4>2. refs'[c] = refs[c] - 1
        BY Zenon, <2>2, <3>1
      <4> QED
        BY <4>1, <4>2, <2>3, <3>1
    <3>2. CASE ~Held(completed, c)
      BY Zenon, <2>1, <2>2, <2>3, <3>2
    <3> QED
      BY Zenon, <3>1, <3>2
  <2> QED
    BY Zenon, <2>4
<1>14. CASE Prepare
  BY Zenon, <1>14 DEF Prepare, control
<1>15. CASE PollStop
  BY Zenon, <1>15 DEF PollStop, control
<1>16. CASE PollWake
  BY Zenon, <1>16 DEF PollWake, control
<1>17. CASE PollServe
  BY Zenon, <1>17 DEF PollServe, control
<1>18. ASSUME NEW w \in Works \cup {None}, Serve(w)
      PROVE  ControlReferences'
  <2>1. \A c \in Control : accepted'[c] = accepted[c]
    BY Zenon, <1>18 DEF Serve
  <2> QED
    BY Zenon, <1>18, <2>1 DEF Serve, control
<1>19. ASSUME NEW fail \in BOOLEAN, Resume(fail)
      PROVE  ControlReferences'
  BY Zenon, <1>19 DEF Resume, control
<1>20. CASE ResumeEnd
  BY Zenon, <1>20 DEF ResumeEnd, control
<1>21. CASE Take
  BY Zenon, <1>21 DEF Take, control
<1>22. CASE TakeEnd
  BY Zenon, <1>22 DEF TakeEnd, control
<1>23. CASE RunWait
  BY Zenon, <1>23 DEF RunWait, control
<1>24. CASE RunPublish
  BY Zenon, <1>24 DEF RunPublish, control
<1>25. CASE SendDone
  BY Zenon, <1>25 DEF SendDone, control
<1>26. CASE Retire
  BY Zenon, <1>26 DEF Retire, control
<1>27. CASE Exit
  BY Zenon, <1>27 DEF Exit, control
<1>28. ASSUME NEW w \in Works, Produce(w)
      PROVE  ControlReferences'
  BY Zenon, <1>28 DEF Produce, control
<1>29. ASSUME NEW w \in Works, Ring(w)
      PROVE  ControlReferences'
  BY Zenon, <1>29 DEF Ring, control
<1>30. ASSUME NEW c \in Control, Dispose(c)
      PROVE  ControlReferences'
  BY Zenon, <1>30 DEF Dispose
<1>31. ASSUME NEW c \in Control, DisposeCancel(c)
      PROVE  ControlReferences'
  BY Zenon, <1>31 DEF DisposeCancel
<1>32. ASSUME NEW c \in Control, DisposeRing(c)
      PROVE  ControlReferences'
  BY Zenon, <1>32 DEF DisposeRing
<1>33. ASSUME NEW c \in Control, DisposeRelease(c)
      PROVE  ControlReferences'
  BY <1>33 DEF DisposeRelease
<1> QED
  BY Zenon, <1>1, <1>2, <1>3, <1>4, <1>5, <1>6, <1>7, <1>8, <1>9, <1>10, <1>11,
     <1>12, <1>13, <1>14, <1>15, <1>16, <1>17, <1>18, <1>19, <1>20, <1>21,
     <1>22, <1>23, <1>24, <1>25, <1>26, <1>27, <1>28, <1>29, <1>30, <1>31,
     <1>32, <1>33 DEF Next, Supervisor, Worker, Others, Disposal

\* A record that the queue or its owner uses has a reference.
LEMMA ReferenceLeft ==
    ASSUME TypeOK, ControlReferences, NEW c \in Control,
           accepted[c] \/ holder[c] \notin {"none", "gone"}
    PROVE  refs[c] \in 1..2
<1>1. refs[c] \in 0..2
  BY Zenon DEF TypeOK
<1>2. refs[c] # 0
  BY DEF ControlReferences
<1> QED
  BY <1>1, <1>2


\* The types, group by group.
ListsOK ==
    /\ submitted \in Seq(Works) /\ waiting \in Seq(Works) /\ completed \in Seq(Works)
    /\ pass \in Seq(Works) /\ taken \in Seq(Works)
HandOK ==
    /\ hand \in Works \cup {None} /\ turn \in 0..Batch
    /\ wpc \in {"prepare", "poll", "resume", "take", "run", "send", "serve",
                "retire", "exited"}
    /\ wret \in {"prepare", "resume", "take", "retire"}
SwitchesOK ==
    /\ failing \in BOOLEAN /\ polled \in BOOLEAN
    /\ wake \in BOOLEAN /\ done \in BOOLEAN /\ stopfd \in BOOLEAN
SuperOK ==
    /\ spc \in {"loop", "wake", "detach", "deliver", "stop", "join", "freed"}
    /\ barrier \in BOOLEAN /\ recheck \in BOOLEAN
FlagsOK == pause \in {"none", "requested", "acknowledged"} /\ stopping \in BOOLEAN
AcceptedOK == accepted \in [Works -> BOOLEAN]
ContOK ==
    /\ await \in [Works -> {"no", "pending", "ready"}]
    /\ stage \in [Works -> 0..MaxStages]
    /\ bell \in SUBSET Works
ControlOK ==
    /\ result \in [Control -> BOOLEAN] /\ cancelled \in [Control -> BOOLEAN]
    /\ refs \in [Control -> 0..2]
    /\ holder \in [Control -> {"none", "held", "cancel", "ring", "release", "gone"}]

\* TypeOK is their conjunction.
LEMMA TypeGroups ==
    /\ TypeOK => /\ ListsOK /\ HandOK /\ SwitchesOK /\ SuperOK /\ FlagsOK /\ AcceptedOK
                 /\ ContOK /\ ControlOK
    /\ /\ ListsOK' /\ HandOK' /\ SwitchesOK' /\ SuperOK' /\ FlagsOK' /\ AcceptedOK'
       /\ ContOK' /\ ControlOK' /\ used' \in Launches
       => TypeOK'
BY Zenon DEF TypeOK, ListsOK, HandOK, SwitchesOK, SuperOK, FlagsOK, AcceptedOK, ContOK,
             ControlOK

\* A group that a step leaves alone keeps its types.
LEMMA GroupsStay ==
    /\ ListsOK /\ UNCHANGED lists => ListsOK'
    /\ HandOK /\ UNCHANGED <<hand, turn, wpc, wret>> => HandOK'
    /\ SwitchesOK /\ UNCHANGED <<failing, polled, signals>> => SwitchesOK'
    /\ SuperOK /\ UNCHANGED super => SuperOK'
    /\ FlagsOK /\ UNCHANGED flags => FlagsOK'
    /\ AcceptedOK /\ UNCHANGED accepted => AcceptedOK'
    /\ ContOK /\ UNCHANGED cont => ContOK'
    /\ ControlOK /\ UNCHANGED control => ControlOK'
<1>1. ListsOK /\ UNCHANGED lists => ListsOK'
  BY Zenon DEF ListsOK, lists
<1>2. HandOK /\ UNCHANGED <<hand, turn, wpc, wret>> => HandOK'
  BY Zenon DEF HandOK
<1>3. SwitchesOK /\ UNCHANGED <<failing, polled, signals>> => SwitchesOK'
  BY Zenon DEF SwitchesOK, signals
<1>4. SuperOK /\ UNCHANGED super => SuperOK'
  BY Zenon DEF SuperOK, super
<1>5. FlagsOK /\ UNCHANGED flags => FlagsOK'
  BY Zenon DEF FlagsOK, flags
<1>6. AcceptedOK /\ UNCHANGED accepted => AcceptedOK'
  BY Zenon DEF AcceptedOK
<1>7. ContOK /\ UNCHANGED cont => ContOK'
  BY Zenon DEF ContOK, cont
<1>8. ControlOK /\ UNCHANGED control => ControlOK'
  BY Zenon DEF ControlOK, control
<1> QED
  BY Zenon, <1>1, <1>2, <1>3, <1>4, <1>5, <1>6, <1>7, <1>8

\* Every step keeps the types.
LEMMA TypeNext ==
    ASSUME TypeOK, Positions, Custody, ControlReferences, Next
    PROVE  TypeOK'
<1>0. used' \in Launches
  BY Zenon DEF TypeOK, Next
<1>t. /\ ListsOK /\ HandOK /\ SwitchesOK /\ SuperOK /\ FlagsOK /\ AcceptedOK
      /\ ContOK /\ ControlOK
  BY Zenon, TypeGroups
<1>1. ASSUME NEW w \in Works, Submit(w)
      PROVE  TypeOK'
  <2>1. UNCHANGED <<hand, turn, wpc, wret, failing, polled, signals, flags, cont>>
    BY Zenon, <1>1 DEF Submit, worker, signals, flags, cont
  <2>2. ListsOK'
    BY Zenon, <1>1, <1>t, AppendProperties DEF Submit, ListsOK
  <2>3. SuperOK'
    BY Zenon, <1>1, <1>t DEF Submit, SuperOK
  <2>4. AcceptedOK'
    BY Zenon, <1>1, <1>t DEF Submit, AcceptedOK
  <2>5. ControlOK'
    BY <1>1, <1>t, WorkerAssumption DEF Submit, ControlOK
  <2> QED
    BY Zenon, <1>0, <1>t, <2>1, <2>2, <2>3, <2>4, <2>5, GroupsStay, TypeGroups
<1>2. CASE SendWake
  <2>1. UNCHANGED <<lists, hand, turn, wpc, wret, flags, accepted, cont, control>>
    BY Zenon, <1>2 DEF SendWake, lists, worker, flags, cont, control
  <2>2. SwitchesOK'
    BY Zenon, <1>2, <1>t DEF SendWake, SwitchesOK, worker
  <2>3. SuperOK'
    BY Zenon, <1>2, <1>t DEF SendWake, SuperOK
  <2> QED
    BY Zenon, <1>0, <1>t, <2>1, <2>2, <2>3, GroupsStay, TypeGroups
<1>3. CASE DispatchAcknowledge
  <2>1. UNCHANGED <<lists, hand, turn, wpc, wret, flags, accepted, cont, control>>
    BY Zenon, <1>3 DEF DispatchAcknowledge, lists, worker, flags, cont, control
  <2>2. SwitchesOK'
    BY Zenon, <1>3, <1>t DEF DispatchAcknowledge, SwitchesOK, worker
  <2>3. SuperOK'
    BY Zenon, <1>3, <1>t DEF DispatchAcknowledge, SuperOK
  <2> QED
    BY <1>0, <1>t, <2>1, <2>2, <2>3, GroupsStay, TypeGroups
<1>4. CASE DispatchDetach
  <2>1. UNCHANGED <<hand, turn, wpc, wret, failing, polled, signals, flags,
                  accepted, cont, control>>
    BY Zenon, <1>4 DEF DispatchDetach, worker, signals, flags, cont, control
  <2>2. ListsOK'
    BY Zenon, <1>4, <1>t, EmptySeq DEF DispatchDetach, ListsOK
  <2>3. SuperOK'
    BY Zenon, <1>4, <1>t DEF DispatchDetach, SuperOK
  <2> QED
    BY Zenon, <1>0, <1>t, <2>1, <2>2, <2>3, GroupsStay, TypeGroups
<1>5. CASE Deliver
  <2>1. UNCHANGED <<hand, turn, wpc, wret, failing, polled, signals, super,
                  flags, cont>>
    BY Zenon, <1>5 DEF Deliver, worker, signals, super, flags, cont
  <2>2. ListsOK'
    <3>1. taken \in Seq(Works) /\ taken # <<>> /\ completed \in Seq(Works)
      BY Zenon, <1>5, <1>t DEF Deliver, ListsOK
    <3>2. Head(taken) \in Works /\ Tail(taken) \in Seq(Works)
      BY Zenon, <3>1, HeadTailProperties
    <3>3. Append(completed, Head(taken)) \in Seq(Works)
      BY Zenon, <3>1, <3>2, AppendProperties
    <3>4. /\ completed' = Append(completed, Head(taken)) \/ completed' = completed
         /\ taken' = Tail(taken) /\ UNCHANGED <<submitted, waiting, pass>>
      BY Zenon, <1>5 DEF Deliver
    <3> QED
      BY Zenon, <1>t, <3>2, <3>3, <3>4 DEF ListsOK
  <2>3. AcceptedOK'
    BY Zenon, <1>5, <1>t DEF Deliver, AcceptedOK
  <2>4. ControlOK'
    <3>1. Head(taken) \in Works /\ accepted[Head(taken)]
      BY Zenon, <1>5, <1>t, HeldTail, PlaceIsOnly DEF Deliver, Custody, ListsOK
    <3>2. Head(taken) \in Control => refs[Head(taken)] \in 1..2
      BY Zenon, <3>1, ReferenceLeft
    <3>3. refs' = refs \/ Release(Head(taken))
      BY Zenon, <1>5 DEF Deliver
    <3>4. refs \in [Control -> 0..2]
      BY Zenon, <1>t DEF ControlOK
    <3>5. refs' \in [Control -> 0..2]
      BY <3>2, <3>3, <3>4 DEF Release
    <3>6. UNCHANGED <<result, cancelled, holder>>
      BY Zenon, <1>5 DEF Deliver
    <3> QED
      BY Zenon, <1>t, <3>5, <3>6 DEF ControlOK
  <2> QED
    BY Zenon, <1>0, <1>t, <2>1, <2>2, <2>3, <2>4, GroupsStay, TypeGroups
<1>6. CASE DispatchEnd
  <2>1. UNCHANGED <<lists, hand, turn, wpc, wret, failing, polled, signals,
                  accepted, cont, control>>
    BY Zenon, <1>6 DEF DispatchEnd, lists, worker, signals, cont, control
  <2>2. SuperOK'
    BY Zenon, <1>6, <1>t DEF DispatchEnd, SuperOK
  <2>3. FlagsOK'
    BY Zenon, <1>6, <1>t DEF DispatchEnd, FlagsOK
  <2> QED
    BY Zenon, <1>0, <1>t, <2>1, <2>2, <2>3, GroupsStay, TypeGroups
<1>7. CASE BarrierUp
  <2>1. UNCHANGED <<lists, hand, turn, wpc, wret, failing, polled, signals,
                  flags, accepted, cont, control>>
    BY Zenon, <1>7 DEF BarrierUp, lists, worker, signals, flags, cont, control
  <2>2. SuperOK'
    BY Zenon, <1>7, <1>t DEF BarrierUp, SuperOK
  <2> QED
    BY Zenon, <1>0, <1>t, <2>1, <2>2, GroupsStay, TypeGroups
<1>8. CASE BarrierDown
  <2>1. UNCHANGED <<lists, hand, turn, wpc, wret, failing, polled, signals,
                  flags, accepted, cont, control>>
    BY Zenon, <1>8 DEF BarrierDown, lists, worker, signals, flags, cont, control
  <2>2. SuperOK'
    BY Zenon, <1>8, <1>t DEF BarrierDown, SuperOK
  <2> QED
    BY <1>0, <1>t, <2>1, <2>2, GroupsStay, TypeGroups
<1>9. CASE PauseBegin
  <2>1. UNCHANGED <<lists, hand, turn, wpc, wret, failing, polled, signals,
                  accepted, cont, control>>
    BY Zenon, <1>9 DEF PauseBegin, lists, worker, signals, cont, control
  <2>2. SuperOK'
    BY Zenon, <1>9, <1>t DEF PauseBegin, SuperOK
  <2>3. FlagsOK'
    BY Zenon, <1>9, <1>t DEF PauseBegin, FlagsOK
  <2> QED
    BY <1>0, <1>t, <2>1, <2>2, <2>3, GroupsStay, TypeGroups
<1>10. CASE PauseEnd
  <2>1. UNCHANGED <<lists, hand, turn, wpc, wret, failing, polled, signals,
                  accepted, cont, control>>
    BY Zenon, <1>10 DEF PauseEnd, lists, worker, signals, cont, control
  <2>2. SuperOK'
    BY Zenon, <1>10, <1>t DEF PauseEnd, SuperOK
  <2>3. FlagsOK'
    BY Zenon, <1>10, <1>t DEF PauseEnd, FlagsOK
  <2> QED
    BY <1>0, <1>t, <2>1, <2>2, <2>3, GroupsStay, TypeGroups
<1>11. CASE StopBegin
  <2>1. UNCHANGED <<lists, hand, turn, wpc, wret, failing, polled, signals,
                  accepted, cont, control>>
    BY Zenon, <1>11 DEF StopBegin, lists, worker, signals, cont, control
  <2>2. SuperOK'
    BY Zenon, <1>11, <1>t DEF StopBegin, SuperOK
  <2>3. FlagsOK'
    BY Zenon, <1>11, <1>t DEF StopBegin, FlagsOK
  <2> QED
    BY <1>0, <1>t, <2>1, <2>2, <2>3, GroupsStay, TypeGroups
<1>12. CASE StopSignal
  <2>1. UNCHANGED <<lists, hand, turn, wpc, wret, flags, accepted, cont, control>>
    BY Zenon, <1>12 DEF StopSignal, lists, worker, flags, cont, control
  <2>2. SwitchesOK'
    BY Zenon, <1>12, <1>t DEF StopSignal, SwitchesOK, worker
  <2>3. SuperOK'
    BY Zenon, <1>12, <1>t DEF StopSignal, SuperOK
  <2> QED
    BY <1>0, <1>t, <2>1, <2>2, <2>3, GroupsStay, TypeGroups
<1>13. CASE StopJoin
  <2>1. UNCHANGED <<hand, turn, wpc, wret, failing, polled, signals, cont>>
    BY Zenon, <1>13 DEF StopJoin, worker, signals, cont
  <2>2. ListsOK'
    BY Zenon, <1>13, <1>t, EmptySeq DEF StopJoin, ListsOK
  <2>3. SuperOK'
    BY Zenon, <1>13, <1>t DEF StopJoin, SuperOK
  <2>4. FlagsOK'
    BY Zenon, <1>13, <1>t DEF StopJoin, FlagsOK
  <2>5. AcceptedOK'
    BY Zenon, <1>13, <1>t DEF StopJoin, AcceptedOK
  <2>6. ControlOK'
    <3>1. \A c \in Control : Held(completed, c) => refs[c] \in 1..2
      BY Zenon, PlaceIsOnly, ReferenceLeft, WorkerAssumption
    <3>2. /\ refs' = [c \in Control |-> IF Held(completed, c) THEN refs[c] - 1 ELSE refs[c]]
         /\ UNCHANGED <<result, cancelled, holder>>
      BY Zenon, <1>13 DEF StopJoin
    <3>3. refs \in [Control -> 0..2]
      BY <1>t DEF ControlOK
    <3>4. refs' \in [Control -> 0..2]
      BY <3>1, <3>2, <3>3
    <3> QED
      BY Zenon, <1>t, <3>2, <3>4 DEF ControlOK
  <2> QED
    BY Zenon, <1>0, <1>t, <2>1, <2>2, <2>3, <2>4, <2>5, <2>6, GroupsStay, TypeGroups
<1>14. CASE Prepare
  <2>1. UNCHANGED <<lists, super, accepted, cont, control>>
    BY Zenon, <1>14 DEF Prepare, lists, super, cont, control
  <2>2. HandOK'
    BY Zenon, <1>14, <1>t DEF Prepare, HandOK
  <2>3. SwitchesOK'
    BY Zenon, <1>14, <1>t DEF Prepare, SwitchesOK
  <2>4. FlagsOK'
    BY Zenon, <1>14, <1>t DEF Prepare, FlagsOK
  <2> QED
    BY Zenon, <1>0, <1>t, <2>1, <2>2, <2>3, <2>4, GroupsStay, TypeGroups
<1>15. CASE PollStop
  <2>1. UNCHANGED <<lists, super, accepted, cont, control>>
    BY Zenon, <1>15 DEF PollStop, lists, super, cont, control
  <2>2. HandOK'
    BY Zenon, <1>15, <1>t DEF PollStop, HandOK
  <2>3. SwitchesOK'
    BY Zenon, <1>15, <1>t DEF PollStop, SwitchesOK, signals
  <2>4. FlagsOK'
    BY Zenon, <1>15, <1>t DEF PollStop, FlagsOK
  <2> QED
    BY <1>0, <1>t, <2>1, <2>2, <2>3, <2>4, GroupsStay, TypeGroups
<1>16. CASE PollWake
  <2>1. UNCHANGED <<super, flags, accepted, cont, control>>
    BY Zenon, <1>16 DEF PollWake, super, flags, cont, control
  <2>2. ListsOK'
    BY Zenon, <1>16, <1>t, EmptySeq DEF PollWake, ListsOK
  <2>3. HandOK'
    BY <1>16, <1>t, WorkerAssumption DEF PollWake, HandOK
  <2>4. SwitchesOK'
    BY Zenon, <1>16, <1>t DEF PollWake, SwitchesOK
  <2> QED
    BY Zenon, <1>0, <1>t, <2>1, <2>2, <2>3, <2>4, GroupsStay, TypeGroups
<1>17. CASE PollServe
  <2>1. UNCHANGED <<lists, failing, polled, signals, super, flags, accepted,
                  cont, control>>
    BY Zenon, <1>17 DEF PollServe, lists, worker, signals, super, flags, cont, control
  <2>2. HandOK'
    BY Zenon, <1>17, <1>t DEF PollServe, HandOK
  <2> QED
    BY Zenon, <1>0, <1>t, <2>1, <2>2, GroupsStay, TypeGroups
<1>18. ASSUME NEW w \in Works \cup {None}, Serve(w)
      PROVE  TypeOK'
  <2>1. UNCHANGED <<failing, polled, signals, super, flags, cont, control>>
    BY Zenon, <1>18 DEF Serve, worker, signals, super, flags, cont, control
  <2>2. ListsOK'
    <3>1. completed' = completed \/ (w \in Works /\ completed' = Append(completed, w))
      BY Zenon, <1>18 DEF Serve
    <3>2. completed \in Seq(Works)
      BY Zenon, <1>t DEF ListsOK
    <3>3. completed' \in Seq(Works)
      BY <3>1, <3>2, AppendProperties
    <3> QED
      BY Zenon, <1>18, <1>t, <3>3 DEF Serve, ListsOK
  <2>3. HandOK'
    BY Zenon, <1>18, <1>t DEF Serve, HandOK
  <2>4. AcceptedOK'
    BY Zenon, <1>18, <1>t DEF Serve, AcceptedOK
  <2> QED
    BY Zenon, <1>0, <1>t, <2>1, <2>2, <2>3, <2>4, GroupsStay, TypeGroups
<1>19. ASSUME NEW fail \in BOOLEAN, Resume(fail)
      PROVE  TypeOK'
  <2>1. UNCHANGED <<super, flags, accepted, cont, control>>
    BY Zenon, <1>19 DEF Resume, super, flags, cont, control
  <2>2. ListsOK'
    <3>1. pass \in Seq(Works) /\ pass # <<>> /\ waiting \in Seq(Works)
      BY Zenon, <1>19, <1>t DEF Resume, ListsOK
    <3>2. Head(pass) \in Works /\ Tail(pass) \in Seq(Works)
      BY Zenon, <3>1, HeadTailProperties
    <3>3. Append(waiting, Head(pass)) \in Seq(Works)
      BY Zenon, <3>1, <3>2, AppendProperties
    <3>4. /\ waiting' = Append(waiting, Head(pass)) \/ waiting' = waiting
         /\ pass' = Tail(pass) /\ UNCHANGED <<submitted, completed, taken>>
      BY Zenon, <1>19 DEF Resume
    <3> QED
      BY Zenon, <1>t, <3>2, <3>3, <3>4 DEF ListsOK
  <2>3. HandOK'
    <3>1. Head(pass) \in Works
      BY Zenon, <1>19, <1>t, HeadTailProperties DEF Resume, ListsOK
    <3> QED
      BY <1>19, <1>t, <3>1, WorkerAssumption DEF Resume, HandOK
  <2>4. SwitchesOK'
    BY Zenon, <1>19, <1>t DEF Resume, SwitchesOK, signals
  <2> QED
    BY Zenon, <1>0, <1>t, <2>1, <2>2, <2>3, <2>4, GroupsStay, TypeGroups
<1>20. CASE ResumeEnd
  <2>1. UNCHANGED <<lists, super, flags, accepted, cont, control>>
    BY Zenon, <1>20 DEF ResumeEnd, lists, super, flags, cont, control
  <2>2. HandOK'
    BY <1>20, <1>t, WorkerAssumption DEF ResumeEnd, HandOK
  <2>3. SwitchesOK'
    BY Zenon, <1>20, <1>t DEF ResumeEnd, SwitchesOK
  <2> QED
    BY Zenon, <1>0, <1>t, <2>1, <2>2, <2>3, GroupsStay, TypeGroups
<1>21. CASE Take
  <2>1. UNCHANGED <<super, flags, accepted, cont, control>>
    BY Zenon, <1>21 DEF Take, super, flags, cont, control
  <2>2. ListsOK'
    BY Zenon, <1>21, <1>t, HeadTailProperties DEF Take, ListsOK
  <2>3. HandOK'
    <3>1. Head(submitted) \in Works
      BY Zenon, <1>21, <1>t, HeadTailProperties DEF Take, ListsOK
    <3> QED
      BY <1>21, <1>t, <3>1, WorkerAssumption DEF Take, HandOK
  <2>4. SwitchesOK'
    BY Zenon, <1>21, <1>t DEF Take, SwitchesOK, FlagsOK, signals
  <2> QED
    BY <1>0, <1>t, <2>1, <2>2, <2>3, <2>4, GroupsStay, TypeGroups
<1>22. CASE TakeEnd
  <2>1. UNCHANGED <<lists, super, flags, accepted, cont, control>>
    BY Zenon, <1>22 DEF TakeEnd, lists, super, flags, cont, control
  <2>2. HandOK'
    <3>1. wpc' \in {"prepare", "serve"} /\ turn' = 0 /\ UNCHANGED <<hand, wret>>
      BY Zenon, <1>22 DEF TakeEnd
    <3> QED
      BY <1>t, <3>1, WorkerAssumption DEF HandOK
  <2>3. SwitchesOK'
    BY Zenon, <1>22, <1>t DEF TakeEnd, SwitchesOK
  <2> QED
    BY <1>0, <1>t, <2>1, <2>2, <2>3, GroupsStay, TypeGroups
<1>23. CASE RunWait
  <2>1. UNCHANGED <<failing, polled, signals, super, flags, accepted, control>>
    BY Zenon, <1>23 DEF RunWait, worker, signals, super, flags, control
  <2>2. ListsOK'
    <3>1. hand \in Works
      BY Zenon, <1>23, <1>t DEF RunWait, Positions, HandOK
    <3> QED
      BY Zenon, <1>23, <1>t, <3>1, AppendProperties DEF RunWait, ListsOK
  <2>3. HandOK'
    BY Zenon, <1>23, <1>t DEF RunWait, HandOK
  <2>4. ContOK'
    <3>1. hand \in Works
      BY <1>23, <1>t DEF RunWait, Positions, HandOK
    <3> QED
      BY SMTT(30), <1>23, <1>t, <3>1, WorkerAssumption DEF RunWait, ContOK
  <2> QED
    BY Zenon, <1>0, <1>t, <2>1, <2>2, <2>3, <2>4, GroupsStay, TypeGroups
<1>24. CASE RunPublish
  <2>1. UNCHANGED <<super, flags, accepted>>
    BY Zenon, <1>24 DEF RunPublish, super, flags
  <2>2. ListsOK'
    <3>1. hand \in Works
      BY Zenon, <1>24, <1>t DEF RunPublish, Positions, HandOK
    <3> QED
      BY Zenon, <1>24, <1>t, <3>1, AppendProperties DEF RunPublish, ListsOK
  <2>3. HandOK'
    BY Zenon, <1>24, <1>t DEF RunPublish, HandOK
  <2>4. SwitchesOK'
    BY Zenon, <1>24, <1>t DEF RunPublish, SwitchesOK, signals
  <2>5. ContOK'
    <3>1. hand \in Works
      BY <1>24, <1>t DEF RunPublish, Positions, HandOK
    <3> QED
      BY SMTT(30), <1>24, <1>t, <3>1, WorkerAssumption DEF RunPublish, ContOK
  <2>6. ControlOK'
    <3>1. result' \in [Control -> BOOLEAN]
      BY Zenon, <1>24 DEF RunPublish
    <3> QED
      BY Zenon, <1>24, <1>t, <3>1 DEF RunPublish, ControlOK
  <2> QED
    BY Zenon, <1>0, <1>t, <2>1, <2>2, <2>3, <2>4, <2>5, <2>6, GroupsStay, TypeGroups
<1>25. CASE SendDone
  <2>1. UNCHANGED <<lists, super, flags, accepted, cont, control>>
    BY Zenon, <1>25 DEF SendDone, lists, super, flags, cont, control
  <2>2. HandOK'
    BY Zenon, <1>25, <1>t DEF SendDone, HandOK
  <2>3. SwitchesOK'
    BY Zenon, <1>25, <1>t DEF SendDone, SwitchesOK
  <2> QED
    BY <1>0, <1>t, <2>1, <2>2, <2>3, GroupsStay, TypeGroups
<1>26. CASE Retire
  <2>1. UNCHANGED <<super, flags, accepted, cont, control>>
    BY Zenon, <1>26 DEF Retire, super, flags, cont, control
  <2>2. ListsOK'
    <3>1. CASE waiting # <<>>
      BY Zenon, <1>26, <1>t, <3>1, HeadTailProperties DEF Retire, ListsOK
    <3>2. CASE waiting = <<>>
      BY Zenon, <1>26, <1>t, <3>2, HeadTailProperties DEF Retire, ListsOK
    <3> QED
      BY Zenon, <3>1, <3>2
  <2>3. HandOK'
    <3>1. hand' \in Works
      BY Zenon, <1>26, <1>t, HeadTailProperties DEF Retire, ListsOK
    <3> QED
      BY Zenon, <1>26, <1>t, <3>1 DEF Retire, HandOK
  <2>4. SwitchesOK'
    BY Zenon, <1>26, <1>t DEF Retire, SwitchesOK, signals
  <2> QED
    BY <1>0, <1>t, <2>1, <2>2, <2>3, <2>4, GroupsStay, TypeGroups
<1>27. CASE Exit
  <2>1. UNCHANGED <<lists, super, flags, accepted, cont, control>>
    BY Zenon, <1>27 DEF Exit, lists, super, flags, cont, control
  <2>2. HandOK'
    BY Zenon, <1>27, <1>t DEF Exit, HandOK
  <2>3. SwitchesOK'
    BY Zenon, <1>27, <1>t DEF Exit, SwitchesOK
  <2> QED
    BY <1>0, <1>t, <2>1, <2>2, <2>3, GroupsStay, TypeGroups
<1>28. ASSUME NEW w \in Works, Produce(w)
      PROVE  TypeOK'
  <2>1. UNCHANGED <<lists, hand, turn, wpc, wret, failing, polled, signals,
                  super, flags, accepted, control>>
    BY Zenon, <1>28 DEF Produce, lists, worker, signals, super, flags, control
  <2>2. ContOK'
    BY Zenon, <1>28, <1>t DEF Produce, ContOK
  <2> QED
    BY Zenon, <1>0, <1>t, <2>1, <2>2, GroupsStay, TypeGroups
<1>29. ASSUME NEW w \in Works, Ring(w)
      PROVE  TypeOK'
  <2>1. UNCHANGED <<lists, hand, turn, wpc, wret, super, flags, accepted,
                  control>>
    BY Zenon, <1>29 DEF Ring, lists, worker, super, flags, control
  <2>2. SwitchesOK'
    BY Zenon, <1>29, <1>t DEF Ring, SwitchesOK, worker
  <2>3. ContOK'
    BY Zenon, <1>29, <1>t DEF Ring, ContOK
  <2> QED
    BY Zenon, <1>0, <1>t, <2>1, <2>2, <2>3, GroupsStay, TypeGroups
<1>30. ASSUME NEW c \in Control, Dispose(c)
      PROVE  TypeOK'
  <2>1. UNCHANGED <<lists, hand, turn, wpc, wret, failing, polled, signals,
                  super, flags, accepted, cont>>
    BY Zenon, <1>30 DEF Dispose, lists, worker, signals, super, flags, cont
  <2>2. ControlOK'
    BY Zenon, <1>30, <1>t DEF Dispose, ControlOK
  <2> QED
    BY Zenon, <1>0, <1>t, <2>1, <2>2, GroupsStay, TypeGroups
<1>31. ASSUME NEW c \in Control, DisposeCancel(c)
      PROVE  TypeOK'
  <2>1. UNCHANGED <<lists, hand, turn, wpc, wret, failing, polled, signals,
                  super, flags, accepted, cont>>
    BY Zenon, <1>31 DEF DisposeCancel, lists, worker, signals, super, flags, cont
  <2>2. ControlOK'
    BY Zenon, <1>31, <1>t DEF DisposeCancel, ControlOK
  <2> QED
    BY <1>0, <1>t, <2>1, <2>2, GroupsStay, TypeGroups
<1>32. ASSUME NEW c \in Control, DisposeRing(c)
      PROVE  TypeOK'
  <2>1. UNCHANGED <<lists, hand, turn, wpc, wret, super, flags, accepted, cont>>
    BY Zenon, <1>32 DEF DisposeRing, lists, worker, super, flags, cont
  <2>2. SwitchesOK'
    BY Zenon, <1>32, <1>t DEF DisposeRing, SwitchesOK, worker
  <2>3. ControlOK'
    BY Zenon, <1>32, <1>t DEF DisposeRing, ControlOK
  <2> QED
    BY Zenon, <1>0, <1>t, <2>1, <2>2, <2>3, GroupsStay, TypeGroups
<1>33. ASSUME NEW c \in Control, DisposeRelease(c)
      PROVE  TypeOK'
  <2>1. UNCHANGED <<lists, hand, turn, wpc, wret, failing, polled, signals,
                  super, flags, accepted, cont>>
    BY Zenon, <1>33 DEF DisposeRelease, lists, worker, signals, super, flags, cont
  <2>2. ControlOK'
    <3>1. refs[c] \in 1..2
      BY Zenon, <1>33, ReferenceLeft DEF DisposeRelease
    <3> QED
      BY <1>33, <1>t, <3>1 DEF DisposeRelease, ControlOK
  <2> QED
    BY <1>0, <1>t, <2>1, <2>2, GroupsStay, TypeGroups
<1> QED
  BY Zenon, <1>1, <1>2, <1>3, <1>4, <1>5, <1>6, <1>7, <1>8, <1>9, <1>10, <1>11,
     <1>12, <1>13, <1>14, <1>15, <1>16, <1>17, <1>18, <1>19, <1>20, <1>21,
     <1>22, <1>23, <1>24, <1>25, <1>26, <1>27, <1>28, <1>29, <1>30, <1>31,
     <1>32, <1>33 DEF Next, Supervisor, Worker, Others, Disposal

-----------------------------------------------------------------------------
\* The invariant and what it implies.

\* A started worker has accepted nothing and is paused by nobody.
LEMMA InitInv == Init => IInv
<1> SUFFICES ASSUME Init
             PROVE  IInv
  BY Zenon
<1>1. TypeOK
  <2>1. /\ submitted \in Seq(Works) /\ waiting \in Seq(Works) /\ completed \in Seq(Works)
        /\ pass \in Seq(Works) /\ taken \in Seq(Works)
    BY Zenon, EmptySeq DEF Init
  <2>2. /\ failing \in BOOLEAN /\ polled \in BOOLEAN /\ wake \in BOOLEAN /\ done \in BOOLEAN
        /\ stopfd \in BOOLEAN /\ stopping \in BOOLEAN /\ barrier \in BOOLEAN
        /\ recheck \in BOOLEAN
    BY Zenon DEF Init
  <2>3. accepted \in [Works -> BOOLEAN]
    BY Zenon DEF Init
  <2>4. result \in [Control -> BOOLEAN] /\ cancelled \in [Control -> BOOLEAN]
    BY Zenon DEF Init
  <2>5. turn \in 0..Batch /\ stage \in [Works -> 0..MaxStages]
    BY WorkerAssumption DEF Init
  <2>6. /\ hand \in Works \cup {None} /\ wpc = "prepare" /\ wret = "prepare" /\ pause = "none"
        /\ spc = "loop" /\ bell \in SUBSET Works /\ used \in Launches
    BY Zenon DEF Init
  <2>7. /\ await \in [Works -> {"no", "pending", "ready"}]
        /\ refs \in [Control -> 0..2]
        /\ holder \in [Control -> {"none", "held", "cancel", "ring", "release", "gone"}]
    BY DEF Init
  <2> QED
    BY Zenon, <2>1, <2>2, <2>3, <2>4, <2>5, <2>6, <2>7 DEF TypeOK
<1>2. Custody
  BY HeldNowhere, WorkerAssumption DEF Init, Custody, Places, Count
<1>3. Positions /\ ExitedEmpty /\ PauseIsQuiet /\ PauseIsPolled /\ NoLostSignal
  BY Zenon DEF Init, Positions, ExitedEmpty, PauseIsQuiet, PauseIsPolled, NoLostSignal
<1>4. ControlReferences
  BY WorkerAssumption DEF Init, ControlReferences
<1> QED
  BY Zenon, <1>1, <1>2, <1>3, <1>4 DEF IInv

\* Every step of either thread, of a producer or of an owner keeps it.
LEMMA StepInv == IInv /\ [Next]_all => IInv'
<1>1. ASSUME IInv, Next
      PROVE  IInv'
  <2>1. /\ TypeOK /\ Positions /\ Custody /\ ExitedEmpty /\ ControlReferences
        /\ PauseIsQuiet /\ PauseIsPolled /\ NoLostSignal /\ Next
    BY Zenon, <1>1 DEF IInv
  <2>2. TypeOK' /\ Positions' /\ Custody' /\ ExitedEmpty' /\ ControlReferences'
    BY Zenon, <2>1, TypeNext, PositionsNext, CustodyNext, ExitedNext, ReferencesNext
  <2>3. PauseIsQuiet' /\ PauseIsPolled' /\ NoLostSignal'
    BY Zenon, <2>1, QuietNext, SignalNext
  <2> QED
    BY Zenon, <2>2, <2>3 DEF IInv
<1>2. ASSUME IInv, UNCHANGED all
      PROVE  IInv'
  <2>1. UNCHANGED <<lists, worker, signals, super, flags, accepted, cont, control, used>>
    BY Zenon, <1>2 DEF all, vars
  <2>2. Positions' /\ ExitedEmpty' /\ ControlReferences'
    BY Zenon, <1>2, <2>1 DEF IInv, Positions, ExitedEmpty, ControlReferences,
                      lists, worker, super, flags, control
  <2>5. TypeOK'
    BY Zenon, <1>2, <2>1, TypeGroups, GroupsStay DEF IInv, TypeOK, worker
  <2>3. Custody'
    BY Zenon, <1>2, <2>1, CustodyStays DEF IInv, worker
  <2>4. PauseIsQuiet' /\ PauseIsPolled' /\ NoLostSignal'
    BY Zenon, <1>2, <2>1 DEF IInv, PauseIsQuiet, PauseIsPolled, NoLostSignal,
                      lists, worker, signals, super, flags
  <2> QED
    BY Zenon, <2>2, <2>3, <2>4, <2>5 DEF IInv
<1> QED
  BY Zenon, <1>1, <1>2

\* The inductive invariant holds in every reachable state of the worker, its
\* supervisor, the producers of answers and the owners of control operations.
THEOREM Invariance == Spec => []IInv
<1> QED
  BY InitInv, StepInv, PTL DEF Spec

\* Whatever the number of records and the size of a batch, an accepted record is
\* on exactly one list or in the worker's hand, never twice on a list, and an
\* exited thread has none: md_fs_worker_submit, run_ready, resume_ready,
\* execute_work, retire_work and md_fs_worker_dispatch hand it on.
THEOREM RecordsHaveOneCustodian == Spec => []OneCustodian
<1>1. IInv => OneCustodian
  BY Zenon DEF IInv, OneCustodian, Custody, ExitedEmpty
<1> QED
  BY <1>1, Invariance, PTL

\* md_fs_worker_pause's answer 1 means that no namespace work is going on.
THEOREM PausesAreQuiet == Spec => []PauseIsQuiet
<1>1. IInv => PauseIsQuiet
  BY Zenon DEF IInv
<1> QED
  BY <1>1, Invariance, PTL

\* A queue changed under the mutex and signalled after it loses no signal.
THEOREM SignalsAreKept == Spec => []NoLostSignal
<1>1. IInv => NoLostSignal
  BY Zenon DEF IInv
<1> QED
  BY <1>1, Invariance, PTL

\* control_release counts the queue and the pending owner, whoever is last.
THEOREM ReferencesCounted == Spec => []ControlReferences
<1>1. IInv => ControlReferences
  BY Zenon DEF IInv
<1> QED
  BY <1>1, Invariance, PTL
=============================================================================
