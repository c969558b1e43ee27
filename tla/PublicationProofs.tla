-------------------------- MODULE PublicationProofs --------------------------
(***************************************************************************)
(* Proofs about Publication: for any owners, leaves and number of faults,  *)
(* operations see whole namespaces, recovery finds what it needs, and      *)
(* watches are told the beginning and the end of every publication.        *)
(***************************************************************************)
EXTENDS Publication, TLAPS

Before == {"sync", "hint", "record"}
During == {"check", "move", "settle", "commit"}
After == {"end", "clear"}

\* What the step of an owner says about its leaf and the intent.
Inside ==
    \A o \in Owners :
        /\ pc[o] \in Before \cup During \cup After => o \notin Inspectors /\ leaf[o] \in Leaves
        /\ pc[o] \in {"operating"} \cup Before \cup After => intent = None
        /\ pc[o] \in During => intent = leaf[o]
        /\ pc[o] \in Before => loc[leaf[o]] = "native"
        /\ pc[o] \in {"hint", "record"} => durable[leaf[o]] = {"native"}
        /\ pc[o] \in {"settle", "commit"} => loc[leaf[o]] = "object"
        /\ pc[o] = "commit" => durable[leaf[o]] = {"object"}

\* A body is an object only if rows or the intent say so.
Bodies ==
    /\ \A f \in Leaves : "object" \in durable[f] => loc[f] = "object"
    /\ \A f \in Leaves : loc[f] = "object" => f \in catalogue \/ f = intent
    /\ \A f \in catalogue : durable[f] = {"object"}
    /\ intent # None => durable[intent] \subseteq {"native", "object"}

\* Whoever could enter without recovery knows of the intent.
Hinted ==
    /\ intent # None /\ opened # {} => pending
    /\ \A o \in Owners : pc[o] \in {"record"} \cup During \cup After => pending

\* A watch is between the markers only while somebody publishes or the hint
\* sends the next one through recovery.
Watched ==
    /\ publishing => pending
    /\ \A o \in Owners : publishing => /\ pc[o] \notin Before \cup {"clear"}
                                       /\ pc[o] = "operating" => o \in Inspectors
    /\ \A o \in Owners : pc[o] = "move" /\ watcher # None => publishing

IInv == TypeOK /\ Inside /\ Bodies /\ Hinted /\ Watched

\* Enter keeps the invariant.
LEMMA EnterStep ==
    ASSUME IInv, NEW o \in Owners, Enter(o)
    PROVE  IInv'
<1>0. \A x \in Owners : x # o => pc[x] = "out"
  BY Zenon, NoneAssumption DEF IInv, TypeOK, At, Goto, Enter
<1>1. TypeOK'
  BY <1>0, NoneAssumption DEF IInv, TypeOK, Inside, Before, During, After, Places, At, Goto, Enter
<1>2. Inside'
  BY <1>0, NoneAssumption DEF IInv, TypeOK, Inside, Bodies, Hinted, Watched, Before, During, After, At, Goto, Enter
<1>3. Bodies'
  BY Zenon, <1>0, NoneAssumption DEF IInv, TypeOK, Inside, Bodies, Before, During, After, At, Goto, Enter
<1>4. Hinted'
  BY ZenonT(30), <1>0, NoneAssumption DEF IInv, TypeOK, Inside, Hinted, Before, During, After, At, Goto, Enter
<1>5. Watched'
  BY <1>0, NoneAssumption DEF IInv, TypeOK, Inside, Hinted, Watched, Before, During, After, At, Goto, Enter
<1> QED
  BY Zenon, <1>1, <1>2, <1>3, <1>4, <1>5 DEF IInv

\* RecoverNone keeps the invariant.
LEMMA RecoverNoneStep ==
    ASSUME IInv, NEW o \in Owners, RecoverNone(o)
    PROVE  IInv'
<1>0. \A x \in Owners : x # o => pc[x] = "out"
  BY Zenon, NoneAssumption DEF IInv, TypeOK, At, Goto, RecoverNone
<1>1. TypeOK'
  BY <1>0, NoneAssumption DEF IInv, TypeOK, Inside, Before, During, After, Places, At, Goto, RecoverNone
<1>2. Inside'
  BY <1>0, NoneAssumption DEF IInv, TypeOK, Inside, Bodies, Hinted, Watched, Before, During, After, At, Goto, RecoverNone
<1>3. Bodies'
  BY Zenon, <1>0, NoneAssumption DEF IInv, TypeOK, Inside, Bodies, Before, During, After, At, Goto, RecoverNone
<1>4. Hinted'
  BY <1>0, NoneAssumption DEF IInv, TypeOK, Inside, Hinted, Before, During, After, At, Goto, RecoverNone
<1>5. Watched'
  BY ZenonT(30), <1>0, NoneAssumption DEF IInv, TypeOK, Inside, Hinted, Watched, Before, During, After, At, Goto, RecoverNone
<1> QED
  BY <1>1, <1>2, <1>3, <1>4, <1>5 DEF IInv

\* RecoverBusy keeps the invariant.
LEMMA RecoverBusyStep ==
    ASSUME IInv, NEW o \in Owners, RecoverBusy(o)
    PROVE  IInv'
<1>0. \A x \in Owners : x # o => pc[x] = "out"
  BY Zenon, NoneAssumption DEF IInv, TypeOK, At, Goto, RecoverBusy, Unlock
<1>1. TypeOK'
  BY <1>0, NoneAssumption DEF IInv, TypeOK, Inside, Before, During, After, Places, At, Goto, RecoverBusy, Unlock
<1>2. Inside'
  BY <1>0, NoneAssumption DEF IInv, TypeOK, Inside, Bodies, Hinted, Watched, Before, During, After, At, Goto, RecoverBusy, Unlock
<1>3. Bodies'
  BY Zenon, <1>0, NoneAssumption DEF IInv, TypeOK, Inside, Bodies, Before, During, After, At, Goto, RecoverBusy, Unlock
<1>4. Hinted'
  BY <1>0, NoneAssumption DEF IInv, TypeOK, Inside, Hinted, Before, During, After, At, Goto, RecoverBusy, Unlock
<1>5. Watched'
  BY <1>0, NoneAssumption DEF IInv, TypeOK, Inside, Hinted, Watched, Before, During, After, At, Goto, RecoverBusy, Unlock
<1> QED
  BY <1>1, <1>2, <1>3, <1>4, <1>5 DEF IInv

\* RecoverBegin keeps the invariant.
LEMMA RecoverBeginStep ==
    ASSUME IInv, NEW o \in Owners, RecoverBegin(o)
    PROVE  IInv'
<1>0. \A x \in Owners : x # o => pc[x] = "out"
  BY Zenon, NoneAssumption DEF IInv, TypeOK, At, Goto, RecoverBegin
<1>1. TypeOK'
  BY <1>0, NoneAssumption DEF IInv, TypeOK, Inside, Before, During, After, Places, At, Goto, RecoverBegin
<1>2. Inside'
  BY <1>0, NoneAssumption DEF IInv, TypeOK, Inside, Bodies, Hinted, Watched, Before, During, After, At, Goto, RecoverBegin
<1>3. Bodies'
  BY Zenon, <1>0, NoneAssumption DEF IInv, TypeOK, Inside, Bodies, Before, During, After, At, Goto, RecoverBegin
<1>4. Hinted'
  BY Zenon, <1>0, NoneAssumption DEF IInv, TypeOK, Inside, Hinted, Before, During, After, At, Goto, RecoverBegin
<1>5. Watched'
  BY <1>0, NoneAssumption DEF IInv, TypeOK, Inside, Hinted, Watched, Before, During, After, At, Goto, RecoverBegin
<1> QED
  BY <1>1, <1>2, <1>3, <1>4, <1>5 DEF IInv

\* Leave keeps the invariant.
LEMMA LeaveStep ==
    ASSUME IInv, NEW o \in Owners, Leave(o)
    PROVE  IInv'
<1>0. \A x \in Owners : x # o => pc[x] = "out"
  BY Zenon, NoneAssumption DEF IInv, TypeOK, At, Goto, Leave, Unlock
<1>1. TypeOK'
  BY <1>0, NoneAssumption DEF IInv, TypeOK, Inside, Before, During, After, Places, At, Goto, Leave, Unlock
<1>2. Inside'
  BY <1>0, NoneAssumption DEF IInv, TypeOK, Inside, Bodies, Hinted, Watched, Before, During, After, At, Goto, Leave, Unlock
<1>3. Bodies'
  BY Zenon, <1>0, NoneAssumption DEF IInv, TypeOK, Inside, Bodies, Before, During, After, At, Goto, Leave, Unlock
<1>4. Hinted'
  BY <1>0, NoneAssumption DEF IInv, TypeOK, Inside, Hinted, Before, During, After, At, Goto, Leave, Unlock
<1>5. Watched'
  BY <1>0, NoneAssumption DEF IInv, TypeOK, Inside, Hinted, Watched, Before, During, After, At, Goto, Leave, Unlock
<1> QED
  BY <1>1, <1>2, <1>3, <1>4, <1>5 DEF IInv

\* Register keeps the invariant.
LEMMA RegisterStep ==
    ASSUME IInv, NEW o \in Owners, Register(o)
    PROVE  IInv'
<1>0. \A x \in Owners : x # o => pc[x] = "out"
  BY Zenon, NoneAssumption DEF IInv, TypeOK, At, Goto, Register
<1>1. TypeOK'
  BY Zenon, <1>0, NoneAssumption DEF IInv, TypeOK, Inside, Before, During, After, Places, At, Goto, Register
<1>2. Inside'
  BY Zenon, <1>0, NoneAssumption DEF IInv, TypeOK, Inside, Bodies, Hinted, Watched, Before, During, After, At, Goto, Register
<1>3. Bodies'
  BY Zenon, <1>0, NoneAssumption DEF IInv, TypeOK, Inside, Bodies, Before, During, After, At, Goto, Register
<1>4. Hinted'
  BY Zenon, <1>0, NoneAssumption DEF IInv, TypeOK, Inside, Hinted, Before, During, After, At, Goto, Register
<1>5. Watched'
  BY Zenon, <1>0, NoneAssumption DEF IInv, TypeOK, Inside, Hinted, Watched, Before, During, After, At, Goto, Register
<1> QED
  BY <1>1, <1>2, <1>3, <1>4, <1>5 DEF IInv

\* SyncSource keeps the invariant.
LEMMA SyncSourceStep ==
    ASSUME IInv, NEW o \in Owners, SyncSource(o)
    PROVE  IInv'
<1>0. \A x \in Owners : x # o => pc[x] = "out"
  BY Zenon, NoneAssumption DEF IInv, TypeOK, At, Goto, SyncSource
<1>1. TypeOK'
  BY <1>0, NoneAssumption DEF IInv, TypeOK, Inside, Before, During, After, Places, At, Goto, SyncSource
<1>2. Inside'
  BY <1>0, NoneAssumption DEF IInv, TypeOK, Inside, Bodies, Hinted, Watched, Before, During, After, At, Goto, SyncSource
<1>3. Bodies'
  BY <1>0, NoneAssumption DEF IInv, TypeOK, Inside, Bodies, Before, During, After, At, Goto, SyncSource
<1>4. Hinted'
  BY ZenonT(30), <1>0, NoneAssumption DEF IInv, TypeOK, Inside, Hinted, Before, During, After, At, Goto, SyncSource
<1>5. Watched'
  BY ZenonT(30), <1>0, NoneAssumption DEF IInv, TypeOK, Inside, Hinted, Watched, Before, During, After, At, Goto, SyncSource
<1> QED
  BY <1>1, <1>2, <1>3, <1>4, <1>5 DEF IInv

\* Hint keeps the invariant.
LEMMA HintStep ==
    ASSUME IInv, NEW o \in Owners, Hint(o)
    PROVE  IInv'
<1>0. \A x \in Owners : x # o => pc[x] = "out"
  BY Zenon, NoneAssumption DEF IInv, TypeOK, At, Goto, Hint
<1>1. TypeOK'
  BY <1>0, NoneAssumption DEF IInv, TypeOK, Inside, Before, During, After, Places, At, Goto, Hint
<1>2. Inside'
  BY <1>0, NoneAssumption DEF IInv, TypeOK, Inside, Bodies, Hinted, Watched, Before, During, After, At, Goto, Hint
<1>3. Bodies'
  BY Zenon, <1>0, NoneAssumption DEF IInv, TypeOK, Inside, Bodies, Before, During, After, At, Goto, Hint
<1>4. Hinted'
  BY Zenon, <1>0, NoneAssumption DEF IInv, TypeOK, Inside, Hinted, Before, During, After, At, Goto, Hint
<1>5. Watched'
  BY ZenonT(30), <1>0, NoneAssumption DEF IInv, TypeOK, Inside, Hinted, Watched, Before, During, After, At, Goto, Hint
<1> QED
  BY <1>1, <1>2, <1>3, <1>4, <1>5 DEF IInv

\* Record keeps the invariant.
LEMMA RecordStep ==
    ASSUME IInv, NEW o \in Owners, Record(o)
    PROVE  IInv'
<1>0. \A x \in Owners : x # o => pc[x] = "out"
  BY Zenon, NoneAssumption DEF IInv, TypeOK, At, Goto, Record
<1>1. TypeOK'
  BY <1>0, NoneAssumption DEF IInv, TypeOK, Inside, Before, During, After, Places, At, Goto, Record
<1>2. Inside'
  BY <1>0, NoneAssumption DEF IInv, TypeOK, Inside, Bodies, Hinted, Watched, Before, During, After, At, Goto, Record
<1>3. Bodies'
  BY <1>0, NoneAssumption DEF IInv, TypeOK, Inside, Bodies, Before, During, After, At, Goto, Record
<1>4. Hinted'
  BY Zenon, <1>0, NoneAssumption DEF IInv, TypeOK, Inside, Hinted, Before, During, After, At, Goto, Record
<1>5. Watched'
  BY ZenonT(30), <1>0, NoneAssumption DEF IInv, TypeOK, Inside, Hinted, Watched, Before, During, After, At, Goto, Record
<1> QED
  BY <1>1, <1>2, <1>3, <1>4, <1>5 DEF IInv

\* Check keeps the invariant.
LEMMA CheckStep ==
    ASSUME IInv, NEW o \in Owners, Check(o)
    PROVE  IInv'
<1>0. \A x \in Owners : x # o => pc[x] = "out"
  BY Zenon, NoneAssumption DEF IInv, TypeOK, At, Check
<1>1. loc[leaf[o]] \in {"native", "object"}
  BY NoneAssumption DEF IInv, TypeOK, Inside, Bodies, Before, During, After, At, Check
<1>2. /\ At(o, "check") /\ Begun(o)
      /\ UNCHANGED <<loc, durable, catalogue, intent, pending, opened, watcher, faults>>
  BY Zenon, <1>1 DEF Check
<1>3. TypeOK'
  BY <1>0, <1>2, NoneAssumption DEF IInv, TypeOK, Inside, Before, During, After, At, Goto, Begun
<1>4. Inside'
  BY <1>0, <1>2, NoneAssumption DEF IInv, TypeOK, Inside, Before, During, After, At, Goto, Begun
<1>5. Bodies' /\ Hinted'
  BY Zenon, <1>0, <1>2, NoneAssumption DEF IInv, TypeOK, Bodies, Hinted, Before, During, After, At, Goto, Begun
<1>6. Watched'
  BY Zenon, <1>0, <1>2, NoneAssumption DEF IInv, TypeOK, Hinted, Watched, Before, During, After, At, Goto, Begun
<1> QED
  BY Zenon, <1>3, <1>4, <1>5, <1>6 DEF IInv

\* Move keeps the invariant.
LEMMA MoveStep ==
    ASSUME IInv, NEW o \in Owners, Move(o)
    PROVE  IInv'
<1>0. \A x \in Owners : x # o => pc[x] = "out"
  BY Zenon, NoneAssumption DEF IInv, TypeOK, At, Goto, Move
<1>1. TypeOK'
  BY SMTT(30), <1>0, NoneAssumption DEF IInv, TypeOK, Inside, Before, During, After, Places, At, Goto, Move
<1>2. Inside'
  BY <1>0, NoneAssumption DEF IInv, TypeOK, Inside, Bodies, Hinted, Watched, Before, During, After, At, Goto, Move
<1>3. Bodies'
  BY <1>0, NoneAssumption DEF IInv, TypeOK, Inside, Bodies, Before, During, After, At, Goto, Move
<1>4. Hinted'
  BY Zenon, <1>0, NoneAssumption DEF IInv, TypeOK, Inside, Hinted, Before, During, After, At, Goto, Move
<1>5. Watched'
  BY <1>0, NoneAssumption DEF IInv, TypeOK, Inside, Hinted, Watched, Before, During, After, At, Goto, Move
<1> QED
  BY <1>1, <1>2, <1>3, <1>4, <1>5 DEF IInv

\* Settle keeps the invariant.
LEMMA SettleStep ==
    ASSUME IInv, NEW o \in Owners, Settle(o)
    PROVE  IInv'
<1>0. \A x \in Owners : x # o => pc[x] = "out"
  BY Zenon, NoneAssumption DEF IInv, TypeOK, At, Goto, Settle
<1>1. TypeOK'
  BY SMTT(30), <1>0, NoneAssumption DEF IInv, TypeOK, Inside, Before, During, After, Places, At, Goto, Settle
<1>2. Inside'
  BY <1>0, NoneAssumption DEF IInv, TypeOK, Inside, Bodies, Hinted, Watched, Before, During, After, At, Goto, Settle
<1>3. Bodies'
  BY <1>0, NoneAssumption DEF IInv, TypeOK, Inside, Bodies, Before, During, After, At, Goto, Settle
<1>4. Hinted'
  BY Zenon, <1>0, NoneAssumption DEF IInv, TypeOK, Inside, Hinted, Before, During, After, At, Goto, Settle
<1>5. Watched'
  BY <1>0, NoneAssumption DEF IInv, TypeOK, Inside, Hinted, Watched, Before, During, After, At, Goto, Settle
<1> QED
  BY <1>1, <1>2, <1>3, <1>4, <1>5 DEF IInv

\* Commit keeps the invariant.
LEMMA CommitStep ==
    ASSUME IInv, NEW o \in Owners, Commit(o)
    PROVE  IInv'
<1>0. \A x \in Owners : x # o => pc[x] = "out"
  BY Zenon, NoneAssumption DEF IInv, TypeOK, At, Goto, Commit
<1>1. TypeOK'
  BY <1>0, NoneAssumption DEF IInv, TypeOK, Inside, Before, During, After, Places, At, Goto, Commit
<1>2. Inside'
  BY <1>0, NoneAssumption DEF IInv, TypeOK, Inside, Bodies, Hinted, Watched, Before, During, After, At, Goto, Commit
<1>3. Bodies'
  BY <1>0, NoneAssumption DEF IInv, TypeOK, Inside, Bodies, Before, During, After, At, Goto, Commit
<1>4. Hinted'
  BY Zenon, <1>0, NoneAssumption DEF IInv, TypeOK, Inside, Hinted, Before, During, After, At, Goto, Commit
<1>5. Watched'
  BY <1>0, NoneAssumption DEF IInv, TypeOK, Inside, Hinted, Watched, Before, During, After, At, Goto, Commit
<1> QED
  BY <1>1, <1>2, <1>3, <1>4, <1>5 DEF IInv

\* End keeps the invariant.
LEMMA EndStep ==
    ASSUME IInv, NEW o \in Owners, End(o)
    PROVE  IInv'
<1>0. \A x \in Owners : x # o => pc[x] = "out"
  BY Zenon, NoneAssumption DEF IInv, TypeOK, At, Goto, End
<1>1. TypeOK'
  BY ZenonT(30), <1>0, NoneAssumption DEF IInv, TypeOK, Inside, Before, During, After, Places, At, Goto, End
<1>2. Inside'
  BY <1>0, NoneAssumption DEF IInv, TypeOK, Inside, Bodies, Hinted, Watched, Before, During, After, At, Goto, End
<1>3. Bodies'
  BY Zenon, <1>0, NoneAssumption DEF IInv, TypeOK, Inside, Bodies, Before, During, After, At, Goto, End
<1>4. Hinted'
  BY Zenon, <1>0, NoneAssumption DEF IInv, TypeOK, Inside, Hinted, Before, During, After, At, Goto, End
<1>5. Watched'
  BY Zenon, <1>0, NoneAssumption DEF IInv, TypeOK, Inside, Hinted, Watched, Before, During, After, At, Goto, End
<1> QED
  BY <1>1, <1>2, <1>3, <1>4, <1>5 DEF IInv

\* Clear keeps the invariant.
LEMMA ClearStep ==
    ASSUME IInv, NEW o \in Owners, Clear(o)
    PROVE  IInv'
<1>0. \A x \in Owners : x # o => pc[x] = "out"
  BY Zenon, NoneAssumption DEF IInv, TypeOK, At, Goto, Clear
<1>1. TypeOK'
  BY ZenonT(30), <1>0, NoneAssumption DEF IInv, TypeOK, Inside, Before, During, After, Places, At, Goto, Clear
<1>2. Inside'
  BY <1>0, NoneAssumption DEF IInv, TypeOK, Inside, Bodies, Hinted, Watched, Before, During, After, At, Goto, Clear
<1>3. Bodies'
  BY Zenon, <1>0, NoneAssumption DEF IInv, TypeOK, Inside, Bodies, Before, During, After, At, Goto, Clear
<1>4. Hinted'
  BY <1>0, NoneAssumption DEF IInv, TypeOK, Inside, Hinted, Before, During, After, At, Goto, Clear
<1>5. Watched'
  BY Zenon, <1>0, NoneAssumption DEF IInv, TypeOK, Inside, Hinted, Watched, Before, During, After, At, Goto, Clear
<1> QED
  BY <1>1, <1>2, <1>3, <1>4, <1>5 DEF IInv

\* Fail keeps the invariant.
LEMMA FailStep ==
    ASSUME IInv, NEW o \in Owners, Fail(o)
    PROVE  IInv'
<1>0. \A x \in Owners : x # o => pc[x] = "out"
  BY Zenon, NoneAssumption DEF IInv, TypeOK, At, Goto, Fail, Unlock, Faulty
<1>1. TypeOK'
  BY <1>0, NoneAssumption DEF IInv, TypeOK, Inside, Before, During, After, Places, At, Goto, Fail, Unlock, Faulty
<1>2. Inside'
  BY <1>0, NoneAssumption DEF IInv, TypeOK, Inside, Bodies, Hinted, Watched, Before, During, After, At, Goto, Fail, Unlock, Faulty
<1>3. Bodies'
  BY Zenon, <1>0, NoneAssumption DEF IInv, TypeOK, Inside, Bodies, Before, During, After, At, Goto, Fail, Unlock, Faulty
<1>4. Hinted'
  BY ZenonT(30), <1>0, NoneAssumption DEF IInv, TypeOK, Inside, Hinted, Before, During, After, At, Goto, Fail, Unlock, Faulty
<1>5. Watched'
  BY <1>0, NoneAssumption DEF IInv, TypeOK, Inside, Hinted, Watched, Before, During, After, At, Goto, Fail, Unlock, Faulty
<1> QED
  BY <1>1, <1>2, <1>3, <1>4, <1>5 DEF IInv

\* Create keeps the invariant.
LEMMA CreateStep ==
    ASSUME IInv, NEW o \in Owners, NEW f \in Leaves, Create(o, f)
    PROVE  IInv'
<1>0. \A x \in Owners : x # o => pc[x] = "out"
  BY Zenon, NoneAssumption DEF IInv, TypeOK, At, Goto, Create
<1>1. TypeOK'
  BY <1>0, NoneAssumption DEF IInv, TypeOK, Inside, Before, During, After, Places, At, Goto, Create
<1>2. Inside'
  BY Zenon, <1>0, NoneAssumption DEF IInv, TypeOK, Inside, Bodies, Hinted, Watched, Before, During, After, At, Goto, Create
<1>3. Bodies'
  BY <1>0, NoneAssumption DEF IInv, TypeOK, Inside, Bodies, Before, During, After, At, Goto, Create
<1>4. Hinted'
  BY Zenon, <1>0, NoneAssumption DEF IInv, TypeOK, Inside, Hinted, Before, During, After, At, Goto, Create
<1>5. Watched'
  BY Zenon, <1>0, NoneAssumption DEF IInv, TypeOK, Inside, Hinted, Watched, Before, During, After, At, Goto, Create
<1> QED
  BY Zenon, <1>1, <1>2, <1>3, <1>4, <1>5 DEF IInv

\* Unlink keeps the invariant.
LEMMA UnlinkStep ==
    ASSUME IInv, NEW o \in Owners, NEW f \in Leaves, Unlink(o, f)
    PROVE  IInv'
<1>0. \A x \in Owners : x # o => pc[x] = "out"
  BY Zenon, NoneAssumption DEF IInv, TypeOK, At, Goto, Unlink
<1>1. TypeOK'
  BY <1>0, NoneAssumption DEF IInv, TypeOK, Inside, Before, During, After, Places, At, Goto, Unlink
<1>2. Inside'
  BY Zenon, <1>0, NoneAssumption DEF IInv, TypeOK, Inside, Bodies, Hinted, Watched, Before, During, After, At, Goto, Unlink
<1>3. Bodies'
  BY <1>0, NoneAssumption DEF IInv, TypeOK, Inside, Bodies, Before, During, After, At, Goto, Unlink
<1>4. Hinted'
  BY Zenon, <1>0, NoneAssumption DEF IInv, TypeOK, Inside, Hinted, Before, During, After, At, Goto, Unlink
<1>5. Watched'
  BY Zenon, <1>0, NoneAssumption DEF IInv, TypeOK, Inside, Hinted, Watched, Before, During, After, At, Goto, Unlink
<1> QED
  BY <1>1, <1>2, <1>3, <1>4, <1>5 DEF IInv

\* Promote keeps the invariant.
LEMMA PromoteStep ==
    ASSUME IInv, NEW o \in Owners, NEW f \in Leaves, Promote(o, f)
    PROVE  IInv'
<1>0. \A x \in Owners : x # o => pc[x] = "out"
  BY Zenon, NoneAssumption DEF IInv, TypeOK, At, Goto, Promote
<1>1. TypeOK'
  BY SMTT(30), <1>0, NoneAssumption DEF IInv, TypeOK, Inside, Before, During, After, Places, At, Goto, Promote
<1>2. Inside'
  BY <1>0, NoneAssumption DEF IInv, TypeOK, Inside, Bodies, Hinted, Watched, Before, During, After, At, Goto, Promote
<1>3. Bodies'
  BY Zenon, <1>0, NoneAssumption DEF IInv, TypeOK, Inside, Bodies, Before, During, After, At, Goto, Promote
<1>4. Hinted'
  BY SMTT(30), <1>0, NoneAssumption DEF IInv, TypeOK, Inside, Hinted, Before, During, After, At, Goto, Promote
<1>5. Watched'
  BY <1>0, NoneAssumption DEF IInv, TypeOK, Inside, Hinted, Watched, Before, During, After, At, Goto, Promote
<1> QED
  BY <1>1, <1>2, <1>3, <1>4, <1>5 DEF IInv

\* Death frees the gate only if the dead owner held it.
LEMMA DieStep ==
    ASSUME IInv, NEW o \in Owners, Die(o)
    PROVE  IInv'
<1>1. TypeOK'
  BY Zenon, NoneAssumption DEF IInv, TypeOK, Die, Faulty
<1>2. Inside'
  BY ZenonT(30), NoneAssumption DEF IInv, TypeOK, Inside, Before, During, After, Die, Faulty
<1>3. Bodies' /\ Hinted'
  BY NoneAssumption DEF IInv, TypeOK, Bodies, Hinted, Before, During, After, Die, Faulty
<1>4. Watched'
  BY ZenonT(30), NoneAssumption DEF IInv, TypeOK, Watched, Before, During, After, Die, Faulty
<1> QED
  BY <1>1, <1>2, <1>3, <1>4 DEF IInv

\* A power cut leaves every body in a place Bodies allows, and nobody inside.
LEMMA PowerStep ==
    ASSUME IInv, Power
    PROVE  IInv'
<1>1. /\ \A f \in Leaves : loc'[f] \in durable[f] /\ durable'[f] = {loc'[f]}
      /\ \A o \in Owners : pc'[o] = "out" /\ leaf'[o] = None
      /\ loc' \in [Leaves -> Places]
  BY Zenon DEF Power
<1>2. TypeOK'
  <2>1. durable' \in [Leaves -> SUBSET Places]
    BY <1>1 DEF Power
  <2>2. pc' \in [Owners -> {"out"}] /\ leaf' \in [Owners -> {None}]
    BY Zenon DEF Power
  <2> QED
    BY ZenonT(30), <1>1, <2>1, <2>2, NoneAssumption DEF IInv, TypeOK, Power
<1>3. Inside'
  BY Zenon, <1>1 DEF Inside, Before, During, After
<1>4. Bodies'
  <2>1. catalogue' = catalogue /\ intent' = intent /\ catalogue \subseteq Leaves
        /\ intent \in Leaves \cup {None}
    BY Zenon DEF Power, IInv, TypeOK
  <2>2. \A f \in Leaves : loc'[f] = "object" => f \in catalogue \/ f = intent
    BY ZenonT(30), <1>1 DEF IInv, Bodies
  <2>3. \A f \in catalogue : durable'[f] = {"object"}
    BY Zenon, <1>1, <2>1 DEF IInv, Bodies
  <2>4. intent # None => durable'[intent] \subseteq {"native", "object"}
    BY <1>1, <2>1 DEF IInv, Bodies
  <2> QED
    BY <1>1, <2>1, <2>2, <2>3, <2>4 DEF Bodies
<1>5. Hinted' /\ Watched'
  BY Zenon, <1>1 DEF Power, Hinted, Watched, Before, During, After
<1> QED
  BY Zenon, <1>2, <1>3, <1>4, <1>5 DEF IInv

\* The invariant holds of the empty store.
LEMMA InitIInv == Init => IInv
<1> SUFFICES ASSUME Init PROVE IInv
  BY Zenon
<1>1. TypeOK
  BY Zenon, NoneAssumption DEF Init, TypeOK, Places
<1>2. Inside /\ Bodies /\ Hinted /\ Watched
  BY Zenon, NoneAssumption DEF Init, Inside, Bodies, Hinted, Watched, Before, During, After
<1> QED
  BY Zenon, <1>1, <1>2 DEF IInv

\* Every step keeps it.
LEMMA StepIInv == IInv /\ [Next]_vars => IInv'
<1> SUFFICES ASSUME IInv, [Next]_vars PROVE IInv'
  BY Zenon
<1>1. CASE UNCHANGED vars
  BY Zenon, <1>1 DEF vars, IInv, TypeOK, Inside, Bodies, Hinted, Watched
<1>2. CASE Power
  BY Zenon, <1>2, PowerStep
<1>3. ASSUME NEW o \in Owners,
             \/ Enter(o) \/ RecoverNone(o) \/ RecoverBusy(o) \/ RecoverBegin(o) \/ Leave(o)
             \/ Register(o) \/ Fail(o) \/ Die(o)
      PROVE  IInv'
  BY Zenon, <1>3, EnterStep, RecoverNoneStep, RecoverBusyStep, RecoverBeginStep, LeaveStep,
     RegisterStep, FailStep, DieStep
<1>4. ASSUME NEW o \in Owners, Publish(o) PROVE IInv'
  BY Zenon, <1>4, SyncSourceStep, HintStep, RecordStep, CheckStep, MoveStep, SettleStep, CommitStep,
     EndStep, ClearStep DEF Publish
<1>5. ASSUME NEW o \in Owners, NEW f \in Leaves, Create(o, f) \/ Unlink(o, f) \/ Promote(o, f)
      PROVE  IInv'
  BY Zenon, <1>5, CreateStep, UnlinkStep, PromoteStep
<1> QED
  BY Zenon, <1>1, <1>2, <1>3, <1>4, <1>5 DEF Next

\* The inductive invariant holds in every state, for any owners, leaves and
\* number of faults.
THEOREM IndInvHolds == Spec => []IInv
  BY InitIInv, StepIInv, PTL DEF Spec

\* Types, and mutual exclusion by the gate.
THEOREM TypeHolds == Spec => []TypeOK
<1>1. IInv => TypeOK
  BY Zenon DEF IInv
<1> QED
  BY <1>1, IndInvHolds, PTL

\* An operation never runs on a half-published namespace.
THEOREM WholeHolds == Spec => []ReadsWhole
<1>1. IInv => ReadsWhole
  <2> SUFFICES ASSUME IInv, NEW o \in Owners, pc[o] = "operating"
               PROVE  intent = None /\ \A f \in Leaves : loc[f] = "object" <=> f \in catalogue
    BY Zenon DEF ReadsWhole
  <2>1. intent = None
    BY Zenon DEF IInv, Inside
  <2>2. \A f \in Leaves : loc[f] = "object" => f \in catalogue
    BY Zenon, <2>1, NoneAssumption DEF IInv, Bodies
  <2>3. \A f \in Leaves : f \in catalogue => loc[f] = "object"
    BY Zenon DEF IInv, TypeOK, Bodies
  <2> QED
    BY Zenon, <2>1, <2>2, <2>3
<1> QED
  BY <1>1, IndInvHolds, PTL

\* Recovery always finds the leaf of the intent.
THEOREM FindsHolds == Spec => []RecoveryFinds
<1>1. IInv => RecoveryFinds
  BY Zenon DEF IInv, Bodies, RecoveryFinds
<1> QED
  BY <1>1, IndInvHolds, PTL

\* Rows never outlive the body they name.
THEOREM DurableHolds == Spec => []CataloguedIsDurable
<1>1. IInv => CataloguedIsDurable
  BY Zenon DEF IInv, Bodies, CataloguedIsDurable
<1> QED
  BY <1>1, IndInvHolds, PTL

\* A watch never stays between the markers unnoticed.
THEOREM WatchEndsHolds == Spec => []WatchEnds
<1>1. IInv => WatchEnds
  BY Zenon DEF IInv, Watched, WatchEnds
<1> QED
  BY <1>1, IndInvHolds, PTL

\* Hidden keeps the invariant.
LEMMA HiddenStep ==
    ASSUME IInv, [Next]_vars, NEW f \in Leaves,
           loc[f] = "native", loc'[f] = "object", watcher # None
    PROVE  publishing
<1>1. ~UNCHANGED vars
  BY Zenon DEF vars
<1>2. ASSUME Power PROVE FALSE
  BY Zenon, <1>2 DEF Power, IInv, Bodies
<1>3. ASSUME NEW o \in Owners, Move(o) PROVE publishing
  BY Zenon, <1>3 DEF Move, At, IInv, Watched
<1>4. ASSUME NEW o \in Owners, NEW g \in Leaves, Create(o, g) \/ Unlink(o, g) \/ Promote(o, g)
      PROVE  FALSE
  BY Zenon, <1>4 DEF Create, Unlink, Promote, IInv, TypeOK
<1>5. ASSUME NEW o \in Owners,
             \/ Enter(o) \/ RecoverNone(o) \/ RecoverBusy(o) \/ RecoverBegin(o) \/ Leave(o)
             \/ Register(o) \/ Fail(o) \/ Die(o) \/ SyncSource(o) \/ Hint(o) \/ Record(o)
             \/ Check(o) \/ Settle(o) \/ Commit(o) \/ End(o) \/ Clear(o)
      PROVE  FALSE
  BY Zenon, <1>5 DEF Enter, RecoverNone, RecoverBusy, RecoverBegin, Leave, Register, Fail, Die,
              SyncSource, Hint, Record, Check, Settle, Commit, End, Clear
<1> QED
  BY Zenon, <1>1, <1>2, <1>3, <1>4, <1>5 DEF Next, Publish

\* No watch reports the physical move of a promotion.
THEOREM HiddenHolds == Spec => MovesAreHidden
<1>1. IInv /\ [Next]_vars
      => [\A f \in Leaves : loc[f] = "native" /\ loc'[f] = "object" /\ watcher # None
                           => publishing]_vars
  BY Zenon, HiddenStep
<1> QED
  BY <1>1, IndInvHolds, PTL DEF Spec, MovesAreHidden

=============================================================================
