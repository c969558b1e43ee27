--------------------------- MODULE OfdOrderProofs ---------------------------
(***************************************************************************)
(* The registry of shared directory cursors, for any finite number of      *)
(* requests and descriptions: its entries are shared and freed correctly,  *)
(* and no read's commit overwrites a position.                             *)
(***************************************************************************)
EXTENDS OfdOrder, FiniteSetTheorems, TLAPS

\* The stages in which a request that has an entry holds its turn.
Active == {"started", "posted", "ran", "offered", "finishing", "done"}

In(x, q) == \E i \in DOMAIN q : q[i] = x
Distinct(q) == \A i, j \in DOMAIN q : q[i] = q[j] => i = j

\* The requests that hold the pointer to an entry.
Users(f, e) == Cardinality({o \in Ops : f[o] = e})

\* An entry lives while its pointer is held, and is the only one of its description.
Entered ==
    /\ \A e \in Entries : refs[e] = Users(entry, e)
    /\ \A o \in Ops : entry[o] # None => file[entry[o]] = call[o].file
    /\ \A e1, e2 \in Entries : file[e1] # None /\ file[e1] = file[e2] => e1 = e2
    /\ \A e \in Entries : file[e] # None => refs[e] # 0

\* The members of a line are the entry's requests that have not begun to leave,
\* and whoever works on the description is the first of them.
Lined ==
    /\ \A e \in Entries : Distinct(line[e])
    /\ \A e \in Entries, o \in Ops :
          In(o, line[e]) <=> entry[o] = e /\ stage[o] # "retiring"
    /\ \A o \in Ops : entry[o] # None /\ stage[o] \in Active =>
          line[entry[o]] # <<>> /\ line[entry[o]][1] = o

\* Whether a request has an entry, by its stage and by what it asks for.
StagedAt(o) ==
    /\ stage[o] \in {"new", "over"} => entry[o] = None
    /\ stage[o] \in {"waiting", "retiring"} => entry[o] # None
    /\ Reserves(o) /\ stage[o] \notin {"new", "over"} => entry[o] # None
    /\ stage[o] \in {"posted", "ran", "finishing", "done"} => Mapped(o)
    /\ Reserved(o) => Reserves(o)
    /\ stage[o] = "started" => hand["worker"] = o /\ ~Mapped(o)
Staged == \A o \in Ops : StagedAt(o)

\* A request that runs without a turn on the worker has no reservation beside it.
Unrivalled ==
    \A o, x \in Ops : stage[o] = "started" /\ entry[o] = None /\ call[x].file = call[o].file
                        => ~Reserved(x)

IInv == TypeOK /\ Entered /\ Lined /\ Staged /\ Unrivalled /\ HeldByWorker
-----------------------------------------------------------------------------
(* A queue that a request joins at its end keeps its members and its head. *)
LEMMA AppendIn ==
    ASSUME NEW q \in Seq(Ops), NEW o \in Ops, ~In(o, q), Distinct(q)
    PROVE  /\ Append(q, o) \in Seq(Ops) /\ Distinct(Append(q, o))
           /\ \A x : In(x, Append(q, o)) <=> In(x, q) \/ x = o
           /\ Append(q, o) # <<>>
           /\ Append(q, o)[1] = IF q = <<>> THEN o ELSE q[1]
<1>1. /\ Append(q, o) \in Seq(Ops) /\ Len(q) \in Nat /\ DOMAIN q = 1..Len(q)
      /\ DOMAIN Append(q, o) = 1..(Len(q) + 1)
      /\ \A i \in 1..Len(q) : Append(q, o)[i] = q[i]
      /\ Append(q, o)[Len(q) + 1] = o
      /\ (q = <<>> <=> Len(q) = 0)
  OBVIOUS
<1> DEFINE r == Append(q, o)
           n == Len(q)
<1>2. r # <<>> /\ r[1] = IF q = <<>> THEN o ELSE q[1]
  <2>1. r # <<>>
    <3>1. 1 \in DOMAIN r
      BY <1>1
    <3> QED
      BY <3>1
  <2> HIDE DEF r
  <2> QED
    BY <1>1, <2>1 DEF r
<1> HIDE DEF r, n
<1>3. Distinct(r)
  BY <1>1 DEF In, Distinct, r, n
<1>4. \A x : In(x, r) <=> In(x, q) \/ x = o
  <2> SUFFICES ASSUME NEW x PROVE In(x, r) <=> In(x, q) \/ x = o
    BY Zenon
  <2>1. ASSUME In(x, q) PROVE In(x, r)
    BY <1>1, <2>1 DEF In, r
  <2>2. In(o, r)
    <3>1. n + 1 \in DOMAIN r /\ r[n + 1] = o
      BY <1>1 DEF r, n
    <3> QED
      BY Zenon, <3>1 DEF In
  <2>3. ASSUME In(x, r) PROVE In(x, q) \/ x = o
    BY <1>1, <2>3 DEF In, r
  <2> QED
    BY Zenon, <2>1, <2>2, <2>3
<1> QED
  BY Zenon, <1>1, <1>2, <1>3, <1>4 DEF r

(* A queue that a request leaves keeps the others, in their order. *)
LEMMA UnlinkIn ==
    ASSUME NEW q \in Seq(Ops), NEW i \in DOMAIN q, Distinct(q)
    PROVE  /\ Unlink(q, i) \in Seq(Ops) /\ Distinct(Unlink(q, i))
           /\ \A x : In(x, Unlink(q, i)) <=> In(x, q) /\ x # q[i]
           /\ q[1] # q[i] => Unlink(q, i) # <<>> /\ Unlink(q, i)[1] = q[1]
<1> DEFINE r == Unlink(q, i)
           n == Len(q)
<1>1. n \in Nat /\ DOMAIN q = 1..n /\ i \in 1..n /\ \A k \in 1..n : q[k] \in Ops
  OBVIOUS
<1>2. /\ r \in Seq(Ops) /\ DOMAIN r = 1..(n - 1)
      /\ \A j \in 1..(n - 1) : r[j] = IF j < i THEN q[j] ELSE q[j + 1]
  BY DEF Unlink
<1>3. \A j, k \in 1..n : q[j] = q[k] => j = k
  BY Zenon, <1>1 DEF Distinct
<1> HIDE DEF n, r
<1>4. Distinct(r)
  <2> SUFFICES ASSUME NEW j \in 1..(n - 1), NEW k \in 1..(n - 1), r[j] = r[k] PROVE j = k
    BY Zenon, <1>2 DEF Distinct
  <2> DEFINE old(x) == IF x < i THEN x ELSE x + 1
  <2>1. old(j) \in 1..n /\ old(k) \in 1..n
    BY <1>1
  <2>2. q[old(j)] = q[old(k)]
    BY Zenon, <1>2
  <2>3. old(j) = old(k)
    BY Zenon, <1>3, <2>1, <2>2
  <2> QED
    BY <1>1, <2>3
<1>5. ASSUME NEW x, In(x, r) PROVE In(x, q) /\ x # q[i]
  <2>1. PICK j \in 1..(n - 1) : r[j] = x
    BY Zenon, <1>2, <1>5 DEF In
  <2>2. PICK k \in 1..n : k # i /\ q[k] = x
    <3>1. CASE j < i
      BY SMTT(30), <1>1, <1>2, <2>1, <3>1
    <3>2. CASE ~(j < i)
      <4>1. j + 1 \in 1..n /\ j + 1 # i /\ q[j + 1] = x
        BY SMTT(30), <1>1, <1>2, <2>1, <3>2
      <4> QED
        BY Zenon, <4>1
    <3> QED
      BY Zenon, <3>1, <3>2
  <2> QED
    BY Zenon, <1>1, <1>3, <2>2 DEF In
<1>6. ASSUME NEW x, In(x, q), x # q[i] PROVE In(x, r)
  <2>1. PICK k \in 1..n : q[k] = x
    BY Zenon, <1>1, <1>6 DEF In
  <2>2. PICK j \in 1..(n - 1) : r[j] = x
    <3>1. CASE k < i
      BY <1>1, <1>2, <2>1, <3>1
    <3>2. CASE ~(k < i)
      <4>1. k - 1 \in 1..(n - 1) /\ ~(k - 1 < i) /\ (k - 1) + 1 = k
        BY SMTT(30), <1>1, <1>6, <2>1, <3>2
      <4> QED
        BY Zenon, <1>2, <2>1, <4>1
    <3> QED
      BY Zenon, <3>1, <3>2
  <2> QED
    BY Zenon, <1>2, <2>2 DEF In
<1>7. ASSUME q[1] # q[i] PROVE r # <<>> /\ r[1] = q[1]
  <2>1. 1 < i /\ 1 \in 1..(n - 1)
    BY <1>1, <1>7
  <2>2. r[1] = q[1]
    BY Zenon, <1>2, <2>1
  <2>3. r # <<>>
    <3>1. 1 \in DOMAIN r
      BY Zenon, <1>2, <2>1
    <3>2. DOMAIN <<>> = {}
      OBVIOUS
    <3> HIDE DEF r
    <3> QED
      BY Zenon, <3>1, <3>2
  <2> QED
    BY Zenon, <2>2, <2>3
<1>8. \A x : In(x, r) <=> In(x, q) /\ x # q[i]
  BY Zenon, <1>5, <1>6
<1> QED
  BY Zenon, <1>2, <1>4, <1>7, <1>8 DEF r

(* When one request gets or gives up a pointer, one count changes. *)
LEMMA UsersMove ==
    ASSUME NEW f, NEW g, NEW o \in Ops, \A x \in Ops \ {o} : g[x] = f[x], NEW e
    PROVE  /\ Users(f, e) \in Nat /\ Users(g, e) \in Nat
           /\ Users(g, e) = Users(f, e) - (IF f[o] = e THEN 1 ELSE 0) + (IF g[o] = e THEN 1 ELSE 0)
<1> DEFINE A == {x \in Ops : f[x] = e}
           B == {x \in Ops : g[x] = e}
           C == {x \in Ops \ {o} : f[x] = e}
<1>1. IsFiniteSet(C) /\ o \notin C
  <2>1. C \in SUBSET Ops
    BY Zenon
  <2> QED
    BY Zenon, <2>1, FS_Subset, OfdAssumption
<1>2. Cardinality(C) \in Nat /\ Cardinality(C \cup {o}) = Cardinality(C) + 1
  <2> HIDE DEF C
  <2> QED
    BY Zenon, <1>1, FS_CardinalityType, FS_AddElement
<1>3. A = IF f[o] = e THEN C \cup {o} ELSE C
  BY Zenon
<1>4. B = IF g[o] = e THEN C \cup {o} ELSE C
  BY Zenon
<1>5. Users(f, e) = Cardinality(C) + (IF f[o] = e THEN 1 ELSE 0)
  BY <1>2, <1>3 DEF Users
<1>6. Users(g, e) = Cardinality(C) + (IF g[o] = e THEN 1 ELSE 0)
  BY SMTT(30), <1>2, <1>4 DEF Users
<1> QED
  BY <1>2, <1>5, <1>6

(* A count is a number, and is zero only when nobody holds the pointer. *)
LEMMA UsersType ==
    ASSUME NEW f, NEW e
    PROVE  /\ Users(f, e) \in Nat
           /\ Users(f, e) = 0 <=> \A o \in Ops : f[o] # e
<1> DEFINE A == {x \in Ops : f[x] = e}
<1>1. IsFiniteSet(A)
  <2>1. A \in SUBSET Ops
    BY Zenon
  <2> QED
    BY Zenon, <2>1, FS_Subset, OfdAssumption
<1>2. Cardinality(A) \in Nat
  BY Zenon, <1>1, FS_CardinalityType
<1>3. Cardinality(A) = 0 <=> A = {}
  BY Zenon, <1>1, FS_EmptySet
<1> QED
  BY Zenon, <1>2, <1>3 DEF Users

-----------------------------------------------------------------------------
(* Every request is on a description. *)
LEMMA CallFile ==
    ASSUME TypeOK, NEW o \in Ops
    PROVE  call[o].file \in Files /\ call[o].file # None
<1>1. call[o] \in Calls
  BY ZenonT(30), OfdAssumption DEF TypeOK
<1>2. call[o].file \in Files
  BY Zenon, <1>1 DEF Calls
<1> QED
  BY Zenon, <1>2, OfdAssumption

(* While a request has no entry there is a free one: the others cannot     *)
(* fill them all.                                                          *)
LEMMA FreeEntry ==
    ASSUME Entered, NEW o \in Ops, entry[o] = None
    PROVE  \E e \in Entries : file[e] = None
<1> SUFFICES ASSUME \A e \in Entries : file[e] # None PROVE FALSE
  BY Zenon
<1> DEFINE D == {x \in Ops : entry[x] \in Entries}
           f == [x \in D |-> entry[x]]
<1>1. \A e \in Entries : \E x \in Ops : entry[x] = e
  BY UsersType DEF Entered
<1>2. f \in Surjection(D, Entries)
  BY Zenon, <1>1 DEF Surjection
<1>3. D \in SUBSET (Ops \ {o})
  BY Zenon, OfdAssumption
<1>4. /\ IsFiniteSet(Ops \ {o}) /\ Cardinality(Ops) \in Nat
      /\ Cardinality(Ops \ {o}) = Cardinality(Ops) - 1
  BY Zenon, OfdAssumption, FS_RemoveElement, FS_CardinalityType
<1> HIDE DEF D, f
<1>5. IsFiniteSet(D) /\ Cardinality(D) <= Cardinality(Ops \ {o})
  BY Zenon, <1>3, <1>4, FS_Subset
<1>6. Cardinality(Entries) <= Cardinality(D)
  BY Zenon, <1>2, <1>5, FS_Surjection
<1>7. Cardinality(D) \in Nat /\ Cardinality(Entries) \in Nat
  BY Zenon, <1>5, OfdAssumption, FS_CardinalityType
<1> QED
  BY <1>4, <1>5, <1>6, <1>7, OfdAssumption

(* What md_ofd_order_begin finds: the entry of this description or a free  *)
(* one, and no other entry of this description.                            *)
LEMMA EnrollFinds ==
    ASSUME TypeOK, Entered, NEW o \in Ops, entry[o] = None, NEW e \in Entries, Enroll(o, e)
    PROVE  /\ file[e] \in {None, call[o].file}
           /\ \A a \in Entries : file[a] = call[o].file => a = e
<1>1. call[o].file # None
  BY Zenon, CallFile
<1>2. CASE Matches(o) # {}
  <2>1. file[e] = call[o].file
    BY Zenon, <1>2 DEF Enroll, Matches
  <2> QED
    BY Zenon, <1>1, <2>1 DEF Entered
<1>3. CASE Matches(o) = {}
  <2>1. e = CHOOSE x \in Entries : file[x] = None
    BY Zenon, <1>3 DEF Enroll
  <2>2. \E x \in Entries : file[x] = None
    BY Zenon, FreeEntry
  <2>3. file[e] = None
    BY Zenon, <2>1, <2>2
  <2> QED
    BY Zenon, <1>3, <2>3 DEF Matches
<1> QED
  BY Zenon, <1>2, <1>3

(* Taking and giving up a pointer. *)
LEMMA UsersSet ==
    ASSUME entry \in [Ops -> Entries \cup {None}], NEW o \in Ops,
           NEW v, entry' = [entry EXCEPT ![o] = v]
    PROVE  \A a \in Entries : Users(entry', a) = Users(entry, a) - (IF entry[o] = a THEN 1 ELSE 0)
                                                              + (IF v = a THEN 1 ELSE 0)
<1> SUFFICES ASSUME NEW a \in Entries
             PROVE  Users(entry', a) = Users(entry, a) - (IF entry[o] = a THEN 1 ELSE 0)
                                                       + (IF v = a THEN 1 ELSE 0)
  BY Zenon
<1> DEFINE new == entry'
<1>1. new[o] = v
  BY Zenon
<1>2. \A x \in Ops \ {o} : new[x] = entry[x]
  BY Zenon
<1> HIDE DEF new
<1>3. /\ Users(entry, a) \in Nat
      /\ Users(new, a) = Users(entry, a) - (IF entry[o] = a THEN 1 ELSE 0)
                                         + (IF new[o] = a THEN 1 ELSE 0)
  BY <1>2, UsersMove
<1>4. Users(new, a) = Users(entry, a) - (IF entry[o] = a THEN 1 ELSE 0)
                                      + (IF v = a THEN 1 ELSE 0)
  BY Zenon, <1>1, <1>3
<1> QED
  BY Zenon, <1>4 DEF new

\* The types of the registry.
RegistryOK ==
    /\ entry \in [Ops -> Entries \cup {None}]
    /\ file \in [Entries -> Files \cup {None}]
    /\ refs \in [Entries -> Nat]
    /\ line \in [Entries -> Seq(Ops)]
    /\ \A e \in Entries : file[e] = None => refs[e] = 0 /\ line[e] = <<>>

(* Joining an entry's line. *)
LEMMA EnrollKeeps ==
    ASSUME TypeOK, Entered, Lined, NEW o \in Ops, entry[o] = None, stage[o] = "new",
           NEW e \in Entries, Enroll(o, e), call' = call,
           NEW s, stage' = [stage EXCEPT ![o] = s], s # "retiring",
           s \in Active => line[e] = <<>>
    PROVE  RegistryOK' /\ Entered' /\ Lined'
<1>1. /\ file' = [file EXCEPT ![e] = call[o].file]
      /\ refs' = [refs EXCEPT ![e] = @ + 1]
      /\ entry' = [entry EXCEPT ![o] = e]
      /\ line' = [line EXCEPT ![e] = Append(line[e], o)]
  BY Zenon DEF Enroll
<1>2. RegistryOK /\ None \notin Entries /\ stage \in [Ops -> Stages]
  BY Zenon, OfdAssumption DEF TypeOK, RegistryOK
<1>3. call[o].file \in Files /\ call[o].file # None
  BY Zenon, CallFile
<1>4. /\ file[e] \in {None, call[o].file}
      /\ \A a \in Entries : file[a] = call[o].file => a = e
  BY Zenon, EnrollFinds
<1>5. /\ file'[e] = call[o].file /\ \A a \in Entries \ {e} : file'[a] = file[a]
      /\ file' \in [Entries -> Files \cup {None}]
  BY Zenon, <1>1, <1>2, <1>3 DEF RegistryOK
<1>6. /\ entry'[o] = e /\ \A x \in Ops \ {o} : entry'[x] = entry[x]
      /\ entry' \in [Ops -> Entries \cup {None}]
  BY Zenon, <1>1, <1>2 DEF RegistryOK
<1>7. /\ refs'[e] = refs[e] + 1 /\ \A a \in Entries \ {e} : refs'[a] = refs[a]
      /\ refs' \in [Entries -> Nat]
  BY SMTT(30), <1>1, <1>2 DEF RegistryOK
<1>8. ~In(o, line[e]) /\ Distinct(line[e]) /\ line[e] \in Seq(Ops)
  BY SMTT(30), <1>2 DEF Lined, RegistryOK
<1> DEFINE r == Append(line[e], o)
<1>9. /\ r \in Seq(Ops) /\ Distinct(r) /\ \A x : In(x, r) <=> In(x, line[e]) \/ x = o
      /\ r # <<>> /\ r[1] = IF line[e] = <<>> THEN o ELSE line[e][1]
  BY <1>8, AppendIn
<1>10. /\ line'[e] = r /\ \A a \in Entries \ {e} : line'[a] = line[a]
       /\ line' \in [Entries -> Seq(Ops)]
  BY Zenon, <1>1, <1>2, <1>9 DEF RegistryOK
<1> HIDE DEF r
<1>11. stage'[o] = s /\ \A x \in Ops \ {o} : stage'[x] = stage[x]
  BY Zenon, <1>2
<1>12. RegistryOK'
  <2>1. \A a \in Entries : file'[a] = None => refs'[a] = 0 /\ line'[a] = <<>>
    BY Zenon, <1>2, <1>3, <1>5, <1>7, <1>10 DEF RegistryOK
  <2> QED
    BY Zenon, <1>5, <1>6, <1>7, <1>10, <2>1 DEF RegistryOK
<1>13. Entered'
  <2>1. \A a \in Entries : refs'[a] = Users(entry', a)
    <3>1. \A a \in Entries : refs[a] = Users(entry, a) /\ refs[a] \in Nat
      BY Zenon, <1>2 DEF Entered, RegistryOK
    <3>2. \A a \in Entries : Users(entry', a) = Users(entry, a) - (IF entry[o] = a THEN 1 ELSE 0)
                                                               + (IF e = a THEN 1 ELSE 0)
      <4>1. entry \in [Ops -> Entries \cup {None}] /\ entry' = [entry EXCEPT ![o] = e]
        BY Zenon, <1>1, <1>2 DEF RegistryOK
      <4> QED
        BY <4>1, UsersSet, ZenonT(30)
    <3> QED
      BY SMTT(30), <1>2, <1>7, <3>1, <3>2
  <2>2. \A x \in Ops : entry'[x] # None => file'[entry'[x]] = call'[x].file
    <3> SUFFICES ASSUME NEW x \in Ops, entry'[x] # None
                 PROVE  file'[entry'[x]] = call[x].file
      BY Zenon
    <3>1. CASE x = o
      BY Zenon, <1>5, <1>6, <3>1
    <3>2. CASE x # o
      <4>1. entry'[x] = entry[x] /\ entry[x] \in Entries
        BY Zenon, <1>2, <1>6, <3>2 DEF RegistryOK
      <4>2. file[entry[x]] = call[x].file /\ call[x].file # None
        BY Zenon, <4>1, OfdAssumption, CallFile DEF Entered
      <4> QED
        BY Zenon, <1>4, <1>5, <4>1, <4>2
    <3> QED
      BY Zenon, <3>1, <3>2
  <2>3. \A a, b \in Entries : file'[a] # None /\ file'[a] = file'[b] => a = b
    BY SMTT(30), <1>4, <1>5 DEF Entered
  <2>4. \A a \in Entries : file'[a] # None => refs'[a] # 0
    BY SMTT(30), <1>2, <1>5, <1>7 DEF Entered, RegistryOK
  <2> QED
    BY Zenon, <2>1, <2>2, <2>3, <2>4 DEF Entered
<1>14. Lined'
  <2>1. \A a \in Entries : Distinct(line'[a])
    BY Zenon, <1>9, <1>10 DEF Lined
  <2>2. \A a \in Entries, x \in Ops : In(x, line'[a]) <=> entry'[x] = a /\ stage'[x] # "retiring"
    <3> SUFFICES ASSUME NEW a \in Entries, NEW x \in Ops
                 PROVE  In(x, line'[a]) <=> entry'[x] = a /\ stage'[x] # "retiring"
      BY Zenon
    <3>1. In(x, line[a]) <=> entry[x] = a /\ stage[x] # "retiring"
      BY Zenon DEF Lined
    <3>2. CASE a = e
      <4>1. In(x, line'[a]) <=> In(x, line[a]) \/ x = o
        BY Zenon, <1>9, <1>10, <3>2
      <4> QED
        BY Zenon, <1>2, <1>6, <1>11, <3>1, <3>2, <4>1
    <3>3. CASE a # e
      BY ZenonT(30), <1>2, <1>6, <1>10, <1>11, <3>1, <3>3
    <3> QED
      BY Zenon, <3>2, <3>3
  <2>3. ASSUME NEW x \in Ops, entry'[x] # None, stage'[x] \in Active
        PROVE  line'[entry'[x]] # <<>> /\ line'[entry'[x]][1] = x
    <3>1. CASE x = o
      BY Zenon, <1>6, <1>9, <1>10, <1>11, <2>3, <3>1
    <3>2. CASE x # o
      <4>1. entry[x] \in Entries /\ line[entry[x]] # <<>> /\ line[entry[x]][1] = x
        BY <1>2, <1>6, <1>11, <2>3, <3>2 DEF Lined, RegistryOK
      <4> QED
        BY ZenonT(30), <1>6, <1>9, <1>10, <3>2, <4>1
    <3> QED
      BY Zenon, <3>1, <3>2
  <2> QED
    BY Zenon, <2>1, <2>2, <2>3 DEF Lined
<1> QED
  BY Zenon, <1>12, <1>13, <1>14

(* A request that moves on in its course, without touching the registry.   *)
LEMMA StageKeeps ==
    ASSUME TypeOK, Entered, Lined, UNCHANGED <<entry, file, refs, line>>, call' = call,
           NEW o \in Ops, NEW s, stage' = [stage EXCEPT ![o] = s],
           stage[o] # "retiring", s # "retiring",
           entry[o] # None /\ s \in Active => line[entry[o]] # <<>> /\ line[entry[o]][1] = o
    PROVE  RegistryOK' /\ Entered' /\ Lined'
<1>1. stage'[o] = s /\ \A x \in Ops \ {o} : stage'[x] = stage[x]
  BY Zenon DEF TypeOK
<1>2. RegistryOK'
  BY Zenon DEF TypeOK, RegistryOK
<1>3. Entered'
  BY Zenon DEF Entered
<1>4. \A x \in Ops : stage'[x] # "retiring" <=> stage[x] # "retiring"
  BY Zenon, <1>1
<1>5. \A x \in Ops : entry[x] # None /\ stage'[x] \in Active =>
                        line[entry[x]] # <<>> /\ line[entry[x]][1] = x
  BY <1>1 DEF Lined
<1>6. Lined'
  BY Zenon, <1>4, <1>5 DEF Lined
<1> QED
  BY Zenon, <1>2, <1>3, <1>6

(* A request that has taken its last step leaves the line. *)
LEMMA LeaveKeeps ==
    ASSUME TypeOK, Entered, Lined, NEW o \in Ops, NEW t \in Threads, Leave(o, t), call' = call,
           stage[o] # "retiring"
    PROVE  RegistryOK' /\ Entered' /\ Lined'
<1>1. CASE entry[o] = None
  <2>1. stage' = [stage EXCEPT ![o] = "over"] /\ UNCHANGED <<entry, file, refs, line>>
    BY Zenon, <1>1 DEF Leave
  <2> QED
    BY <1>1, <2>1, StageKeeps, Zenon
<1>2. CASE entry[o] # None
  <2> DEFINE e == entry[o]
  <2>1. PICK i \in DOMAIN line[e] : /\ line[e][i] = o
                                    /\ line' = [line EXCEPT ![e] = Unlink(line[e], i)]
    BY Zenon, <1>2 DEF Leave
  <2>2. stage' = [stage EXCEPT ![o] = "retiring"] /\ UNCHANGED <<entry, file, refs>>
    BY Zenon, <1>2 DEF Leave
  <2>3. RegistryOK /\ stage \in [Ops -> Stages]
    BY Zenon DEF TypeOK, RegistryOK
  <2>4. e \in Entries /\ line[e] \in Seq(Ops) /\ Distinct(line[e])
    BY <1>2, <2>3 DEF RegistryOK, Lined
  <2>5. stage'[o] = "retiring" /\ \A x \in Ops \ {o} : stage'[x] = stage[x]
    BY Zenon, <2>2, <2>3
  <2> DEFINE r == Unlink(line[e], i)
  <2>6. /\ r \in Seq(Ops) /\ Distinct(r) /\ \A x : In(x, r) <=> In(x, line[e]) /\ x # o
        /\ line[e][1] # o => r # <<>> /\ r[1] = line[e][1]
    BY <2>1, <2>4, UnlinkIn
  <2>7. /\ line'[e] = r /\ \A a \in Entries \ {e} : line'[a] = line[a]
        /\ line' \in [Entries -> Seq(Ops)]
    BY Zenon, <2>1, <2>3, <2>4, <2>6 DEF RegistryOK
  <2> HIDE DEF r
  <2>8. RegistryOK'
    <3>1. file[e] # None
      BY <2>1, <2>3, <2>4 DEF RegistryOK
    <3>2. \A a \in Entries : file'[a] = None => refs'[a] = 0 /\ line'[a] = <<>>
      BY Zenon, <2>2, <2>3, <2>7, <3>1 DEF RegistryOK
    <3> QED
      BY Zenon, <2>2, <2>3, <2>7, <3>2 DEF RegistryOK
  <2>9. Entered'
    BY Zenon, <2>2 DEF Entered
  <2>10. Lined'
    <3>1. \A a \in Entries : Distinct(line'[a])
      BY Zenon, <2>6, <2>7 DEF Lined
    <3>2. ASSUME NEW a \in Entries, NEW x \in Ops
          PROVE  In(x, line'[a]) <=> entry'[x] = a /\ stage'[x] # "retiring"
      <4>1. In(x, line[a]) <=> entry[x] = a /\ stage[x] # "retiring"
        BY Zenon DEF Lined
      <4>2. CASE a = e
        <5>1. In(x, line'[a]) <=> In(x, line[a]) /\ x # o
          BY Zenon, <2>6, <2>7, <4>2
        <5> QED
          BY Zenon, <2>2, <2>5, <4>1, <4>2, <5>1
      <4>3. CASE a # e
        BY Zenon, <2>2, <2>5, <2>7, <4>1, <4>3
      <4> QED
        BY Zenon, <4>2, <4>3
    <3>3. ASSUME NEW x \in Ops, entry'[x] # None, stage'[x] \in Active
          PROVE  line'[entry'[x]] # <<>> /\ line'[entry'[x]][1] = x
      <4>1. x # o /\ entry'[x] = entry[x]
        BY Zenon, <2>2, <2>5, <3>3 DEF Active
      <4>2. entry[x] \in Entries /\ line[entry[x]] # <<>> /\ line[entry[x]][1] = x
        BY SMTT(30), <2>3, <2>5, <3>3, <4>1 DEF Lined, RegistryOK
      <4> QED
        BY Zenon, <2>6, <2>7, <4>1, <4>2
    <3> QED
      BY Zenon, <3>1, <3>2, <3>3 DEF Lined
  <2> QED
    BY Zenon, <2>8, <2>9, <2>10
<1> QED
  BY Zenon, <1>1, <1>2

(* drop frees the entry with its last pointer, and never under a request   *)
(* that still holds one.                                                   *)
LEMMA DropKeeps ==
    ASSUME TypeOK, Entered, Lined, Staged, NEW t \in Threads, Drop(t)
    PROVE  RegistryOK' /\ Entered' /\ Lined'
<1> DEFINE o == hand[t]
           e == entry[o]
<1>1. /\ o \in Ops /\ stage[o] = "retiring"
      /\ refs' = [refs EXCEPT ![e] = refs[e] - 1]
      /\ file' = IF refs[e] = 1 THEN [file EXCEPT ![e] = None] ELSE file
      /\ entry' = [entry EXCEPT ![o] = None]
      /\ stage' = [stage EXCEPT ![o] = "over"]
      /\ line' = line /\ call' = call
  BY Zenon DEF Drop, TypeOK
<1>2. RegistryOK /\ stage \in [Ops -> Stages] /\ None \notin Entries
  BY Zenon, OfdAssumption DEF TypeOK, RegistryOK
<1> HIDE DEF o
<1>3. e \in Entries
  BY Zenon, <1>1, <1>2 DEF Staged, StagedAt, RegistryOK
<1>4. \A a \in Entries : Users(entry', a) = Users(entry, a) - (IF entry[o] = a THEN 1 ELSE 0)
                                                           + (IF None = a THEN 1 ELSE 0)
  <2>1. entry \in [Ops -> Entries \cup {None}] /\ entry' = [entry EXCEPT ![o] = None] /\ o \in Ops
    BY Zenon, <1>1, <1>2 DEF RegistryOK
  <2> QED
    BY <2>1, UsersSet, Zenon
<1>5. \A a \in Entries : refs[a] = Users(entry, a) /\ refs[a] \in Nat
  BY Zenon, <1>2 DEF Entered, RegistryOK
<1>6. refs[e] # 0
  <2>1. Users(entry, e) # 0
    BY <1>1, <1>3, UsersType
  <2> QED
    BY Zenon, <1>3, <1>5, <2>1
<1>7. /\ refs'[e] = refs[e] - 1 /\ \A a \in Entries \ {e} : refs'[a] = refs[a]
      /\ refs' \in [Entries -> Nat]
  <2>1. refs[e] - 1 \in Nat
    BY <1>3, <1>5, <1>6
  <2> QED
    BY Zenon, <1>1, <1>2, <1>3, <2>1 DEF RegistryOK
<1>8. /\ file'[e] = IF refs[e] = 1 THEN None ELSE file[e]
      /\ \A a \in Entries \ {e} : file'[a] = file[a]
      /\ file' \in [Entries -> Files \cup {None}]
  BY Zenon, <1>1, <1>2, <1>3 DEF RegistryOK
<1>9. /\ entry'[o] = None /\ \A x \in Ops \ {o} : entry'[x] = entry[x]
      /\ entry' \in [Ops -> Entries \cup {None}]
  BY Zenon, <1>1, <1>2 DEF RegistryOK
<1>10. stage'[o] = "over" /\ \A x \in Ops \ {o} : stage'[x] = stage[x]
  BY Zenon, <1>1, <1>2
<1>11. \A a \in Entries : refs'[a] = Users(entry', a)
  BY <1>2, <1>3, <1>4, <1>5, <1>7
<1>12. refs[e] = 1 => \A x \in Ops : entry'[x] # e
  <2>1. refs[e] = 1 => Users(entry', e) = 0
    BY <1>3, <1>5, <1>7, <1>11
  <2>2. Users(entry', e) = 0 => \A x \in Ops : entry'[x] # e
    BY Zenon, UsersType
  <2> QED
    BY Zenon, <2>1, <2>2
<1> HIDE DEF e
<1>13. Lined'
  <2>1. \A a \in Entries : Distinct(line'[a])
    BY Zenon, <1>1 DEF Lined
  <2>2. ASSUME NEW a \in Entries, NEW x \in Ops
        PROVE  In(x, line'[a]) <=> entry'[x] = a /\ stage'[x] # "retiring"
    <3>1. In(x, line[a]) <=> entry[x] = a /\ stage[x] # "retiring"
      BY Zenon DEF Lined
    <3> QED
      BY Zenon, <1>1, <1>2, <1>9, <1>10, <3>1
  <2>3. ASSUME NEW x \in Ops, entry'[x] # None, stage'[x] \in Active
        PROVE  line'[entry'[x]] # <<>> /\ line'[entry'[x]][1] = x
    <3>1. x # o /\ entry[x] # None /\ stage[x] \in Active
      BY Zenon, <1>9, <1>10, <2>3
    <3> QED
      BY Zenon, <1>1, <1>9, <3>1 DEF Lined
  <2> QED
    BY Zenon, <2>1, <2>2, <2>3 DEF Lined
<1>14. RegistryOK'
  <2>1. ASSUME NEW a \in Entries, file'[a] = None PROVE refs'[a] = 0 /\ line'[a] = <<>>
    <3>1. CASE a # e
      BY Zenon, <1>1, <1>2, <1>7, <1>8, <2>1, <3>1 DEF RegistryOK
    <3>2. CASE a = e
      <4>1. refs[e] = 1
        <5>1. file[e] # None
          BY Zenon, <1>2, <1>3, <1>6 DEF RegistryOK
        <5> QED
          BY Zenon, <1>8, <2>1, <3>2, <5>1
      <4>2. refs'[e] = 0
        BY <1>7, <4>1
      <4>3. \A x \in Ops : ~In(x, line'[e])
        BY Zenon, <1>3, <1>12, <1>13, <4>1 DEF Lined
      <4>4. line'[e] \in Seq(Ops)
        BY Zenon, <1>1, <1>2, <1>3 DEF RegistryOK
      <4>5. line'[e] = <<>>
        BY <4>3, <4>4 DEF In
      <4> QED
        BY Zenon, <3>2, <4>2, <4>5
    <3> QED
      BY Zenon, <3>1, <3>2
  <2>2. line' \in [Entries -> Seq(Ops)]
    BY Zenon, <1>1, <1>2 DEF RegistryOK
  <2> QED
    BY Zenon, <1>7, <1>8, <1>9, <2>1, <2>2 DEF RegistryOK
<1>15. Entered'
  <2>1. ASSUME NEW x \in Ops, entry'[x] # None PROVE file'[entry'[x]] = call'[x].file
    <3>1. x # o /\ entry'[x] = entry[x] /\ entry[x] \in Entries
      BY Zenon, <1>2, <1>9, <2>1 DEF RegistryOK
    <3>2. file[entry[x]] = call[x].file
      BY Zenon, <2>1, <3>1 DEF Entered
    <3> QED
      BY Zenon, <1>1, <1>8, <1>12, <3>1, <3>2
  <2>2. \A a, b \in Entries : file'[a] # None /\ file'[a] = file'[b] => a = b
    BY SMTT(30), <1>3, <1>8 DEF Entered
  <2>3. \A a \in Entries : file'[a] # None => refs'[a] # 0
    BY SMTT(30), <1>3, <1>5, <1>7, <1>8 DEF Entered
  <2> QED
    BY Zenon, <1>11, <2>1, <2>2, <2>3 DEF Entered
<1> QED
  BY Zenon, <1>13, <1>14, <1>15

-----------------------------------------------------------------------------
(* A step of one request leaves the courses of the others sound when it    *)
(* does not take the worker from one that runs there.                      *)
LEMMA StagedMove ==
    ASSUME Staged, call' = call, NEW o \in Ops,
           \A x \in Ops \ {o} : stage'[x] = stage[x] /\ entry'[x] = entry[x],
           \A x \in Ops \ {o} : stage[x] = "started" => hand'["worker"] = x,
           StagedAt(o)'
    PROVE  Staged'
<1> SUFFICES ASSUME NEW x \in Ops, x # o PROVE StagedAt(x)'
  BY Zenon DEF Staged
<1>1. stage'[x] = stage[x] /\ entry'[x] = entry[x] /\ StagedAt(x)
  BY Zenon DEF Staged
<1> QED
  BY Zenon, <1>1 DEF StagedAt, Reserves, Read, Mapped, Reserved

(* Nobody runs on the worker while it is idle, and only the request at     *)
(* hand while it is not.                                                   *)
LEMMA StartedInHand ==
    ASSUME Staged, NEW o \in Ops, Idle("worker") \/ hand["worker"] = o, NEW x \in Ops \ {o}
    PROVE  stage[x] # "started"
BY Zenon, OfdAssumption DEF Staged, StagedAt, Idle

(* The part of leaving that concerns the course. *)
LEMMA LeaveStaged ==
    ASSUME TypeOK, Staged, call' = call, NEW o \in Ops, NEW t \in Threads, Leave(o, t),
           t = "worker" => Idle("worker") \/ hand["worker"] = o
    PROVE  Staged' /\ ~Reserved(o)' /\ stage'[o] # "started" /\ entry' = entry
           /\ \A x \in Ops \ {o} : stage'[x] = stage[x]
<1>1. /\ entry' = entry
      /\ stage'[o] = IF entry[o] = None THEN "over" ELSE "retiring"
      /\ \A x \in Ops \ {o} : stage'[x] = stage[x]
  BY Zenon DEF Leave, TypeOK
<1>2. StagedAt(o)'
  BY Zenon, <1>1 DEF StagedAt, Reserved
<1>3. ASSUME NEW x \in Ops \ {o}, stage[x] = "started" PROVE hand'["worker"] = x
  <2>1. t # "worker"
    BY Zenon, <1>3, StartedInHand
  <2>2. hand["worker"] = x
    BY Zenon, <1>3 DEF Staged, StagedAt
  <2>3. hand' = [hand EXCEPT ![t] = IF entry[o] = None THEN None ELSE o]
    BY Zenon DEF Leave
  <2> QED
    BY Zenon, <2>1, <2>2, <2>3 DEF TypeOK, Threads
<1>4. Staged'
  BY Zenon, <1>1, <1>2, <1>3, StagedMove
<1> QED
  BY Zenon, <1>1, <1>4 DEF Reserved

(* Two requests on one description cannot both hold its turn, so beside    *)
(* one that works there nobody else has records reserved.                  *)
LEMMA NoRival ==
    ASSUME TypeOK, Entered, Lined, Staged, Unrivalled, NEW o \in Ops,
           stage[o] \in Active, entry[o] # None \/ stage[o] = "started",
           NEW x \in Ops, x # o, call[x].file = call[o].file
    PROVE  ~Reserved(x)
<1> SUFFICES ASSUME Reserved(x) PROVE FALSE
  BY Zenon
<1>1. entry[o] # None
  BY Zenon DEF Unrivalled
<1>2. entry[x] # None /\ stage[x] \in Active
  BY Zenon DEF Staged, StagedAt, Reserved, Active
<1>3. line[entry[o]][1] = o /\ line[entry[x]][1] = x
  BY Zenon, <1>1, <1>2 DEF Lined
<1>4. file[entry[o]] = file[entry[x]] /\ file[entry[o]] # None
  BY Zenon, <1>1, <1>2, CallFile DEF Entered
<1>5. entry[o] \in Entries /\ entry[x] \in Entries
  BY Zenon, <1>1, <1>2 DEF TypeOK
<1>6. entry[o] = entry[x]
  BY Zenon, <1>4, <1>5 DEF Entered
<1> QED
  BY Zenon, <1>3, <1>6

(* What a step may do to positions and reservations. *)
LEMMA CursorMove ==
    ASSUME Unrivalled, HeldByWorker, call' = call, NEW o \in Ops,
           \A x \in Ops \ {o} : stage'[x] = stage[x],
           \A x \in Ops \ {o} : entry'[x] = entry[x],
           \A x \in Ops \ {o} : from'[x] = from[x],
           \A x \in Ops \ {o} : Reserved(x) /\ NoMappedSeek(call[x].file)
                                  => pos'[call[x].file] = pos[call[x].file],
           Reserved(o)' /\ NoMappedSeek(call[o].file) => pos'[call[o].file] = from'[o],
           \A x \in Ops \ {o} : stage[x] = "started" /\ Reserved(o)' => Reserved(o),
           stage'[o] = "started" /\ entry'[o] = None =>
              \A x \in Ops \ {o} : call[x].file = call[o].file => ~Reserved(x)
    PROVE  Unrivalled' /\ HeldByWorker'
<1>1. \A f : NoMappedSeek(f)' <=> NoMappedSeek(f)
  BY Zenon DEF NoMappedSeek, Mapped, Read
<1>2. \A x \in Ops \ {o} : Reserved(x)' <=> Reserved(x)
  BY Zenon DEF Reserved
<1>3. HeldByWorker'
  <2> SUFFICES ASSUME NEW x \in Ops, Reserved(x)', NoMappedSeek(call[x].file)
               PROVE  pos'[call[x].file] = from'[x]
    BY Zenon, <1>1 DEF HeldByWorker
  <2> QED
    BY Zenon, <1>2 DEF HeldByWorker
<1>4. Unrivalled'
  <2> SUFFICES ASSUME NEW y \in Ops, NEW x \in Ops, stage'[y] = "started", entry'[y] = None,
                      call[x].file = call[y].file, Reserved(x)'
               PROVE  FALSE
    BY Zenon DEF Unrivalled
  <2>1. x # y
    BY Zenon DEF Reserved
  <2>2. CASE y = o
    BY Zenon, <1>2, <2>1, <2>2
  <2>3. CASE y # o
    <3>1. stage[y] = "started" /\ entry[y] = None
      BY Zenon, <2>3
    <3>2. Reserved(x)
      BY Zenon, <1>2, <2>3, <3>1
    <3> QED
      BY Zenon, <3>1, <3>2 DEF Unrivalled
  <2> QED
    BY Zenon, <2>2, <2>3
<1> QED
  BY Zenon, <1>3, <1>4

-----------------------------------------------------------------------------
\* The types of what is not in the registry.
RestOK ==
    /\ stage \in [Ops -> Stages]
    /\ cancelled \in [Ops -> BOOLEAN] /\ copied \in [Ops -> BOOLEAN]
    /\ from \in [Ops -> Positions]
    /\ jobs \in Seq(Ops)
    /\ pos \in [Files -> Positions]
    /\ hand \in [Threads -> Ops \cup {None}]

LEMMA TypeParts == TypeOK <=> call \in Menus /\ RegistryOK /\ RestOK
BY Zenon DEF TypeOK, RegistryOK, RestOK

LEMMA TypePartsNext == TypeOK' <=> call' \in Menus /\ RegistryOK' /\ RestOK'
BY Zenon DEF TypeOK, RegistryOK, RestOK

\* What the registry and the courses keep.
Kept == RegistryOK /\ Entered /\ Lined /\ Staged

LEMMA Assemble ==
    ASSUME IInv, call' = call, RestOK', Kept', Unrivalled' /\ HeldByWorker'
    PROVE  IInv'
BY Zenon, TypeParts, TypePartsNext DEF IInv, Kept

\* Only request o takes a step.
Alone(o) ==
    /\ \A x \in Ops \ {o} : stage'[x] = stage[x]
    /\ \A x \in Ops \ {o} : entry'[x] = entry[x]

(* A request moves on without touching the registry. *)
LEMMA Onward ==
    ASSUME IInv, call' = call, UNCHANGED <<entry, file, refs, line>>,
           NEW o \in Ops, NEW s, stage' = [stage EXCEPT ![o] = s],
           stage[o] # "retiring", s # "retiring",
           stage[o] \in Active \/ entry[o] = None \/ s \notin Active
             \/ (line[entry[o]] # <<>> /\ line[entry[o]][1] = o),
           StagedAt(o)',
           \A x \in Ops \ {o} : stage[x] = "started" => hand'["worker"] = x
    PROVE  Kept' /\ Alone(o) /\ stage'[o] = s
<1>1. Alone(o) /\ stage'[o] = s
  BY Zenon DEF IInv, TypeOK, Alone
<1>2. Staged'
  BY Zenon, <1>1, StagedMove DEF IInv, Alone
<1>3. entry[o] # None /\ s \in Active => line[entry[o]] # <<>> /\ line[entry[o]][1] = o
  BY Zenon DEF IInv, Lined
<1>4. RegistryOK' /\ Entered' /\ Lined'
  BY Zenon, <1>3, StageKeeps DEF IInv
<1> QED
  BY Zenon, <1>1, <1>2, <1>4 DEF Kept

(* A request leaves. *)
LEMMA Leaving ==
    ASSUME IInv, call' = call, NEW o \in Ops, NEW t \in Threads, Leave(o, t),
           stage[o] # "retiring", t = "worker" => Idle("worker") \/ hand["worker"] = o
    PROVE  Kept' /\ Alone(o) /\ ~Reserved(o)' /\ stage'[o] # "started"
           /\ stage' \in [Ops -> Stages] /\ hand' \in [Threads -> Ops \cup {None}]
<1>1. Staged' /\ ~Reserved(o)' /\ stage'[o] # "started" /\ entry' = entry
      /\ \A x \in Ops \ {o} : stage'[x] = stage[x]
  BY Zenon, LeaveStaged DEF IInv
<1>2. RegistryOK' /\ Entered' /\ Lined'
  BY Zenon, LeaveKeeps DEF IInv
<1>3. stage' \in [Ops -> Stages]
  BY Zenon DEF Leave, IInv, TypeOK, Stages
<1>4. hand' \in [Threads -> Ops \cup {None}]
  BY Zenon DEF Leave, IInv, TypeOK
<1> QED
  BY Zenon, <1>1, <1>2, <1>3, <1>4 DEF Kept, Alone

(* A request joins the line of an entry. *)
LEMMA Joining ==
    ASSUME IInv, call' = call, NEW o \in Ops, stage[o] = "new", NEW e \in Entries, Enroll(o, e),
           NEW s \in {"started", "posted", "waiting"}, stage' = [stage EXCEPT ![o] = s],
           s # "waiting" => line[e] = <<>>,
           s = "started" => hand'["worker"] = o /\ ~Mapped(o),
           s = "posted" => Mapped(o),
           \A x \in Ops \ {o} : stage[x] = "started" => hand'["worker"] = x
    PROVE  Kept' /\ Alone(o) /\ stage'[o] = s /\ entry'[o] = e
<1>1. entry[o] = None
  BY Zenon DEF IInv, Staged, StagedAt
<1>2. RegistryOK' /\ Entered' /\ Lined'
  <2>1. s # "retiring" /\ (s \in Active => line[e] = <<>>)
    BY Zenon DEF Active
  <2> QED
    BY Zenon, <1>1, <2>1, EnrollKeeps DEF IInv
<1>3. stage'[o] = s /\ entry'[o] = e /\ Alone(o)
  BY Zenon DEF IInv, TypeOK, Enroll, Alone
<1>4. e # None
  BY Zenon, OfdAssumption
<1>5. StagedAt(o)'
  BY Zenon, <1>3, <1>4 DEF StagedAt, Reserved, Mapped
<1>6. Staged'
  BY Zenon, <1>3, <1>5, StagedMove DEF IInv, Alone
<1> QED
  BY Zenon, <1>2, <1>3, <1>6 DEF Kept

(* What begin finds when it gives no entry: nobody reserves on the         *)
(* description.                                                            *)
LEMMA UnorderedAlone ==
    ASSUME IInv, NEW o \in Ops, Unordered(o), NEW x \in Ops, call[x].file = call[o].file
    PROVE  ~Reserved(x)
<1> SUFFICES ASSUME Reserved(x) PROVE FALSE
  BY Zenon
<1>1. entry[x] # None
  BY Zenon DEF IInv, Staged, StagedAt, Reserved
<1>2. entry[x] \in Entries /\ file[entry[x]] = call[o].file
  BY Zenon, <1>1 DEF IInv, TypeOK, Entered
<1> QED
  BY Zenon, <1>2 DEF Unordered, Matches

-----------------------------------------------------------------------------
(* The worker's steps. *)
LEMMA ArriveStep ==
    ASSUME IInv, NEW o \in Ops, Arrive(o)
    PROVE  IInv'
<1>1. /\ Idle("worker") /\ stage[o] = "new" /\ ~Mapped(o)
      /\ call' = call /\ cancelled' = cancelled /\ copied' = copied /\ from' = from
      /\ jobs' = jobs /\ pos' = pos
  BY Zenon DEF Arrive
<1>2. \A x \in Ops \ {o} : stage[x] # "started"
  BY Zenon, <1>1, StartedInHand DEF IInv
<1>3. ASSUME Unordered(o), stage' = [stage EXCEPT ![o] = "started"],
             hand' = [hand EXCEPT !["worker"] = o]
      PROVE  Kept' /\ RestOK' /\ Unrivalled' /\ HeldByWorker'
  <2>1. RestOK' /\ hand'["worker"] = o /\ stage'[o] = "started"
    BY Zenon, <1>1, <1>3 DEF IInv, TypeOK, RestOK, Stages, Threads
  <2>2. UNCHANGED <<entry, file, refs, line>> /\ ~Reserves(o)
    BY Zenon, <1>3 DEF Unordered, registry
  <2>3. entry[o] = None
    BY Zenon, <1>1 DEF IInv, Staged, StagedAt
  <2>4. StagedAt(o)'
    BY Zenon, <1>1, <2>1, <2>2 DEF StagedAt, Reserves, Read, Mapped, Reserved
  <2>5. Kept' /\ Alone(o)
    BY Zenon, <1>1, <1>2, <1>3, <2>2, <2>3, <2>4, Onward
  <2>6. \A x \in Ops \ {o} : call[x].file = call[o].file => ~Reserved(x)
    BY Zenon, <1>3, UnorderedAlone
  <2>7. ~Reserved(o)'
    BY Zenon, <2>1 DEF Reserved
  <2>8. Unrivalled' /\ HeldByWorker'
    BY Zenon, <1>1, <2>5, <2>6, <2>7, CursorMove DEF Alone, IInv
  <2> QED
    BY Zenon, <2>1, <2>5, <2>8
<1>4. ASSUME NEW e \in Entries, Enroll(o, e),
             \/ /\ line[e] = <<>> /\ stage' = [stage EXCEPT ![o] = "started"]
                /\ hand' = [hand EXCEPT !["worker"] = o]
             \/ stage' = [stage EXCEPT ![o] = "waiting"] /\ hand' = hand
      PROVE  Kept' /\ RestOK' /\ Unrivalled' /\ HeldByWorker'
  <2>1. PICK s \in {"started", "waiting"} :
           /\ stage' = [stage EXCEPT ![o] = s]
           /\ s = "started" => line[e] = <<>> /\ hand' = [hand EXCEPT !["worker"] = o]
           /\ s = "waiting" => hand' = hand
    BY Zenon, <1>4
  <2>2. RestOK' /\ (s = "started" => hand'["worker"] = o)
    BY SMTT(30), <1>1, <2>1 DEF IInv, TypeOK, RestOK, Stages, Threads
  <2>3. Kept' /\ Alone(o) /\ stage'[o] = s /\ entry'[o] = e
    <3>1. s \in {"started", "posted", "waiting"} /\ (s # "waiting" => line[e] = <<>>)
          /\ (s = "started" => hand'["worker"] = o /\ ~Mapped(o)) /\ (s = "posted" => Mapped(o))
      BY Zenon, <1>1, <2>1, <2>2
    <3>2. \A x \in Ops \ {o} : stage[x] = "started" => hand'["worker"] = x
      BY Zenon, <1>2
    <3>3. call' = call /\ stage[o] = "new" /\ Enroll(o, e) /\ stage' = [stage EXCEPT ![o] = s]
      BY Zenon, <1>1, <1>4, <2>1
    <3> QED
      BY Zenon, <3>1, <3>2, <3>3, Joining
  <2>4. ~Reserved(o)' /\ entry'[o] # None
    BY Zenon, <2>3, OfdAssumption DEF Reserved
  <2>5. Unrivalled' /\ HeldByWorker'
    BY Zenon, <1>1, <2>3, <2>4, CursorMove DEF Alone, IInv
  <2> QED
    BY Zenon, <2>2, <2>3, <2>5
<1> QED
  BY Zenon, <1>1, <1>3, <1>4, Assemble DEF Arrive

LEMMA ResumeStep ==
    ASSUME IInv, NEW o \in Ops, Resume(o)
    PROVE  IInv'
<1>1. /\ Idle("worker") /\ stage[o] = "waiting" /\ ~Mapped(o) /\ Turn(o)
      /\ stage' = [stage EXCEPT ![o] = "started"] /\ hand' = [hand EXCEPT !["worker"] = o]
      /\ call' = call /\ cancelled' = cancelled /\ copied' = copied /\ from' = from
      /\ jobs' = jobs /\ pos' = pos /\ UNCHANGED <<entry, file, refs, line>>
  BY Zenon DEF Resume, registry
<1>2. \A x \in Ops \ {o} : stage[x] # "started"
  BY Zenon, <1>1, StartedInHand DEF IInv
<1>3. RestOK' /\ hand'["worker"] = o /\ stage'[o] = "started"
  BY Zenon, <1>1 DEF IInv, TypeOK, RestOK, Stages, Threads
<1>4. entry[o] # None
  BY Zenon, <1>1 DEF IInv, Staged, StagedAt
<1>5. StagedAt(o)'
  BY Zenon, <1>1, <1>3, <1>4 DEF StagedAt, Reserved, Mapped
<1>6. line[entry[o]] # <<>> /\ line[entry[o]][1] = o
  BY <1>1, <1>4 DEF Turn, IInv, TypeOK
<1>7. Kept' /\ Alone(o)
  BY Zenon, <1>1, <1>2, <1>5, <1>6, Onward
<1>8. ~Reserved(o)' /\ entry'[o] # None
  BY Zenon, <1>1, <1>3, <1>4 DEF Reserved
<1>9. Unrivalled' /\ HeldByWorker'
  BY Zenon, <1>1, <1>7, <1>8, CursorMove DEF Alone, IInv
<1> QED
  BY Zenon, <1>1, <1>3, <1>7, <1>9, Assemble

(* The position after a read, and the room for it. *)
LEMMA AfterType == ASSUME NEW p \in Positions PROVE After(p) \in Positions
BY OfdAssumption DEF After, Positions

\* Only the description of request o may have moved.
MovesOnly(o) == \A f \in Files : f # call[o].file => pos'[f] = pos[f]

LEMMA ImmediateMoves ==
    ASSUME IInv, NEW o \in Ops, Immediate(o)
    PROVE  pos' \in [Files -> Positions] /\ MovesOnly(o)
<1>1. call[o].file \in Files /\ pos \in [Files -> Positions]
  BY Zenon, CallFile DEF IInv, TypeOK
<1>2. CASE UNCHANGED pos
  BY Zenon, <1>1, <1>2 DEF MovesOnly
<1>3. ASSUME NEW p, p \in IF Read(o) THEN {After(pos[call[o].file])} ELSE Positions,
             pos' = [pos EXCEPT ![call[o].file] = p]
      PROVE  pos' \in [Files -> Positions] /\ MovesOnly(o)
  <2>1. p \in Positions
    BY Zenon, <1>1, <1>3, AfterType
  <2> QED
    BY Zenon, <1>1, <1>3, <2>1 DEF MovesOnly
<1> QED
  BY Zenon, <1>2, <1>3 DEF Immediate

LEMMA CommitMoves ==
    ASSUME IInv, NEW o \in Ops, NEW c, Commit(o, c)
    PROVE  pos' \in [Files -> Positions] /\ MovesOnly(o)
<1>1. call[o].file \in Files /\ pos \in [Files -> Positions] /\ After(from[o]) \in Positions
  BY Zenon, CallFile, AfterType DEF IInv, TypeOK
<1> QED
  BY Zenon, <1>1 DEF Commit, MovesOnly

(* The cursor's part of a step that ends a reservation or works under the  *)
(* turn: where o moves the position, nobody else has records reserved.     *)
LEMMA CursorSettles ==
    ASSUME IInv, call' = call, NEW o \in Ops, Alone(o), \A x \in Ops \ {o} : from'[x] = from[x],
           MovesOnly(o), ~Reserved(o)', stage'[o] # "started",
           pos' = pos \/ (stage[o] \in Active /\ (entry[o] # None \/ stage[o] = "started"))
             \/ ~NoMappedSeek(call[o].file)
    PROVE  Unrivalled' /\ HeldByWorker'
<1>1. ASSUME NEW x \in Ops \ {o}, Reserved(x), NoMappedSeek(call[x].file)
      PROVE  pos'[call[x].file] = pos[call[x].file]
  <2>1. CASE pos' = pos
    BY Zenon, <2>1
  <2>2. CASE stage[o] \in Active /\ (entry[o] # None \/ stage[o] = "started")
    <3>1. call[x].file # call[o].file
      BY Zenon, <1>1, <2>2, NoRival DEF IInv
    <3>2. call[x].file \in Files
      BY Zenon, CallFile DEF IInv
    <3> QED
      BY Zenon, <3>1, <3>2 DEF MovesOnly
  <2>3. CASE ~NoMappedSeek(call[o].file)
    <3>1. call[x].file # call[o].file
      BY Zenon, <1>1, <2>3
    <3>2. call[x].file \in Files
      BY CallFile DEF IInv
    <3> QED
      BY <3>1, <3>2 DEF MovesOnly
  <2> QED
    BY Zenon, <2>1, <2>2, <2>3
<1> QED
  BY Zenon, <1>1, CursorMove DEF IInv, Alone

LEMMA ServeStep ==
    ASSUME IInv, NEW o \in Ops, Serve(o)
    PROVE  IInv'
<1>1. /\ hand["worker"] = o /\ stage[o] = "started"
      /\ call' = call /\ cancelled' = cancelled /\ copied' = copied /\ jobs' = jobs
  BY Zenon DEF Serve
<1>2. \A x \in Ops \ {o} : stage[x] # "started"
  BY Zenon, <1>1, StartedInHand DEF IInv
<1>3. stage[o] \in Active /\ stage[o] # "retiring" /\ "worker" \in Threads
  BY Zenon, <1>1 DEF Active, Threads
<1>4. ASSUME call[o].path = "rpc", Read(o), from' = [from EXCEPT ![o] = pos[call[o].file]],
             stage' = [stage EXCEPT ![o] = "offered"], hand' = [hand EXCEPT !["worker"] = None],
             UNCHANGED <<entry, file, refs, line>>, pos' = pos
      PROVE  Kept' /\ RestOK' /\ Unrivalled' /\ HeldByWorker'
  <2>1. pos[call[o].file] \in Positions
    BY Zenon, CallFile DEF IInv, TypeOK
  <2>2. RestOK' /\ stage'[o] = "offered" /\ from'[o] = pos[call[o].file]
        /\ \A x \in Ops \ {o} : from'[x] = from[x]
    BY Zenon, <1>1, <1>4, <2>1 DEF IInv, TypeOK, RestOK, Stages
  <2>3. Reserves(o)
    BY Zenon, <1>4 DEF Reserves
  <2>4. entry[o] # None
    BY Zenon, <1>1, <2>3 DEF IInv, Staged, StagedAt
  <2>5. StagedAt(o)'
    BY Zenon, <1>1, <1>4, <2>2, <2>3, <2>4 DEF StagedAt, Reserved, Reserves, Read
  <2>6. Kept' /\ Alone(o)
    BY Zenon, <1>1, <1>2, <1>3, <1>4, <2>5, Onward
  <2>7. Unrivalled' /\ HeldByWorker'
    BY Zenon, <1>1, <1>2, <1>4, <2>2, <2>6, CursorMove DEF Alone, IInv
  <2> QED
    BY Zenon, <2>2, <2>6, <2>7
<1>5. ASSUME Leave(o, "worker"), from' = from, pos' \in [Files -> Positions], MovesOnly(o)
      PROVE  Kept' /\ RestOK' /\ Unrivalled' /\ HeldByWorker'
  <2>1. /\ Kept' /\ Alone(o) /\ ~Reserved(o)' /\ stage'[o] # "started"
        /\ stage' \in [Ops -> Stages] /\ hand' \in [Threads -> Ops \cup {None}]
    BY Zenon, <1>1, <1>3, <1>5, Leaving
  <2>2. RestOK'
    BY Zenon, <1>1, <1>5, <2>1 DEF IInv, TypeOK, RestOK
  <2>3. Unrivalled' /\ HeldByWorker'
    BY Zenon, <1>1, <1>3, <1>5, <2>1, CursorSettles
  <2> QED
    BY Zenon, <2>1, <2>2, <2>3
<1>6. ASSUME pos' = pos PROVE pos' \in [Files -> Positions] /\ MovesOnly(o)
  BY Zenon, <1>6 DEF IInv, TypeOK, MovesOnly
<1> QED
  BY Zenon, <1>1, <1>4, <1>5, <1>6, ImmediateMoves, Assemble DEF Serve, registry

LEMMA AnswerStep ==
    ASSUME IInv, NEW o \in Ops, NEW c \in BOOLEAN, Answer(o, c)
    PROVE  IInv'
<1>1. /\ Idle("worker") /\ stage[o] = "offered" /\ Commit(o, c) /\ Leave(o, "worker")
      /\ call' = call /\ cancelled' = cancelled /\ copied' = copied /\ from' = from /\ jobs' = jobs
  BY Zenon DEF Answer
<1>2. stage[o] \in Active /\ stage[o] # "retiring" /\ "worker" \in Threads
  BY Zenon, <1>1 DEF Active, Threads
<1>3. entry[o] # None
  BY Zenon, <1>1 DEF IInv, Staged, StagedAt, Reserved
<1>4. pos' \in [Files -> Positions] /\ MovesOnly(o)
  BY Zenon, <1>1, CommitMoves
<1>5. /\ Kept' /\ Alone(o) /\ ~Reserved(o)' /\ stage'[o] # "started"
      /\ stage' \in [Ops -> Stages] /\ hand' \in [Threads -> Ops \cup {None}]
  BY Zenon, <1>1, <1>2, Leaving
<1>6. RestOK'
  BY Zenon, <1>1, <1>4, <1>5 DEF IInv, TypeOK, RestOK
<1>7. Unrivalled' /\ HeldByWorker'
  BY Zenon, <1>1, <1>2, <1>3, <1>4, <1>5, CursorSettles
<1> QED
  BY Zenon, <1>1, <1>5, <1>6, <1>7, Assemble

LEMMA WithdrawStep ==
    ASSUME IInv, NEW o \in Ops, NEW t \in Threads, Leave(o, t),
           stage[o] # "retiring", t = "worker" => Idle("worker"),
           UNCHANGED <<call, copied, from, jobs, pos>>, cancelled' \in [Ops -> BOOLEAN]
    PROVE  IInv'
<1>1. /\ Kept' /\ Alone(o) /\ ~Reserved(o)' /\ stage'[o] # "started"
      /\ stage' \in [Ops -> Stages] /\ hand' \in [Threads -> Ops \cup {None}]
  BY Zenon, Leaving
<1>2. RestOK'
  BY Zenon, <1>1 DEF IInv, TypeOK, RestOK
<1>3. Unrivalled' /\ HeldByWorker'
  BY Zenon, <1>1, CursorSettles DEF MovesOnly
<1> QED
  BY Zenon, <1>1, <1>2, <1>3, Assemble

(* The worker runs a mapped request: it reserves, seeks, or settles.       *)
LEMMA RunStep ==
    ASSUME IInv, Run, NEW o \in Ops, o = Head(jobs)
    PROVE  IInv'
<1>1. jobs' \in Seq(Ops)
  BY DEF Run, IInv, TypeOK
<1>2. /\ Idle("worker") /\ hand' = hand /\ UNCHANGED <<entry, file, refs, line>>
      /\ call' = call /\ cancelled' = cancelled /\ copied' = copied
  BY Zenon DEF Run, registry
<1>3. \/ /\ stage[o] = "posted" /\ Read(o)
         /\ from' = [from EXCEPT ![o] = pos[call[o].file]]
         /\ \E s \in {"ran", "done"} : stage' = [stage EXCEPT ![o] = s]
         /\ pos' = pos
      \/ /\ stage[o] = "posted" /\ ~Read(o) /\ Immediate(o)
         /\ stage' = [stage EXCEPT ![o] = "done"] /\ from' = from
      \/ /\ stage[o] = "finishing" /\ Commit(o, copied[o])
         /\ stage' = [stage EXCEPT ![o] = "done"] /\ from' = from
  BY Zenon DEF Run
<1>4. \A x \in Ops \ {o} : stage[x] # "started"
  BY Zenon, <1>1, <1>2, StartedInHand DEF IInv
<1>5. stage[o] \in {"posted", "finishing"} /\ stage[o] \in Active /\ stage[o] # "retiring"
      /\ Mapped(o)
  BY Zenon, <1>1, <1>3 DEF Active, IInv, Staged, StagedAt
<1>6. ASSUME NEW s \in {"ran", "done"}, stage' = [stage EXCEPT ![o] = s], s = "ran" => Read(o)
      PROVE  Kept' /\ Alone(o) /\ stage'[o] = s /\ stage' \in [Ops -> Stages]
  <2>1. stage'[o] = s /\ stage' \in [Ops -> Stages] /\ s # "retiring"
    BY Zenon, <1>1, <1>6 DEF IInv, TypeOK, Stages
  <2>2. StagedAt(o) /\ (Reserves(o) <=> Read(o))
    BY Zenon, <1>1, <1>5 DEF IInv, Staged, Reserves, Mapped
  <2>3. StagedAt(o)'
    BY Zenon, <1>2, <1>5, <1>6, <2>1, <2>2 DEF StagedAt, Reserved, Reserves, Read, Mapped
  <2>4. Kept' /\ Alone(o)
    BY Zenon, <1>1, <1>2, <1>4, <1>5, <1>6, <2>1, <2>3, Onward
  <2> QED
    BY Zenon, <2>1, <2>4
<1>7. ASSUME from' = [from EXCEPT ![o] = pos[call[o].file]], pos' = pos, Read(o),
             NEW s \in {"ran", "done"}, stage' = [stage EXCEPT ![o] = s]
      PROVE  Kept' /\ RestOK' /\ Unrivalled' /\ HeldByWorker'
  <2>1. pos[call[o].file] \in Positions
    BY Zenon, <1>1, CallFile DEF IInv, TypeOK
  <2>2. from' \in [Ops -> Positions] /\ from'[o] = pos[call[o].file]
        /\ \A x \in Ops \ {o} : from'[x] = from[x]
    BY Zenon, <1>1, <1>7, <2>1 DEF IInv, TypeOK
  <2>3. Kept' /\ Alone(o) /\ stage'[o] = s /\ stage' \in [Ops -> Stages]
    BY Zenon, <1>6, <1>7
  <2>4. RestOK'
    BY Zenon, <1>1, <1>2, <1>7, <2>2, <2>3 DEF IInv, TypeOK, RestOK
  <2>5. Unrivalled' /\ HeldByWorker'
    BY Zenon, <1>1, <1>2, <1>4, <1>7, <2>2, <2>3, CursorMove DEF Alone, IInv
  <2> QED
    BY Zenon, <2>3, <2>4, <2>5
<1>8. ASSUME stage' = [stage EXCEPT ![o] = "done"], from' = from, pos' \in [Files -> Positions],
             MovesOnly(o), entry[o] # None \/ ~NoMappedSeek(call[o].file)
      PROVE  Kept' /\ RestOK' /\ Unrivalled' /\ HeldByWorker'
  <2>1. Kept' /\ Alone(o) /\ stage'[o] = "done" /\ stage' \in [Ops -> Stages]
    BY Zenon, <1>6, <1>8
  <2>2. RestOK'
    BY Zenon, <1>1, <1>2, <1>8, <2>1 DEF IInv, TypeOK, RestOK
  <2>3. ~Reserved(o)' /\ stage'[o] # "started"
    BY Zenon, <2>1 DEF Reserved
  <2>4. Unrivalled' /\ HeldByWorker'
    BY Zenon, <1>1, <1>2, <1>5, <1>8, <2>1, <2>3, CursorSettles
  <2> QED
    BY Zenon, <2>1, <2>2, <2>4
<1>9. ASSUME ~Read(o) PROVE ~NoMappedSeek(call[o].file)
  BY Zenon, <1>1, <1>5, <1>9 DEF NoMappedSeek
<1>10. ASSUME stage[o] = "finishing" PROVE entry[o] # None
  BY Zenon, <1>1, <1>10 DEF IInv, Staged, StagedAt, Reserved
<1>11. Kept' /\ RestOK' /\ Unrivalled' /\ HeldByWorker'
  BY SMTT(30), <1>1, <1>3, <1>7, <1>8, <1>9, <1>10, ImmediateMoves, CommitMoves
<1> QED
  BY Zenon, <1>2, <1>11, Assemble

-----------------------------------------------------------------------------
(* The supervisor's steps. *)
LEMMA SubmitStep ==
    ASSUME IInv, NEW o \in Ops, Submit(o)
    PROVE  IInv'
<1>1. /\ stage[o] = "new" /\ Mapped(o) /\ hand' = hand
      /\ call' = call /\ cancelled' = cancelled /\ copied' = copied /\ from' = from /\ pos' = pos
  BY Zenon DEF Submit
<1>2. \A x \in Ops \ {o} : stage[x] = "started" => hand'["worker"] = x
  BY Zenon, <1>1 DEF IInv, Staged, StagedAt
<1>3. jobs' = Append(jobs, o) => jobs' \in Seq(Ops)
  BY DEF IInv, TypeOK
<1>4. ASSUME Unordered(o), stage' = [stage EXCEPT ![o] = "posted"], jobs' = Append(jobs, o)
      PROVE  Kept' /\ RestOK' /\ Unrivalled' /\ HeldByWorker'
  <2>1. stage' \in [Ops -> Stages] /\ stage'[o] = "posted"
    BY Zenon, <1>4 DEF IInv, TypeOK, Stages
  <2>2. RestOK'
    BY Zenon, <1>1, <1>3, <1>4, <2>1 DEF IInv, TypeOK, RestOK
  <2>3. UNCHANGED <<entry, file, refs, line>> /\ ~Reserves(o)
    BY Zenon, <1>4 DEF Unordered, registry
  <2>4. entry[o] = None
    BY Zenon, <1>1 DEF IInv, Staged, StagedAt
  <2>5. StagedAt(o)'
    BY Zenon, <1>1, <2>1, <2>3 DEF StagedAt, Reserves, Read, Mapped, Reserved
  <2>6. Kept' /\ Alone(o)
    BY Zenon, <1>1, <1>2, <1>4, <2>3, <2>4, <2>5, Onward
  <2>7. ~Reserved(o)' /\ stage'[o] # "started"
    BY Zenon, <2>1 DEF Reserved
  <2>8. Unrivalled' /\ HeldByWorker'
    BY Zenon, <1>1, <2>6, <2>7, CursorMove DEF Alone, IInv
  <2> QED
    BY Zenon, <2>2, <2>6, <2>8
<1>5. ASSUME NEW e \in Entries, Enroll(o, e),
             NEW s \in {"posted", "waiting"}, stage' = [stage EXCEPT ![o] = s],
             s = "posted" => line[e] = <<>>, jobs' \in {jobs, Append(jobs, o)}
      PROVE  Kept' /\ RestOK' /\ Unrivalled' /\ HeldByWorker'
  <2>1. stage' \in [Ops -> Stages] /\ stage'[o] = s
    BY Zenon, <1>5 DEF IInv, TypeOK, Stages
  <2>2. RestOK'
    BY Zenon, <1>1, <1>3, <1>5, <2>1 DEF IInv, TypeOK, RestOK
  <2>3. Kept' /\ Alone(o)
    <3>1. s \in {"started", "posted", "waiting"} /\ (s # "waiting" => line[e] = <<>>)
          /\ s # "started" /\ (s = "posted" => Mapped(o))
      BY Zenon, <1>1, <1>5
    <3>2. Enroll(o, e) /\ stage' = [stage EXCEPT ![o] = s] /\ call' = call /\ stage[o] = "new"
      BY Zenon, <1>1, <1>5
    <3> QED
      BY Zenon, <1>2, <3>1, <3>2, Joining
  <2>4. ~Reserved(o)' /\ stage'[o] # "started"
    BY Zenon, <2>1 DEF Reserved
  <2>5. Unrivalled' /\ HeldByWorker'
    BY Zenon, <1>1, <2>3, <2>4, CursorMove DEF Alone, IInv
  <2> QED
    BY Zenon, <2>2, <2>3, <2>5
<1>6. Kept' /\ RestOK' /\ Unrivalled' /\ HeldByWorker'
  BY Zenon, <1>4, <1>5 DEF Submit
<1> QED
  BY Zenon, <1>1, <1>6, Assemble

LEMMA ProgressStep ==
    ASSUME IInv, NEW o \in Ops, Progress(o)
    PROVE  IInv'
<1>1. /\ stage[o] = "waiting" /\ Mapped(o) /\ Turn(o) /\ hand' = hand
      /\ stage' = [stage EXCEPT ![o] = "posted"] /\ jobs' = Append(jobs, o)
      /\ call' = call /\ cancelled' = cancelled /\ copied' = copied /\ from' = from
      /\ pos' = pos /\ UNCHANGED <<entry, file, refs, line>>
  BY Zenon DEF Progress, registry
<1>2. \A x \in Ops \ {o} : stage[x] = "started" => hand'["worker"] = x
  BY Zenon, <1>1 DEF IInv, Staged, StagedAt
<1>3. jobs' \in Seq(Ops) /\ stage' \in [Ops -> Stages] /\ stage'[o] = "posted"
  BY <1>1 DEF IInv, TypeOK, Stages
<1>4. RestOK'
  BY Zenon, <1>1, <1>3 DEF IInv, TypeOK, RestOK
<1>5. entry[o] # None
  BY Zenon, <1>1 DEF IInv, Staged, StagedAt
<1>6. StagedAt(o)'
  BY Zenon, <1>1, <1>3, <1>5 DEF StagedAt, Reserved, Mapped
<1>7. line[entry[o]] # <<>> /\ line[entry[o]][1] = o
  BY <1>1, <1>5 DEF Turn, IInv, TypeOK
<1>8. Kept' /\ Alone(o)
  BY Zenon, <1>1, <1>2, <1>6, <1>7, Onward
<1>9. ~Reserved(o)' /\ stage'[o] # "started"
  BY Zenon, <1>3 DEF Reserved
<1>10. Unrivalled' /\ HeldByWorker'
  BY Zenon, <1>1, <1>8, <1>9, CursorMove DEF Alone, IInv
<1> QED
  BY Zenon, <1>1, <1>4, <1>8, <1>10, Assemble

(* A reservation that is offered or is to be settled stays one. *)
LEMMA SettleStep ==
    ASSUME IInv, NEW o \in Ops, Reserved(o), Mapped(o), NEW s \in {"offered", "finishing"},
           stage' = [stage EXCEPT ![o] = s], jobs' \in {jobs, Append(jobs, o)},
           copied' \in [Ops -> BOOLEAN], cancelled' \in [Ops -> BOOLEAN],
           UNCHANGED <<call, from, pos, hand>>, UNCHANGED <<entry, file, refs, line>>
    PROVE  IInv'
<1>1. jobs' \in Seq(Ops)
  <2>1. jobs \in Seq(Ops)
    BY Zenon DEF IInv, TypeOK
  <2>2. Append(jobs, o) \in Seq(Ops)
    BY <2>1
  <2> QED
    BY <2>1, <2>2, Zenon
<1>2. stage' \in [Ops -> Stages] /\ stage'[o] = s
  BY Zenon DEF IInv, TypeOK, Stages
<1>3. RestOK'
  BY Zenon, <1>1, <1>2 DEF IInv, TypeOK, RestOK
<1>4. \A x \in Ops \ {o} : stage[x] = "started" => hand'["worker"] = x
  BY Zenon DEF IInv, Staged, StagedAt
<1>5. stage[o] \in Active /\ stage[o] # "retiring" /\ s # "retiring" /\ StagedAt(o)
  BY Zenon DEF IInv, Staged, Reserved, Active
<1>6. StagedAt(o)'
  BY Zenon, <1>2, <1>5 DEF StagedAt, Reserved, Reserves, Read, Mapped
<1>7. Kept' /\ Alone(o)
  BY Zenon, <1>4, <1>5, <1>6, Onward
<1>8. NoMappedSeek(call[o].file) => pos'[call[o].file] = from'[o]
  BY Zenon DEF IInv, HeldByWorker
<1>9. Unrivalled' /\ HeldByWorker'
  BY Zenon, <1>2, <1>7, <1>8, CursorMove DEF Alone, IInv
<1> QED
  BY Zenon, <1>3, <1>7, <1>9, Assemble

LEMMA FinishStep ==
    ASSUME IInv, NEW o \in Ops, Reserved(o), Mapped(o), NEW c \in BOOLEAN, Finish(o, c),
           cancelled' \in [Ops -> BOOLEAN], UNCHANGED <<call, from, pos, hand>>
    PROVE  IInv'
<1>1. /\ stage' = [stage EXCEPT ![o] = "finishing"] /\ jobs' \in {jobs, Append(jobs, o)}
      /\ UNCHANGED <<entry, file, refs, line>>
  BY Zenon DEF Finish, registry
<1>2. copied' \in [Ops -> BOOLEAN]
  BY Zenon DEF Finish, IInv, TypeOK
<1> QED
  BY Zenon, <1>1, <1>2, SettleStep

LEMMA OfferStep ==
    ASSUME IInv, NEW o \in Ops, Offer(o)
    PROVE  IInv'
<1>1. /\ Reserved(o) /\ Mapped(o) /\ UNCHANGED <<call, from, pos, hand>>
      /\ cancelled' \in [Ops -> BOOLEAN] /\ copied \in [Ops -> BOOLEAN]
  BY Zenon DEF Offer, Reserved, IInv, Staged, StagedAt, TypeOK
<1>2. CASE cancelled[o]
  <2>1. Finish(o, FALSE) /\ FALSE \in BOOLEAN
    BY Zenon, <1>2 DEF Offer
  <2> QED
    BY Zenon, <1>1, <2>1, FinishStep
<1>3. CASE ~cancelled[o]
  <2>1. /\ stage' = [stage EXCEPT ![o] = "offered"] /\ jobs' \in {jobs, Append(jobs, o)}
        /\ copied' = copied /\ UNCHANGED <<entry, file, refs, line>>
    BY Zenon, <1>3 DEF Offer, registry
  <2> QED
    BY Zenon, <1>1, <2>1, SettleStep
<1> QED
  BY Zenon, <1>2, <1>3

LEMMA AckStep ==
    ASSUME IInv, NEW o \in Ops, NEW c \in BOOLEAN, Ack(o, c)
    PROVE  IInv'
<1>1. /\ Reserved(o) /\ Mapped(o) /\ UNCHANGED <<call, from, pos, hand>> /\ Finish(o, c)
      /\ cancelled' \in [Ops -> BOOLEAN]
  BY Zenon DEF Ack, Reserved, IInv, TypeOK
<1> QED
  BY Zenon, <1>1, FinishStep

LEMMA CancelStep ==
    ASSUME IInv, NEW o \in Ops, Cancel(o)
    PROVE  IInv'
<1>1. /\ Mapped(o) /\ UNCHANGED <<call, from, pos>> /\ cancelled' \in [Ops -> BOOLEAN]
      /\ "supervisor" \in Threads /\ "supervisor" # "worker"
  BY Zenon DEF Cancel, IInv, TypeOK, Threads
<1>2. CASE stage[o] = "waiting" /\ Leave(o, "supervisor") /\ UNCHANGED <<copied, jobs>>
  <2>1. stage[o] # "retiring" /\ Leave(o, "supervisor") /\ UNCHANGED <<call, copied, from, jobs, pos>>
    BY Zenon, <1>1, <1>2
  <2> QED
    BY Zenon, <1>1, <2>1, WithdrawStep
<1>3. CASE UNCHANGED <<stage, copied, jobs, hand>> /\ UNCHANGED <<entry, file, refs, line>>
  <2>1. RestOK'
    BY Zenon, <1>1, <1>3 DEF IInv, TypeOK, RestOK
  <2>2. RegistryOK' /\ Entered' /\ Lined'
    BY Zenon, <1>1, <1>3 DEF IInv, TypeOK, RegistryOK, Entered, Lined
  <2>3. Staged'
    BY Zenon, <1>1, <1>3 DEF IInv, Staged, StagedAt, Reserved, Reserves, Read, Mapped
  <2>4. Unrivalled' /\ HeldByWorker'
    BY Zenon, <1>1, <1>3 DEF IInv, Unrivalled, HeldByWorker, Reserved, NoMappedSeek, Read, Mapped
  <2> QED
    BY Zenon, <1>1, <2>1, <2>2, <2>3, <2>4, Assemble DEF Kept
<1>4. CASE stage[o] = "offered" /\ Finish(o, TRUE) /\ hand' = hand
  <2>1. Reserved(o) /\ TRUE \in BOOLEAN /\ Finish(o, TRUE) /\ UNCHANGED <<call, from, pos, hand>>
    BY Zenon, <1>1, <1>4 DEF Reserved
  <2> QED
    BY Zenon, <1>1, <2>1, FinishStep
<1> QED
  BY Zenon, <1>2, <1>3, <1>4 DEF Cancel, registry

LEMMA DropStep ==
    ASSUME IInv, NEW t \in Threads, Drop(t), NEW o \in Ops, o = hand[t]
    PROVE  IInv'
<1>1. /\ stage[o] = "retiring" /\ stage' = [stage EXCEPT ![o] = "over"]
      /\ entry' = [entry EXCEPT ![o] = None] /\ hand' = [hand EXCEPT ![t] = None]
      /\ call' = call /\ cancelled' = cancelled /\ copied' = copied /\ from' = from
      /\ jobs' = jobs /\ pos' = pos
  BY Zenon DEF Drop
<1>2. RestOK'
  BY Zenon, <1>1 DEF IInv, TypeOK, RestOK, Stages
<1>3. Alone(o) /\ stage'[o] = "over" /\ entry'[o] = None
  BY Zenon, <1>1 DEF IInv, TypeOK, Alone
<1>4. StagedAt(o)'
  BY Zenon, <1>3 DEF StagedAt, Reserved
<1>5. ASSUME NEW x \in Ops \ {o}, stage[x] = "started" PROVE hand'["worker"] = x
  <2>1. hand["worker"] = x
    BY Zenon, <1>5 DEF IInv, Staged, StagedAt
  <2> QED
    BY Zenon, <1>1, <2>1 DEF IInv, TypeOK, Threads
<1>6. Staged'
  BY Zenon, <1>1, <1>3, <1>4, <1>5, StagedMove DEF IInv, Alone
<1>7. RegistryOK' /\ Entered' /\ Lined'
  BY Zenon, DropKeeps DEF IInv
<1>8. ~Reserved(o)' /\ stage'[o] # "started"
  BY Zenon, <1>3 DEF Reserved
<1>9. Unrivalled' /\ HeldByWorker'
  BY Zenon, <1>1, <1>3, <1>8, CursorMove DEF Alone, IInv
<1> QED
  BY Zenon, <1>1, <1>2, <1>6, <1>7, <1>9, Assemble DEF Kept

-----------------------------------------------------------------------------
(* The empty registry satisfies the invariant. *)
LEMMA InitInv == Init => IInv
<1> SUFFICES ASSUME Init PROVE IInv
  BY Zenon
<1>1. TypeOK
  <2>1. RegistryOK
    BY DEF Init, RegistryOK
  <2>2. RestOK
    BY OfdAssumption DEF Init, RestOK, Stages, Positions
  <2> QED
    BY Zenon, <2>1, <2>2, TypeParts DEF Init
<1>2. Entered
  <2>1. \A e \in Entries : Users(entry, e) = 0
    BY Zenon, UsersType, OfdAssumption DEF Init
  <2> QED
    BY Zenon, <2>1 DEF Init, Entered
<1>3. Lined
  BY OfdAssumption DEF Init, Lined, In, Distinct, Active
<1>4. Staged /\ Unrivalled /\ HeldByWorker
  BY Zenon DEF Init, Staged, StagedAt, Reserved, Unrivalled, HeldByWorker
<1> QED
  BY Zenon, <1>1, <1>2, <1>3, <1>4 DEF IInv

(* Every step preserves it. *)
LEMMA StepInv == IInv /\ [Next]_vars => IInv'
<1> SUFFICES ASSUME IInv, [Next]_vars PROVE IInv'
  BY Zenon
<1>1. ASSUME NEW t \in Threads, Drop(t) PROVE IInv'
  <2>1. PICK o \in Ops : o = hand[t]
    BY Zenon, <1>1 DEF Drop, IInv, TypeOK
  <2> QED
    BY Zenon, <1>1, <2>1, DropStep
<1>2. ASSUME NEW o \in Ops, Withdraw(o) PROVE IInv'
  <2>1. /\ stage[o] # "retiring" /\ Idle("worker") /\ Leave(o, "worker") /\ "worker" \in Threads
        /\ UNCHANGED <<call, copied, from, jobs, pos>> /\ cancelled' \in [Ops -> BOOLEAN]
    BY Zenon, <1>2 DEF Withdraw, Threads, IInv, TypeOK
  <2> QED
    BY Zenon, <2>1, WithdrawStep
<1>3. ASSUME NEW o \in Ops, Dispose(o) PROVE IInv'
  <2>1. /\ stage[o] # "retiring" /\ Leave(o, "supervisor") /\ "supervisor" \in Threads
        /\ UNCHANGED <<call, copied, from, jobs, pos>> /\ cancelled' \in [Ops -> BOOLEAN]
    BY Zenon, <1>3 DEF Dispose, Threads, IInv, TypeOK
  <2> QED
    BY Zenon, <2>1, WithdrawStep
<1>4. CASE Run
  <2>1. PICK o \in Ops : o = Head(jobs)
    BY <1>4 DEF Run, IInv, TypeOK
  <2> QED
    BY Zenon, <1>4, <2>1, RunStep
<1>5. CASE UNCHANGED vars
  <2>1. TypeOK' /\ Entered' /\ Lined'
    BY Zenon, <1>5 DEF vars, IInv, TypeOK, Entered, Lined
  <2>2. Staged' /\ Unrivalled' /\ HeldByWorker'
    BY <1>5 DEF vars, IInv, Staged, StagedAt, Reserved, Reserves, Read, Mapped, Unrivalled,
                HeldByWorker, NoMappedSeek
  <2> QED
    BY Zenon, <2>1, <2>2 DEF IInv
<1> QED
  BY Zenon, <1>1, <1>2, <1>3, <1>4, <1>5, ArriveStep, ResumeStep, ServeStep, AnswerStep, SubmitStep,
     ProgressStep, OfferStep, AckStep, CancelStep DEF Next, Steps

(* Every reachable state satisfies the inductive invariant. *)
THEOREM Invariance == Spec => []IInv
  BY InitInv, StepInv, PTL DEF Spec

(* An entry is freed exactly with its last request, its count is the       *)
(* number of requests that hold it, and no description ever has two, for   *)
(* any number of requests on the two threads (md_ofd_order_begin, drop).   *)
THEOREM EntriesAreSound == Spec => []EntriesSound
<1>1. IInv => EntriesSound
  BY Zenon DEF IInv, EntriesSound, Entered, Users
<1> QED
  BY <1>1, Invariance, PTL

(* Where no mapped request seeks, a read's commit finds the description    *)
(* where the read took its records (directory_finish).                     *)
THEOREM PositionsAreHeld == Spec => []HeldByWorker
<1>1. IInv => HeldByWorker
  BY Zenon DEF IInv
<1> QED
  BY <1>1, Invariance, PTL

\* No two reads have records of one description in hand.
OneReservation ==
    \A o, x \in Ops : Reserved(o) /\ Reserved(x) /\ call[o].file = call[x].file => o = x

(* Whatever else happens, mapped seeks included, the records of a          *)
(* description are reserved by one read at a time.                         *)
THEOREM ReservationsExclude == Spec => []OneReservation
<1>1. ASSUME IInv PROVE OneReservation
  <2> SUFFICES ASSUME NEW o \in Ops, NEW x \in Ops, Reserved(o), Reserved(x),
                      call[o].file = call[x].file, o # x
               PROVE  FALSE
    BY Zenon DEF OneReservation
  <2>1. stage[o] \in Active /\ entry[o] # None
    BY Zenon, <1>1 DEF IInv, Staged, StagedAt, Reserved, Active
  <2> QED
    BY Zenon, <1>1, <2>1, NoRival DEF IInv
<1> QED
  BY <1>1, Invariance, PTL
=============================================================================
