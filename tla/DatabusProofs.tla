--------------------------- MODULE DatabusProofs ---------------------------
(***************************************************************************)
(* Proofs about Databus: type correctness, that no notification is lost,   *)
(* and how far what observers read may be behind, for every set of points, *)
(* keys, values and callbacks and without any bound on the number of calls *)
(* in flight.                                                              *)
(***************************************************************************)
EXTENDS Databus, SequenceTheorems, TLAPS

LEMMA NoEntryType == /\ NoEntry \in Entry
                     /\ \A p \in Points : NoEntry.val \in Stored(p)
<1>1. Absent \in AllStored /\ \A p \in Points : Absent \in Stored(p)
  BY DEF AllStored, Stored
<1> QED
  BY <1>1 DEF NoEntry, Entry

(* Nobody observes anything.                                               *)
LEMMA NoObservers == [k \in Keys |-> <<>>] \in [Keys -> Seq(Callbacks)]
<1>1. <<>> \in Seq(Callbacks)
  BY EmptySeq
<1> QED
  BY <1>1, Zenon

LEMMA NewEntryType ==
  ASSUME TypeOK, NEW k \in Keys, NEW v \in Values(k.point), NEW delay \in BOOLEAN
  PROVE  NewEntry(k, v, delay) \in Entry
  BY DEF TypeOK, NewEntry, Entry, AllStored, Stored, Keys

LEMMA NewTaskType ==
  ASSUME TypeOK, NEW k \in Keys, NEW entry \in Entry, NEW sync \in BOOLEAN
  PROVE  NewTask(k, entry, sync) \in Task
  BY DEF TypeOK, NewTask, Task

LEMMA RunningType ==
  ASSUME NEW t \in Task, NEW n \in Nat
  PROVE  /\ Running(t, n) \in Task
         /\ Running(t, n).id = t.id
         /\ Running(t, n).key = t.key
         /\ Running(t, n).entry = t.entry
         /\ Running(t, n).pc = "calling"
         /\ Running(t, n).pos = n
  BY DEF Running, Task

(* Reading a value of the right type keeps seen and aborted well typed.    *)
LEMMA ReadType ==
  ASSUME TypeOK, NEW k \in Keys, NEW n \in 1..Len(observers[k]),
         NEW entry \in Entry, Read(k, n, entry)
  PROVE  /\ seen' \in [Keys -> [Callbacks -> Entry]]
         /\ aborted' \subseteq Keys \X Callbacks
  BY DEF TypeOK, Read, CbAt

LEMMA ObservedLen ==
  ASSUME TypeOK, NEW k \in Keys, Observed(k)
  PROVE  1 \in 1..Len(observers[k])
  BY EmptySeq, LenProperties DEF TypeOK, Observed

(* What reset and initialize leave alone or clear stays well typed.        *)
LEMMA DiscardType ==
  ASSUME TypeOK, Discard
  PROVE  /\ future' \in [Points -> Entry]
         /\ \A p \in Points : future'[p].val \in Stored(p)
         /\ observers' \in [Keys -> Seq(Callbacks)]
         /\ tasks' \subseteq Task
         /\ \A t \in tasks' : t.entry.val \in Values(t.key.point)
         /\ seen' \in [Keys -> [Callbacks -> Entry]]
         /\ aborted' \subseteq Keys \X Callbacks
<1>1. observers' \in [Keys -> Seq(Callbacks)]
  BY NoObservers DEF Discard
<1>2. tasks' \subseteq tasks
  BY DEF Discard
<1> QED
  BY <1>1, <1>2 DEF Discard, TypeOK

LEMMA StoreType ==
  ASSUME TypeOK, NEW k \in Keys, NEW v \in Values(k.point),
         NEW delay \in BOOLEAN, NEW sync \in BOOLEAN,
         Store(k, v, delay, sync), Counted
  PROVE  TypeOK'
<1> DEFINE entry == NewEntry(k, v, delay)
<1>1. k.point \in Points
  BY DEF Keys
<1>2. entry \in Entry /\ entry.val = v
  BY NewEntryType DEF NewEntry
<1>3. NewTask(k, entry, sync) \in Task
  BY <1>2, NewTaskType
<1>4. NewTask(k, entry, sync).entry = entry /\ NewTask(k, entry, sync).key = k
  BY DEF NewTask
<1>5. /\ data' \in [Points -> Entry]
      /\ \A p \in Points : data'[p].val \in Stored(p)
  BY <1>1, <1>2 DEF TypeOK, Store, Stored
<1>6. /\ tasks' \subseteq Task
      /\ \A t \in tasks' : t.entry.val \in Values(t.key.point)
  BY <1>2, <1>3, <1>4 DEF TypeOK, Store
<1>7. /\ seen' \in [Keys -> [Callbacks -> Entry]]
      /\ aborted' \subseteq Keys \X Callbacks
  <2>1. CASE Observed(k) /\ sync
    BY <2>1, <1>2, ObservedLen, ReadType DEF Store
  <2>2. CASE ~(Observed(k) /\ sync)
    BY <2>2 DEF Store, TypeOK
  <2> QED
    BY <2>1, <2>2
<1> QED
  BY <1>5, <1>6, <1>7 DEF TypeOK, Counted

LEMMA EnterLoopType ==
  ASSUME TypeOK, NEW t \in tasks, NEW entry \in Entry, EnterLoop(t, entry)
  PROVE  /\ tasks' \subseteq Task
         /\ \A u \in tasks' : u.entry.val \in Values(u.key.point)
         /\ seen' \in [Keys -> [Callbacks -> Entry]]
         /\ aborted' \subseteq Keys \X Callbacks
<1>1. t \in Task /\ t.key \in Keys
  BY DEF TypeOK, Task
<1>2. CASE Observed(t.key)
  <2>1. 1 \in 1..Len(observers[t.key])
    BY <1>1, <1>2, ObservedLen
  <2>2. Read(t.key, 1, entry) /\ tasks' = (tasks \ {t}) \cup {Running(t, 1)}
    BY <1>2 DEF EnterLoop
  <2>3. /\ tasks' \subseteq Task
        /\ \A u \in tasks' : u.entry.val \in Values(u.key.point)
    <3>1. /\ Running(t, 1) \in Task
          /\ Running(t, 1).entry = t.entry
          /\ Running(t, 1).key = t.key
      BY <1>1, RunningType
    <3> QED
      BY <2>2, <3>1 DEF TypeOK
  <2>4. /\ seen' \in [Keys -> [Callbacks -> Entry]]
        /\ aborted' \subseteq Keys \X Callbacks
    BY <1>1, <2>1, <2>2, ReadType
  <2> QED
    BY <2>3, <2>4
<1>3. CASE ~Observed(t.key)
  BY <1>3 DEF EnterLoop, TypeOK
<1> QED
  BY <1>2, <1>3

THEOREM TypeCorrect == Spec => []TypeOK
<1>1. Init => TypeOK
  <2> SUFFICES ASSUME Init PROVE TypeOK
    OBVIOUS
  <2>1. /\ data \in [Points -> Entry]
        /\ future \in [Points -> Entry]
    BY NoEntryType DEF Init
  <2>2. \A p \in Points : data[p].val \in Stored(p) /\ future[p].val \in Stored(p)
    BY NoEntryType DEF Init
  <2>3. observers \in [Keys -> Seq(Callbacks)]
    BY NoObservers DEF Init
  <2>4. seen \in [Keys -> [Callbacks -> Entry]]
    BY NoEntryType DEF Init
  <2> QED
    BY <2>1, <2>2, <2>3, <2>4 DEF Init, TypeOK
<1>2. TypeOK /\ [Next]_vars => TypeOK'
  <2> SUFFICES ASSUME TypeOK, [Next]_vars PROVE TypeOK'
    OBVIOUS
  <2>1. ASSUME NEW k \in Written, NEW forced \in BOOLEAN, NEW delay \in BOOLEAN,
               NEW sync \in BOOLEAN, NEW v \in Values(k.point),
               SetValue(k, v, forced, delay, sync)
        PROVE  TypeOK'
    <3>1. k \in Keys
      BY DatabusAssumption
    <3>2. CASE Accepts(k.point, v, forced)
      BY <2>1, <3>1, <3>2, StoreType DEF SetValue
    <3>3. CASE ~Accepts(k.point, v, forced)
      BY <2>1, <3>3 DEF SetValue, Counted, TypeOK
    <3> QED
      BY <3>2, <3>3
  <2>2. ASSUME NEW k \in Written, NEW forced \in BOOLEAN, NEW i \in 0..Length,
               NEW e \in Elems, SetElem(k, i, e, forced)
        PROVE  TypeOK'
    <3>1. k \in Keys /\ k.point \in Points
      BY DatabusAssumption DEF Keys
    <3>2. CASE AcceptsElem(k.point, i, e, forced)
      <4> DEFINE v == [data[k.point].val EXCEPT ![i + 1] = e]
      <4>1. v \in Values(k.point)
        BY <2>2, <3>1, <3>2 DEF SetElem, AcceptsElem, TypeOK, Stored, Values
      <4>2. Store(k, v, FALSE, FALSE) /\ Counted
        BY <2>2, <3>2 DEF SetElem
      <4> QED
        BY <3>1, <4>1, <4>2, StoreType
    <3>3. CASE ~AcceptsElem(k.point, i, e, forced)
      BY <2>2, <3>3 DEF SetElem, Counted, TypeOK
    <3> QED
      BY <3>2, <3>3
  <2>3. ASSUME NEW t \in tasks, Begin(t)
        PROVE  TypeOK'
    <3>1. t \in Task /\ t.key \in Keys /\ t.key.point \in Points
      BY DEF TypeOK, Task, Keys
    <3>2. CASE t.entry.late
      <4>1. [t EXCEPT !.pc = "sleeping"] \in Task
        BY <3>1 DEF Task
      <4>2. /\ [t EXCEPT !.pc = "sleeping"].entry = t.entry
            /\ [t EXCEPT !.pc = "sleeping"].key = t.key
        BY <3>1 DEF Task
      <4>3. t.entry \in Entry /\ t.entry.val \in Stored(t.key.point)
        BY <3>1 DEF TypeOK, Task, Stored
      <4>4. /\ future' \in [Points -> Entry]
            /\ \A p \in Points : future'[p].val \in Stored(p)
        BY <2>3, <3>1, <3>2, <4>3 DEF Begin, TypeOK
      <4> QED
        BY <2>3, <3>2, <4>1, <4>2, <4>4 DEF Begin, TypeOK
    <3>3. CASE ~t.entry.late
      <4>1. data[t.key.point] \in Entry /\ EnterLoop(t, data[t.key.point])
        BY <2>3, <3>1, <3>3 DEF Begin, TypeOK
      <4> QED
        BY <2>3, <3>3, <4>1, EnterLoopType DEF Begin, TypeOK
    <3> QED
      BY <3>2, <3>3
  <2>4. ASSUME NEW t \in tasks, Wake(t)
        PROVE  TypeOK'
    <3>1. t.key.point \in Points
      BY DEF TypeOK, Task, Keys
    <3>2. future[t.key.point] \in Entry /\ EnterLoop(t, future[t.key.point])
      BY <2>4, <3>1 DEF Wake, TypeOK
    <3> QED
      BY <2>4, <3>1, <3>2, EnterLoopType DEF Wake, TypeOK
  <2>5. ASSUME NEW t \in tasks, CallbackReturns(t)
        PROVE  TypeOK'
    <3> DEFINE n == t.pos + 1
    <3>1. t \in Task /\ t.key \in Keys /\ t.key.point \in Points /\ t.pos \in Nat
      BY DEF TypeOK, Task, Keys
    <3>2. CASE n <= Len(observers[t.key])
      <4>1. n \in 1..Len(observers[t.key])
        BY <3>1, <3>2, LenProperties DEF TypeOK
      <4>2. /\ tasks' = (tasks \ {t}) \cup {Running(t, n)}
            /\ Read(t.key, n, data[t.key.point])
        BY <2>5, <3>2 DEF CallbackReturns
      <4>3. data[t.key.point] \in Entry
        BY <3>1 DEF TypeOK
      <4>4. /\ seen' \in [Keys -> [Callbacks -> Entry]]
            /\ aborted' \subseteq Keys \X Callbacks
        BY <3>1, <4>1, <4>2, <4>3, ReadType
      <4>5. /\ tasks' \subseteq Task
            /\ \A u \in tasks' : u.entry.val \in Values(u.key.point)
        <5>1. n \in Nat
          BY <3>1
        <5> HIDE DEF n
        <5>2. /\ Running(t, n) \in Task
              /\ Running(t, n).entry = t.entry
              /\ Running(t, n).key = t.key
          BY <3>1, <5>1, RunningType
        <5> QED
          BY <4>2, <5>2 DEF TypeOK
      <4> QED
        BY <2>5, <4>4, <4>5 DEF CallbackReturns, TypeOK
    <3>3. CASE ~(n <= Len(observers[t.key]))
      BY <2>5, <3>3 DEF CallbackReturns, TypeOK
    <3> QED
      BY <3>2, <3>3
  <2>6. ASSUME NEW t \in tasks, CallbackRaises(t)
        PROVE  TypeOK'
    <3>1. t.key \in Keys
      BY DEF TypeOK, Task
    <3>2. Owed(t.key, t.pos) \subseteq Keys \X Callbacks
      BY <3>1, LenProperties DEF Owed, CbAt, TypeOK
    <3> QED
      BY <2>6, <3>2 DEF CallbackRaises, TypeOK
  <2>7. ASSUME NEW i \in Interest, Observe(i[1], i[2])
        PROVE  TypeOK'
    <3>1. i[1] \in Keys /\ i[2] \in Callbacks /\ i[1].point \in Points
      BY DatabusAssumption DEF Keys
    <3>2. observers' \in [Keys -> Seq(Callbacks)]
      BY <2>7, <3>1, AppendProperties DEF Observe, TypeOK
    <3> QED
      BY <2>7, <3>1, <3>2 DEF Observe, TypeOK
  <2>8. CASE Reset
    <3>1. /\ data' \in [Points -> Entry]
          /\ \A p \in Points : data'[p].val \in Stored(p)
      BY <2>8, NoEntryType DEF Reset
    <3>2. initialized' \in BOOLEAN /\ Discard
      BY <2>8 DEF Reset
    <3>4. sets' \in Nat /\ resets' \in Nat
      BY <2>8 DEF Reset, TypeOK
    <3> QED
      BY <3>1, <3>2, <3>4, DiscardType DEF TypeOK
  <2>9. CASE Initialize
    <3>1. ASSUME NEW p \in Points
          PROVE  data'[p] \in Entry /\ data'[p].val \in Stored(p)
      <4>1. CASE Defaults[p] = Absent
        BY <2>9, <4>1, NoEntryType DEF Initialize
      <4>2. CASE Defaults[p] # Absent
        <5> DEFINE k == [prefix |-> "", point |-> p]
        <5>1. Defaults[p] \in Stored(p) /\ Defaults[p] \in AllStored
          BY DatabusAssumption DEF Stored, AllStored
        <5>2. k \in Keys
          BY DEF Keys, Prefixes
        <5>3. data'[p] = [val |-> Defaults[p], by |-> sets + 1, via |-> k, late |-> FALSE]
          BY <2>9, <4>2 DEF Initialize
        <5>4. sets + 1 \in Nat
          BY DEF TypeOK
        <5> HIDE DEF k
        <5>5. data'[p] \in Entry
          BY <5>1, <5>2, <5>3, <5>4 DEF Entry
        <5>6. data'[p].val = Defaults[p]
          BY <5>3
        <5> QED
          BY <5>1, <5>5, <5>6
      <4> QED
        BY <4>1, <4>2
    <3>2. data' \in [Points -> Entry]
      BY <2>9, <3>1 DEF Initialize
    <3>3. initialized' \in BOOLEAN /\ Discard
      BY <2>9 DEF Initialize
    <3>4. sets' \in Nat /\ resets' \in Nat
      <4>1. sets' = sets + 1 /\ (resets' = resets + 1 \/ resets' = resets)
        BY <2>9, Zenon DEF Initialize
      <4> QED
        BY <4>1 DEF TypeOK
    <3> QED
      BY <3>1, <3>2, <3>3, <3>4, DiscardType DEF TypeOK
  <2>10. CASE UNCHANGED vars
    BY <2>10 DEF vars, TypeOK
  <2> QED
    BY <2>1, <2>2, <2>3, <2>4, <2>5, <2>6, <2>7, <2>8, <2>9, <2>10
       DEF Next, Caller, Notifier
<1> QED
  BY <1>1, <1>2, PTL DEF Spec
-----------------------------------------------------------------------------
(* NoLostNotification in the form the steps use it.                        *)
LEMMA StillCalled ==
  ASSUME NoLostNotification, NEW k \in Keys, NEW n \in DOMAIN observers[k],
         data[k.point].via = k, seen[k][CbAt(k, n)].by # data[k.point].by,
         <<k, CbAt(k, n)>> \notin aborted
  PROVE  \E t \in tasks : WillCall(t, k, n)
  BY DEF NoLostNotification, Stale, Registered

(* What Read changes and what it leaves alone.                             *)
LEMMA ReadFresh ==
  ASSUME TypeOK, NEW k \in Keys, NEW m \in 1..Len(observers[k]),
         NEW entry \in Entry, Read(k, m, entry)
  PROVE  /\ seen'[k][CbAt(k, m)] = entry
         /\ \A l \in Keys, c \in Callbacks :
              ~(l = k /\ c = CbAt(k, m)) =>
                 /\ seen'[l][c] = seen[l][c]
                 /\ <<l, c>> \notin aborted' => <<l, c>> \notin aborted
  BY DEF TypeOK, Read, CbAt

(* A step in which some notify_observers call r enters callback m of its   *)
(* key, instead of calls that had nothing but m and later ones before them.*)
LEMMA LoopStep ==
  ASSUME TypeOK, NoLostNotification, UNCHANGED observers,
         NEW k \in Keys, NEW m \in 1..Len(observers[k]),
         data'[k.point] \in Entry, Read(k, m, data'[k.point]),
         \A l \in Keys \ {k} : data'[l.point].via = l => data'[l.point] = data[l.point],
         m = 1 \/ data'[k.point] = data[k.point],
         NEW r \in tasks', r.key = k, r.pos = m,
         \A u \in tasks \ tasks' :
            u.key = k /\ \A n \in 1..Len(observers[k]) : WillCall(u, k, n) => n >= m
  PROVE  NoLostNotification'
<1> SUFFICES ASSUME NEW l \in Keys, NEW n \in DOMAIN observers[l],
                    Stale(l, CbAt(l, n))'
             PROVE  \E t \in tasks' : WillCall(t, l, n)
  BY DEF NoLostNotification, WillCall, CbAt
<1> DEFINE c == CbAt(l, n)
<1>1. c \in Callbacks /\ n \in 1..Len(observers[l]) /\ m \in Nat
  BY LenProperties DEF TypeOK, CbAt
<1>2. /\ data'[l.point].via = l
      /\ seen'[l][c].by # data'[l.point].by
      /\ <<l, c>> \notin aborted'
  BY DEF Stale, CbAt
<1>3. ~(l = k /\ c = CbAt(k, m))
  BY <1>2, ReadFresh
<1>4. seen'[l][c] = seen[l][c] /\ <<l, c>> \notin aborted
  BY <1>1, <1>2, <1>3, ReadFresh
<1>5. CASE l = k /\ n > m
  <2>1. WillCall(r, l, n)
    BY <1>5 DEF WillCall
  <2> QED
    BY <2>1
<1>6. CASE l # k \/ n < m
  <2>1. data'[l.point] = data[l.point]
    BY <1>1, <1>2, <1>6
  <2>2. PICK u \in tasks : WillCall(u, l, n)
    BY <1>2, <1>4, <2>1, StillCalled
  <2>3. u \in tasks'
    BY <1>1, <1>6, <2>2 DEF WillCall
  <2> QED
    BY <2>2, <2>3
<1>7. l # k \/ n < m \/ n > m
  BY <1>1, <1>3
<1> QED
  BY <1>5, <1>6, <1>7

LEMMA StoreKeeps ==
  ASSUME Inv, NEW k \in Keys, NEW v \in Values(k.point), NEW delay \in BOOLEAN,
         NEW sync \in BOOLEAN, delay => k \in DelayKeys /\ ~sync,
         Store(k, v, delay, sync), Counted
  PROVE  TaskInv' /\ NoLostNotification'
<1> DEFINE entry == NewEntry(k, v, delay)
           task == NewTask(k, entry, sync)
<1>1. TypeOK /\ TaskInv /\ NoLostNotification /\ UNCHANGED <<observers, future>>
  BY DEF Inv, Counted
<1>2. k.point \in Points
  BY DEF Keys
<1>3. entry \in Entry /\ entry.via = k /\ entry.late = delay
  BY <1>1, NewEntryType DEF NewEntry
<1>4. /\ data'[k.point] = entry
      /\ \A l \in Keys : data'[l.point] = data[l.point] \/ data'[l.point].via = k
  BY <1>1, <1>2, <1>3 DEF Store, TypeOK, Keys
<1>5. /\ task.key = k /\ task.entry = entry
      /\ task.pc = IF sync THEN "calling" ELSE "spawned"
      /\ task.pos = IF sync THEN 1 ELSE 0
  BY DEF NewTask
<1> HIDE DEF entry, task
<1>6. tasks' = tasks \/ tasks' = tasks \cup {task}
  BY DEF Store, entry, task
<1>7. Observed(k) => task \in tasks'
  BY DEF Store, entry, task
<1>8. TaskInv'
  BY <1>1, <1>3, <1>5, <1>6 DEF TaskInv
<1>9. CASE Observed(k) /\ sync
  <2>1. Read(k, 1, data'[k.point]) /\ 1 \in 1..Len(observers[k])
    BY <1>1, <1>4, <1>9, ObservedLen DEF Store, entry
  <2>2. task.pos = 1 /\ task \in tasks' /\ task.key = k
    BY <1>5, <1>7, <1>9
  <2>3. \A l \in Keys \ {k} : data'[l.point].via = l => data'[l.point] = data[l.point]
    BY <1>4
  <2>4. tasks \ tasks' = {}
    BY <1>6
  <2>5. data'[k.point] \in Entry
    BY <1>3, <1>4
  <2> QED
    BY <1>1, <1>8, <2>1, <2>2, <2>3, <2>4, <2>5, LoopStep
<1>10. CASE ~(Observed(k) /\ sync)
  <2> SUFFICES ASSUME NEW l \in Keys, NEW n \in DOMAIN observers[l],
                      Stale(l, CbAt(l, n))'
               PROVE  \E t \in tasks' : WillCall(t, l, n)
    BY <1>1, <1>8 DEF NoLostNotification, WillCall, CbAt
  <2>1. UNCHANGED <<seen, aborted>>
    BY <1>10 DEF Store
  <2>2. CASE l = k
    <3>1. Observed(k)
      BY <2>2 DEF Observed
    <3>2. WillCall(task, l, n)
      BY <1>5, <1>10, <2>2, <3>1 DEF WillCall
    <3> QED
      BY <1>7, <3>1, <3>2
  <2>3. CASE l # k
    <3>1. /\ data'[l.point].via = l
          /\ seen[l][CbAt(l, n)].by # data'[l.point].by
          /\ <<l, CbAt(l, n)>> \notin aborted
      BY <1>1, <2>1 DEF Stale, CbAt
    <3>2. data'[l.point] = data[l.point]
      BY <1>4, <2>3, <3>1
    <3>3. \E t \in tasks : WillCall(t, l, n)
      BY <1>1, <3>1, <3>2, StillCalled
    <3> QED
      BY <1>6, <3>3
  <2> QED
    BY <2>2, <2>3
<1> QED
  BY <1>8, <1>9, <1>10

(* A notification that has not called anybody yet starts its loop.         *)
LEMMA EnterLoopKeeps ==
  ASSUME Inv, NEW t \in tasks, t.pc # "calling", UNCHANGED observers,
         data'[t.key.point] \in Entry, EnterLoop(t, data'[t.key.point]),
         \A l \in Keys \ {t.key} :
            data'[l.point].via = l => data'[l.point] = data[l.point],
         UNCHANGED future
  PROVE  TaskInv' /\ NoLostNotification'
<1> DEFINE k == t.key
           r == Running(t, 1)
<1>1. TypeOK /\ TaskInv /\ NoLostNotification
  BY DEF Inv
<1>2. t \in Task /\ k \in Keys
  BY <1>1 DEF TypeOK, Task
<1>3. r.key = k /\ r.pc = "calling" /\ r.pos = 1 /\ r.entry = t.entry
  BY <1>2, RunningType
<1>4. CASE Observed(k)
  <2>1. tasks' = (tasks \ {t}) \cup {r} /\ Read(k, 1, data'[k.point])
    BY <1>4 DEF EnterLoop
  <2>2. 1 \in 1..Len(observers[k])
    BY <1>1, <1>2, <1>4, ObservedLen
  <2> HIDE DEF r
  <2>3. TaskInv'
    BY <1>1, <1>3, <2>1 DEF TaskInv
  <2>4. \A u \in tasks \ tasks' :
           u.key = k /\ \A n \in 1..Len(observers[k]) : WillCall(u, k, n) => n >= 1
    BY <2>1
  <2> QED
    BY <1>1, <1>2, <1>3, <2>1, <2>2, <2>3, <2>4, LoopStep
<1>5. CASE ~Observed(k)
  <2>1. tasks' = tasks \ {t} /\ UNCHANGED <<seen, aborted>>
    BY <1>5 DEF EnterLoop
  <2>2. TaskInv'
    BY <1>1, <2>1 DEF TaskInv
  <2>3. NoLostNotification'
    <3> SUFFICES ASSUME NEW l \in Keys, NEW n \in DOMAIN observers[l],
                        Stale(l, CbAt(l, n))'
                 PROVE  \E u \in tasks' : WillCall(u, l, n)
      BY DEF NoLostNotification, WillCall, CbAt
    <3>1. l # k
      BY <1>5 DEF Observed
    <3>2. /\ data[l.point].via = l
          /\ seen[l][CbAt(l, n)].by # data[l.point].by
          /\ <<l, CbAt(l, n)>> \notin aborted
      BY <2>1, <3>1 DEF Stale, CbAt
    <3>3. PICK u \in tasks : WillCall(u, l, n)
      BY <1>1, <3>2, StillCalled
    <3> QED
      BY <2>1, <3>1, <3>3 DEF WillCall
  <2> QED
    BY <2>2, <2>3
<1> QED
  BY <1>4, <1>5

LEMMA BeginKeeps ==
  ASSUME Inv, NEW t \in tasks, Begin(t)
  PROVE  TaskInv' /\ NoLostNotification'
<1>1. TypeOK /\ TaskInv /\ NoLostNotification /\ UNCHANGED <<data, observers>>
  BY DEF Inv, Begin
<1>2. t \in Task /\ t.key \in Keys /\ t.key.point \in Points /\ t.pc = "spawned"
  BY <1>1 DEF TypeOK, Task, Keys, Begin
<1>3. CASE ~t.entry.late
  BY <1>1, <1>2, <1>3, EnterLoopKeeps DEF Begin, TypeOK
<1>4. CASE t.entry.late
  <2> DEFINE s == [t EXCEPT !.pc = "sleeping"]
  <2>1. s.key = t.key /\ s.entry = t.entry /\ s.pc = "sleeping" /\ s.pos = t.pos
    BY <1>2 DEF Task
  <2>2. /\ future' = [future EXCEPT ![t.key.point] = t.entry]
        /\ tasks' = (tasks \ {t}) \cup {s}
        /\ UNCHANGED <<seen, aborted>>
    BY <1>4 DEF Begin
  <2> HIDE DEF s
  <2>3. TaskInv'
    <3> SUFFICES ASSUME NEW u \in tasks'
                 PROVE  /\ u.entry.via = u.key
                        /\ u.entry.late => u.key \in DelayKeys
                        /\ u.pc # "calling" => u.pos = 0
                        /\ u.pc = "sleeping" =>
                             u.entry.late /\ future'[u.key.point].via = u.key
      BY DEF TaskInv
    <3>1. future'[t.key.point] = t.entry /\ t.entry.via = t.key /\ t.key \in DelayKeys
      BY <1>1, <1>2, <1>4, <2>2 DEF TaskInv, TypeOK
    <3>2. CASE u = s
      BY <1>1, <1>2, <1>4, <2>1, <3>1, <3>2 DEF TaskInv
    <3>3. CASE u \in tasks
      <4>1. u.key.point \in Points /\ u.key \in Keys
        BY <1>1, <3>3 DEF TypeOK, Task, Keys
      <4>2. u.pc = "sleeping" => u.key \in DelayKeys
        BY <1>1, <3>3 DEF TaskInv
      <4>3. u.pc = "sleeping" /\ u.key.point = t.key.point => u.key = t.key
        BY <3>1, <4>2, DatabusAssumption
      <4>4. u.key.point # t.key.point => future'[u.key.point] = future[u.key.point]
        BY <1>1, <2>2, <4>1 DEF TypeOK
      <4> QED
        BY <1>1, <3>1, <3>3, <4>3, <4>4 DEF TaskInv
    <3> QED
      BY <2>2, <3>2, <3>3
  <2>4. NoLostNotification'
    <3> SUFFICES ASSUME NEW l \in Keys, NEW n \in DOMAIN observers[l],
                        Stale(l, CbAt(l, n))'
                 PROVE  \E u \in tasks' : WillCall(u, l, n)
      BY <1>1 DEF NoLostNotification, WillCall, CbAt
    <3>1. /\ data[l.point].via = l
          /\ seen[l][CbAt(l, n)].by # data[l.point].by
          /\ <<l, CbAt(l, n)>> \notin aborted
      BY <1>1, <2>2 DEF Stale, CbAt
    <3>2. PICK u \in tasks : WillCall(u, l, n)
      BY <1>1, <3>1, StillCalled
    <3>3. u = t => WillCall(s, l, n)
      BY <2>1, <3>2 DEF WillCall
    <3> QED
      BY <2>2, <3>2, <3>3
  <2> QED
    BY <2>3, <2>4
<1> QED
  BY <1>3, <1>4

LEMMA WakeKeeps ==
  ASSUME Inv, NEW t \in tasks, Wake(t)
  PROVE  TaskInv' /\ NoLostNotification'
<1> DEFINE k == t.key
<1>1. TypeOK /\ TaskInv /\ NoLostNotification
  BY DEF Inv
<1>2. k \in Keys /\ k.point \in Points
  BY <1>1 DEF TypeOK, Task, Keys
<1>3. data'[k.point] = future[k.point] /\ future[k.point] \in Entry
  BY <1>1, <1>2 DEF Wake, TypeOK
<1>4. future[k.point].via = k
  BY <1>1 DEF TaskInv, Wake
<1>5. ASSUME NEW l \in Keys \ {k}, data'[l.point].via = l
      PROVE  data'[l.point] = data[l.point]
  <2>1. l.point # k.point
    BY <1>3, <1>4, <1>5
  <2> QED
    BY <1>1, <2>1 DEF Wake, TypeOK, Keys
<1>6. EnterLoop(t, data'[k.point]) /\ t.pc # "calling" /\ UNCHANGED <<observers, future>>
  BY <1>3 DEF Wake
<1> QED
  BY <1>3, <1>5, <1>6, EnterLoopKeeps

LEMMA CallbackReturnsKeeps ==
  ASSUME Inv, NEW t \in tasks, CallbackReturns(t)
  PROVE  TaskInv' /\ NoLostNotification'
<1> DEFINE k == t.key
           n == t.pos + 1
           r == Running(t, n)
<1>1. TypeOK /\ TaskInv /\ NoLostNotification
  BY DEF Inv
<1>2. /\ t \in Task /\ k \in Keys /\ k.point \in Points
      /\ t.pos \in Nat /\ t.pc = "calling"
  BY <1>1 DEF TypeOK, Task, Keys, CallbackReturns
<1>3. UNCHANGED <<data, future, observers>>
  BY DEF CallbackReturns
<1>4. Len(observers[k]) \in Nat
  BY <1>1, <1>2, LenProperties DEF TypeOK
<1>5. CASE n <= Len(observers[k])
  <2>1. tasks' = (tasks \ {t}) \cup {r} /\ Read(k, n, data'[k.point])
    BY <1>3, <1>5 DEF CallbackReturns
  <2>2. n \in 1..Len(observers[k])
    BY <1>2, <1>4, <1>5
  <2>3. r.key = k /\ r.pc = "calling" /\ r.pos = n /\ r.entry = t.entry
    <3>1. n \in Nat
      BY <1>2
    <3> HIDE DEF n
    <3> QED
      BY <1>2, <3>1, RunningType
  <2>4. \A u \in tasks \ tasks' :
           u.key = k /\ \A m \in 1..Len(observers[k]) : WillCall(u, k, m) => m >= n
    BY <1>2, <2>1 DEF WillCall
  <2>5. data'[k.point] \in Entry /\ data'[k.point] = data[k.point]
    BY <1>1, <1>2, <1>3 DEF TypeOK
  <2> HIDE DEF r, n
  <2>6. TaskInv'
    BY <1>1, <1>3, <2>1, <2>3 DEF TaskInv
  <2>7. NoLostNotification'
    BY <1>1, <1>2, <1>3, <2>1, <2>2, <2>3, <2>4, <2>5, LoopStep
  <2> QED
    BY <2>6, <2>7
<1>6. CASE ~(n <= Len(observers[k]))
  <2>1. tasks' = tasks \ {t} /\ UNCHANGED <<seen, aborted>>
    BY <1>6 DEF CallbackReturns
  <2>2. TaskInv'
    BY <1>1, <1>3, <2>1 DEF TaskInv
  <2>3. NoLostNotification'
    <3> SUFFICES ASSUME NEW l \in Keys, NEW m \in DOMAIN observers[l],
                        Stale(l, CbAt(l, m))'
                 PROVE  \E u \in tasks' : WillCall(u, l, m)
      BY <1>3 DEF NoLostNotification, WillCall, CbAt
    <3>1. /\ data[l.point].via = l
          /\ seen[l][CbAt(l, m)].by # data[l.point].by
          /\ <<l, CbAt(l, m)>> \notin aborted
      BY <1>3, <2>1 DEF Stale, CbAt
    <3>2. PICK u \in tasks : WillCall(u, l, m)
      BY <1>1, <3>1, StillCalled
    <3>3. m \in 1..Len(observers[l])
      BY <1>1, LenProperties DEF TypeOK
    <3>4. u # t
      BY <1>2, <1>4, <1>6, <3>2, <3>3 DEF WillCall
    <3> QED
      BY <2>1, <3>2, <3>4
  <2> QED
    BY <2>2, <2>3
<1> QED
  BY <1>5, <1>6

(* The callbacks a dying call still owed are on record in aborted.         *)
LEMMA CallbackRaisesKeeps ==
  ASSUME Inv, NEW t \in tasks, CallbackRaises(t)
  PROVE  TaskInv' /\ NoLostNotification'
<1>1. TypeOK /\ TaskInv /\ NoLostNotification
  BY DEF Inv
<1>2. /\ tasks' = tasks \ {t}
      /\ aborted' = aborted \cup Owed(t.key, t.pos)
      /\ UNCHANGED <<data, future, observers, seen>>
  BY DEF CallbackRaises
<1>3. t.pos \in Nat /\ (t.pc # "calling" => t.pos = 0)
  BY <1>1 DEF TypeOK, Task, TaskInv
<1>4. TaskInv'
  BY <1>1, <1>2 DEF TaskInv
<1>5. NoLostNotification'
  <2> SUFFICES ASSUME NEW l \in Keys, NEW m \in DOMAIN observers[l],
                      Stale(l, CbAt(l, m))'
               PROVE  \E u \in tasks' : WillCall(u, l, m)
    BY <1>2 DEF NoLostNotification, WillCall, CbAt
  <2>1. /\ data[l.point].via = l
        /\ seen[l][CbAt(l, m)].by # data[l.point].by
        /\ <<l, CbAt(l, m)>> \notin aborted
        /\ <<l, CbAt(l, m)>> \notin Owed(t.key, t.pos)
    BY <1>2 DEF Stale, CbAt
  <2>2. PICK u \in tasks : WillCall(u, l, m)
    BY <1>1, <2>1, StillCalled
  <2>3. m \in Nat
    BY <1>1, LenProperties DEF TypeOK
  <2>4. ASSUME u = t PROVE FALSE
    <3>1. l = t.key /\ m >= t.pos
      BY <1>3, <2>2, <2>3, <2>4 DEF WillCall
    <3>2. <<l, CbAt(l, m)>> \in Owed(t.key, t.pos)
      BY <3>1 DEF Owed
    <3> QED
      BY <2>1, <3>2
  <2> QED
    BY <1>2, <2>2, <2>4
<1> QED
  BY <1>4, <1>5

LEMMA ObserveKeeps ==
  ASSUME Inv, NEW k \in Keys, NEW c \in Callbacks, Observe(k, c)
  PROVE  TaskInv' /\ NoLostNotification'
<1>1. TypeOK /\ TaskInv /\ NoLostNotification
  BY DEF Inv
<1>2. /\ UNCHANGED <<data, future, tasks>>
      /\ seen' = [seen EXCEPT ![k][c] = data[k.point]]
      /\ aborted' = aborted \ {<<k, c>>}
      /\ observers' = [observers EXCEPT ![k] = Append(@, c)]
  BY DEF Observe
<1>3. TaskInv'
  BY <1>1, <1>2 DEF TaskInv
<1>4. NoLostNotification'
  <2> SUFFICES ASSUME NEW l \in Keys, NEW m \in DOMAIN observers'[l],
                      Stale(l, CbAt(l, m))'
               PROVE  \E u \in tasks : WillCall(u, l, m)
    BY <1>2 DEF NoLostNotification, WillCall, CbAt
  <2> DEFINE d == observers'[l][m]
  <2>1. /\ data[l.point].via = l
        /\ seen'[l][d].by # data[l.point].by
        /\ <<l, d>> \notin aborted'
    BY <1>2 DEF Stale, CbAt
  <2>2. ~(l = k /\ d = c)
    BY <1>1, <1>2, <2>1 DEF TypeOK
  <2>3. m \in DOMAIN observers[l] /\ observers[l][m] = d
    <3>1. CASE l = k
      <4>1. observers'[l] = Append(observers[l], c) /\ observers[l] \in Seq(Callbacks)
        BY <1>1, <1>2, <3>1 DEF TypeOK
      <4> QED
        BY <2>2, <3>1, <4>1, AppendProperties, LenProperties
    <3>2. CASE l # k
      BY <1>1, <1>2, <3>2 DEF TypeOK
    <3> QED
      BY <3>1, <3>2
  <2>4. d \in Callbacks
    BY <1>1, <2>3, LenProperties DEF TypeOK
  <2>5. seen'[l][d] = seen[l][d] /\ <<l, d>> \notin aborted
    BY <1>1, <1>2, <2>1, <2>2, <2>4 DEF TypeOK
  <2> QED
    BY <1>1, <2>1, <2>3, <2>5, StillCalled DEF CbAt
<1> QED
  BY <1>3, <1>4

LEMMA DiscardKeeps ==
  ASSUME Inv, Discard
  PROVE  TaskInv' /\ NoLostNotification'
<1>1. TaskInv'
  BY DEF Inv, TaskInv, Discard
<1>2. \A k \in Keys : observers'[k] = <<>>
  BY DEF Discard
<1>3. DOMAIN <<>> = {}
  OBVIOUS
<1> QED
  BY <1>1, <1>2, <1>3 DEF NoLostNotification

(* Every step keeps Inv, and Inv holds initially: an observer that has not *)
(* read the last value stored through its key is still going to be called. *)
THEOREM NothingLost == Spec => []Inv
<1>1. Init => TaskInv /\ NoLostNotification
  <2>1. Init => \A k \in Keys : DOMAIN observers[k] = {}
    BY DEF Init
  <2> QED
    BY <2>1 DEF Init, TaskInv, NoLostNotification
<1>2. Inv /\ [Next]_vars => TaskInv' /\ NoLostNotification'
  <2> SUFFICES ASSUME Inv, [Next]_vars
               PROVE  TaskInv' /\ NoLostNotification'
    OBVIOUS
  <2>1. ASSUME NEW k \in Written, NEW forced \in BOOLEAN, NEW delay \in BOOLEAN,
               NEW sync \in BOOLEAN, NEW v \in Values(k.point),
               SetValue(k, v, forced, delay, sync)
        PROVE  TaskInv' /\ NoLostNotification'
    <3>1. k \in Keys
      BY DatabusAssumption
    <3>2. CASE Accepts(k.point, v, forced)
      BY <2>1, <3>1, <3>2, StoreKeeps DEF SetValue
    <3>3. CASE ~Accepts(k.point, v, forced)
      BY <2>1, <3>3 DEF SetValue, Counted, Inv, TaskInv, NoLostNotification,
                        Stale, Registered, CbAt, WillCall
    <3> QED
      BY <3>2, <3>3
  <2>2. ASSUME NEW k \in Written, NEW forced \in BOOLEAN, NEW i \in 0..Length,
               NEW e \in Elems, SetElem(k, i, e, forced)
        PROVE  TaskInv' /\ NoLostNotification'
    <3>1. k \in Keys /\ k.point \in Points
      BY DatabusAssumption DEF Keys
    <3>2. CASE AcceptsElem(k.point, i, e, forced)
      <4> DEFINE v == [data[k.point].val EXCEPT ![i + 1] = e]
      <4>1. v \in Values(k.point)
        BY <2>2, <3>1, <3>2 DEF SetElem, AcceptsElem, Inv, TypeOK, Stored, Values
      <4>2. Store(k, v, FALSE, FALSE) /\ Counted
        BY <2>2, <3>2 DEF SetElem
      <4> HIDE DEF v
      <4> QED
        BY <3>1, <4>1, <4>2, StoreKeeps
    <3>3. CASE ~AcceptsElem(k.point, i, e, forced)
      BY <2>2, <3>3 DEF SetElem, Counted, Inv, TaskInv, NoLostNotification,
                        Stale, Registered, CbAt, WillCall
    <3> QED
      BY <3>2, <3>3
  <2>3. ASSUME NEW i \in Interest, Observe(i[1], i[2])
        PROVE  TaskInv' /\ NoLostNotification'
    <3>1. i[1] \in Keys /\ i[2] \in Callbacks
      BY DatabusAssumption
    <3> QED
      BY <2>3, <3>1, ObserveKeeps
  <2>4. CASE UNCHANGED vars
    BY <2>4 DEF vars, Inv, TaskInv, NoLostNotification, Stale, Registered, CbAt, WillCall
  <2> QED
    BY <2>1, <2>2, <2>3, <2>4, BeginKeeps, WakeKeeps, CallbackReturnsKeeps,
       CallbackRaisesKeeps, DiscardKeeps
       DEF Next, Caller, Notifier, Reset, Initialize
<1> QED
  BY <1>1, <1>2, TypeCorrect, PTL DEF Spec, Inv

(* No observer misses the last value stored through its key: see           *)
(* NoLostNotification; notify_observers and set_value, databus.py:70-129.  *)
THEOREM ObserversMissNothing == Spec => []NoLostNotification
  BY NothingLost, PTL DEF Inv
-----------------------------------------------------------------------------
(* What observers have read.  No entry is newer than the last call of      *)
(* set_value; what the databus holds is as new as what its observers have  *)
(* read and what synchronous callers stored, unless a delayed write put it *)
(* back; and so is what a synchronous call's observers have read so far.   *)
Fresh(e, n) == e.by >= n \/ e.late

BoundInv ==
    /\ \A p \in Points : data[p].by <= sets /\ future[p].by <= sets
    /\ \A k \in Keys, c \in Callbacks : seen[k][c].by <= sets
    /\ \A t \in tasks :
          /\ t.id <= sets /\ t.entry.by <= sets
          /\ t.sync => t.pc = "calling"
          /\ t.pc = "sleeping" => future[t.key.point].late

NewerInv ==
    /\ \A k \in Keys, c \in Callbacks :
          Registered(k, c) => Fresh(data[k.point], seen[k][c].by)
    /\ \A t \in tasks : t.sync => Fresh(data[t.key.point], t.id)

ToldInv ==
    \A t \in tasks : t.sync =>
       \A m \in 1..Len(observers[t.key]) :
          m <= t.pos => Fresh(seen[t.key][observers[t.key][m]], t.id)

ReadInv == BoundInv /\ NewerInv /\ ToldInv

(* What every step but reset and initialize does: whoever reads, reads     *)
(* what the databus holds then, and what changes is newer or was delayed.  *)
Goes(u, t) ==
    /\ u.id = t.id /\ u.key = t.key /\ u.sync = t.sync /\ u.entry = t.entry
    /\ u.sync => u.pc = "calling"
    /\ u.pc = "sleeping" => future'[u.key.point].late
    /\ \A m \in 1..Len(observers'[u.key]) :
          m <= u.pos => m <= t.pos \/ seen'[u.key][observers'[u.key][m]] = data'[u.key.point]

Starts(u) ==
    /\ sets' = sets + 1 /\ u.id = sets' /\ u.entry.by = sets'
    /\ u.pc # "sleeping"
    /\ u.sync => u.pc = "calling" /\ data'[u.key.point].by = sets'
    /\ \A m \in 1..Len(observers'[u.key]) :
          m <= u.pos => seen'[u.key][observers'[u.key][m]] = data'[u.key.point]

Joins(k, c) ==
    observers'[k] = Append(observers[k], c) /\ seen'[k][c] = data'[k.point]

ReadsNow ==
    \A k \in Keys, c \in Callbacks :
       seen'[k][c] = seen[k][c] \/ seen'[k][c] = data'[k.point]

StoresNewer ==
    \A p \in Points :
       \/ data'[p] = data[p]
       \/ data'[p].late /\ data'[p].by <= sets
       \/ data'[p].by = sets' /\ sets' = sets + 1

PutsOff ==
    \A p \in Points :
       future'[p] = future[p] \/ (future'[p].late /\ future'[p].by <= sets)

Registers ==
    \A k \in Keys : observers'[k] = observers[k] \/ \E c \in Callbacks : Joins(k, c)

TasksGo == \A u \in tasks' : Starts(u) \/ \E t \in tasks : Goes(u, t)

Reading ==
    /\ sets' \in {sets, sets + 1}
    /\ ReadsNow /\ StoresNewer /\ PutsOff /\ Registers /\ TasksGo

LEMMA EntryNumbers ==
  ASSUME TypeOK
  PROVE  /\ \A p \in Points : data[p].by \in Nat /\ future[p].by \in Nat
         /\ \A k \in Keys, c \in Callbacks : seen[k][c].by \in Nat
         /\ \A t \in tasks : t.id \in Nat /\ t.pos \in Nat /\ t.entry.by \in Nat
                             /\ t.key \in Keys
         /\ \A k \in Keys : k.point \in Points
         /\ sets \in Nat
  BY DEF TypeOK, Entry, Task, Keys

LEMMA ReadingBound ==
  ASSUME TypeOK, TypeOK', BoundInv, Reading
  PROVE  BoundInv'
<1>0. sets \in Nat /\ sets' \in {sets, sets + 1}
  BY DEF TypeOK, Reading
<1>1. ASSUME NEW p \in Points
      PROVE  data'[p].by <= sets' /\ future'[p].by <= sets'
  <2>1. /\ data[p].by \in Nat /\ data[p].by <= sets
        /\ future[p].by \in Nat /\ future[p].by <= sets
    BY EntryNumbers DEF BoundInv
  <2>2. data'[p].by \in Nat /\ future'[p].by \in Nat
    BY DEF TypeOK, Entry
  <2>3. data'[p].by <= sets'
    <3>1. data'[p] = data[p] \/ data'[p].by <= sets \/ data'[p].by = sets'
      BY DEF Reading, StoresNewer
    <3> QED
      BY <1>0, <2>1, <2>2, <3>1
  <2>4. future'[p].by <= sets'
    <3>1. future'[p] = future[p] \/ future'[p].by <= sets
      BY DEF Reading, PutsOff
    <3> QED
      BY <1>0, <2>1, <2>2, <3>1
  <2> QED
    BY <2>3, <2>4
<1>2. ASSUME NEW k \in Keys, NEW c \in Callbacks
      PROVE  seen'[k][c].by <= sets'
  <2>1. seen[k][c].by \in Nat /\ seen[k][c].by <= sets /\ k.point \in Points
    BY EntryNumbers DEF BoundInv
  <2>2. seen'[k][c] = seen[k][c] \/ seen'[k][c] = data'[k.point]
    BY DEF Reading, ReadsNow
  <2> QED
    BY <1>0, <1>1, <2>1, <2>2
<1>3. ASSUME NEW u \in tasks'
      PROVE  /\ u.id <= sets' /\ u.entry.by <= sets'
             /\ u.sync => u.pc = "calling"
             /\ u.pc = "sleeping" => future'[u.key.point].late
  <2>1. CASE Starts(u)
    BY <1>0, <2>1 DEF Starts
  <2>2. CASE \E t \in tasks : Goes(u, t)
    BY <1>0, <2>2, EntryNumbers DEF Goes, BoundInv
  <2> QED
    BY <2>1, <2>2 DEF Reading, TasksGo
<1> QED
  BY <1>1, <1>2, <1>3 DEF BoundInv

LEMMA ReadingNewer ==
  ASSUME TypeOK, TypeOK', BoundInv, NewerInv, Reading
  PROVE  NewerInv'
<1>0. sets \in Nat
  BY DEF TypeOK
<1>1. ASSUME NEW p \in Points, NEW n \in Nat, n <= sets, Fresh(data[p], n)
      PROVE  Fresh(data'[p], n)
  BY <1>0, <1>1, EntryNumbers DEF Reading, StoresNewer, Fresh
<1>2. \A p \in Points : data'[p].by \in Nat
  BY DEF TypeOK, Entry
<1>3. ASSUME NEW k \in Keys, NEW c \in Callbacks, Registered(k, c)'
      PROVE  Fresh(data'[k.point], seen'[k][c].by)
  <2>0. k.point \in Points
    BY DEF Keys
  <2>1. CASE seen'[k][c] = data'[k.point]
    BY <1>2, <2>0, <2>1 DEF Fresh
  <2>2. CASE seen'[k][c] # data'[k.point]
    <3>1. seen'[k][c] = seen[k][c]
      BY <2>2 DEF Reading, ReadsNow
    <3>2. Registered(k, c)
      <4>1. PICK n \in DOMAIN observers'[k] : observers'[k][n] = c
        BY <1>3 DEF Registered, CbAt
      <4>2. CASE observers'[k] = observers[k]
        BY <4>1, <4>2 DEF Registered, CbAt
      <4>3. ASSUME NEW d \in Callbacks, Joins(k, d)
            PROVE  Registered(k, c)
        <5>1. d # c /\ observers'[k] = Append(observers[k], d) /\ observers[k] \in Seq(Callbacks)
          BY <2>2, <4>3 DEF Joins, TypeOK
        <5>2. n \in DOMAIN observers[k] /\ observers[k][n] = c
          BY <4>1, <5>1, AppendProperties, LenProperties
        <5> QED
          BY <5>2 DEF Registered, CbAt
      <4> QED
        BY <4>2, <4>3 DEF Reading, Registers
    <3>3. seen[k][c].by \in Nat /\ seen[k][c].by <= sets /\ Fresh(data[k.point], seen[k][c].by)
      BY <3>2, EntryNumbers DEF BoundInv, NewerInv
    <3> QED
      BY <1>1, <2>0, <3>1, <3>3
  <2> QED
    BY <2>1, <2>2
<1>4. ASSUME NEW u \in tasks', u.sync
      PROVE  Fresh(data'[u.key.point], u.id)
  <2>1. CASE Starts(u)
    BY <1>0, <1>4, <2>1 DEF Starts, Fresh
  <2>2. ASSUME NEW t \in tasks, Goes(u, t)
        PROVE  Fresh(data'[u.key.point], u.id)
    <3>1. t.sync /\ u.id = t.id /\ u.key = t.key
      BY <1>4, <2>2 DEF Goes
    <3>2. t.id \in Nat /\ t.id <= sets /\ t.key.point \in Points /\ Fresh(data[t.key.point], t.id)
      BY <3>1, EntryNumbers DEF BoundInv, NewerInv
    <3> QED
      BY <1>1, <3>1, <3>2
  <2> QED
    BY <2>1, <2>2 DEF Reading, TasksGo
<1> QED
  BY <1>3, <1>4 DEF NewerInv

LEMMA ReadingTold ==
  ASSUME TypeOK, ToldInv, NewerInv', Reading
  PROVE  ToldInv'
<1> SUFFICES ASSUME NEW u \in tasks', u.sync,
                    NEW m \in 1..Len(observers'[u.key]), m <= u.pos
             PROVE  Fresh(seen'[u.key][observers'[u.key][m]], u.id)
  BY DEF ToldInv
<1> DEFINE s == seen'[u.key][observers'[u.key][m]]
<1>1. CASE s = data'[u.key.point]
  BY <1>1 DEF NewerInv
<1>2. CASE s # data'[u.key.point]
  <2>1. PICK t \in tasks : Goes(u, t)
    BY <1>2 DEF Reading, TasksGo, Starts
  <2>2. u.key = t.key /\ u.id = t.id /\ t.sync /\ m <= t.pos
    BY <1>2, <2>1 DEF Goes
  <2>3. t.key \in Keys /\ observers[t.key] \in Seq(Callbacks) /\ m \in Nat
    BY EntryNumbers DEF TypeOK
  <2>4. m \in 1..Len(observers[t.key]) /\ observers'[t.key][m] = observers[t.key][m]
    <3>1. CASE observers'[t.key] = observers[t.key]
      BY <2>2, <3>1
    <3>2. ASSUME NEW c \in Callbacks, Joins(t.key, c)
          PROVE  m \in 1..Len(observers[t.key]) /\ observers'[t.key][m] = observers[t.key][m]
      <4>1. observers'[t.key] = Append(observers[t.key], c)
        BY <3>2 DEF Joins
      <4>2. observers'[t.key][m] # c
        BY <1>2, <2>2, <3>2 DEF Joins
      <4> QED
        BY <2>2, <2>3, <4>1, <4>2, AppendProperties
    <3> QED
      BY <2>3, <3>1, <3>2 DEF Reading, Registers
  <2>5. observers[t.key][m] \in Callbacks
    BY <2>3, <2>4
  <2>6. s = seen[t.key][observers[t.key][m]]
    BY <1>2, <2>2, <2>3, <2>4, <2>5 DEF Reading, ReadsNow
  <2> QED
    BY <2>2, <2>4, <2>6 DEF ToldInv
<1> QED
  BY <1>1, <1>2

(* The steps of each action, in these terms.                               *)
LEMMA ReadsStored ==
  ASSUME TypeOK, NEW k \in Keys, NEW m \in 1..Len(observers[k]), NEW entry \in Entry,
         Read(k, m, entry)
  PROVE  /\ seen'[k][observers[k][m]] = entry
         /\ \A l \in Keys, c \in Callbacks :
              seen'[l][c] = seen[l][c] \/ (l = k /\ seen'[l][c] = entry)
  BY DEF TypeOK, Read, CbAt

LEMMA SameGoes ==
  ASSUME TypeOK, BoundInv, UNCHANGED <<future, observers>>, NEW t \in tasks
  PROVE  Goes(t, t)
  BY DEF Goes, BoundInv

LEMMA Unmoved ==
  ASSUME TypeOK, BoundInv, UNCHANGED <<future, observers>>
  PROVE  PutsOff /\ Registers /\ (tasks' \subseteq tasks => TasksGo)
<1>1. ASSUME tasks' \subseteq tasks PROVE TasksGo
  <2> SUFFICES ASSUME NEW u \in tasks' PROVE \E t \in tasks : Goes(u, t)
    BY Zenon DEF TasksGo
  <2>1. u \in tasks
    BY <1>1
  <2>2. Goes(u, u)
    BY <2>1, SameGoes
  <2> QED
    BY <2>1, <2>2, Zenon
<1> QED
  BY <1>1 DEF PutsOff, Registers

LEMMA StoreReads ==
  ASSUME TypeOK, BoundInv, NEW k \in Keys, NEW v \in Values(k.point), NEW delay \in BOOLEAN,
         NEW sync \in BOOLEAN, Store(k, v, delay, sync), Counted
  PROVE  Reading
<1> DEFINE entry == NewEntry(k, v, delay)
           u == NewTask(k, entry, sync)
<1>1. /\ sets' = sets + 1 /\ UNCHANGED <<future, observers>> /\ sets \in Nat
      /\ k.point \in Points /\ data \in [Points -> Entry]
  BY DEF Counted, TypeOK, Keys
<1>2. entry \in Entry /\ entry.by = sets'
  BY <1>1, NewEntryType DEF NewEntry
<1>3. data' = [data EXCEPT ![k.point] = entry]
  BY DEF Store
<1>4. /\ u.id = sets' /\ u.key = k /\ u.entry = entry /\ u.sync = sync
      /\ u.pc = IF sync THEN "calling" ELSE "spawned"
      /\ u.pos = IF sync THEN 1 ELSE 0
  BY <1>1 DEF NewTask
<1>5. tasks' \subseteq tasks \cup {u} /\ (~Observed(k) => tasks' = tasks)
  BY DEF Store
<1>6. (Observed(k) /\ sync => Read(k, 1, entry)) /\ (~(Observed(k) /\ sync) => seen' = seen)
  BY DEF Store
<1> HIDE DEF entry, u
<1>7. data'[k.point] = entry /\ \A p \in Points : data'[p] = data[p] \/ p = k.point
  BY <1>1, <1>3
<1>8. \A l \in Keys, c \in Callbacks : seen'[l][c] = seen[l][c] \/ seen'[l][c] = data'[l.point]
  BY <1>2, <1>6, <1>7, ReadsStored, ObservedLen
<1>9. Observed(k) => Starts(u)
  <2> SUFFICES ASSUME Observed(k) PROVE Starts(u)
    OBVIOUS
  <2>1. Len(observers[k]) \in Nat
    BY LenProperties DEF TypeOK
  <2>2. sync => seen'[k][observers[k][1]] = data'[k.point]
    BY <1>2, <1>6, <1>7, ReadsStored, ObservedLen
  <2>3. ASSUME NEW m \in 1..Len(observers'[u.key]), m <= u.pos
        PROVE  seen'[u.key][observers'[u.key][m]] = data'[u.key.point]
    <3>1. sync /\ m = 1
      BY <1>1, <1>4, <2>1, <2>3
    <3> QED
      BY <1>1, <1>4, <2>2, <3>1
  <2> QED
    BY <1>1, <1>2, <1>4, <1>7, <2>3 DEF Starts
<1>10. TasksGo
  BY <1>1, <1>5, <1>9, SameGoes DEF TasksGo
<1>11. ReadsNow
  BY <1>8 DEF ReadsNow
<1>12. StoresNewer
  BY <1>1, <1>2, <1>7 DEF StoresNewer
<1> QED
  BY <1>1, <1>10, <1>11, <1>12, Unmoved DEF Reading

(* A notification starts its loop or goes on with it, or ends.             *)
LEMMA LoopReads ==
  ASSUME TypeOK, TypeOK', BoundInv, NEW t \in tasks, NEW n \in Nat, n = t.pos + 1,
         UNCHANGED <<future, observers, sets>>,
         \A p \in Points : data'[p] = data[p] \/ (data'[p].late /\ data'[p].by <= sets),
         \/ /\ n \in 1..Len(observers[t.key])
            /\ tasks' = (tasks \ {t}) \cup {Running(t, n)}
            /\ Read(t.key, n, data'[t.key.point])
         \/ tasks' = tasks \ {t} /\ seen' = seen
  PROVE  Reading
<1>1. t \in Task /\ t.key \in Keys /\ t.key.point \in Points /\ t.pos \in Nat
  BY DEF TypeOK, Task, Keys
<1>2. data'[t.key.point] \in Entry
  BY <1>1 DEF TypeOK
<1>0. StoresNewer /\ PutsOff /\ Registers
  BY Unmoved DEF StoresNewer
<1>3. CASE tasks' = tasks \ {t} /\ seen' = seen
  <2>1. ReadsNow
    BY <1>3 DEF ReadsNow
  <2>2. TasksGo
    BY <1>3, Unmoved
  <2> QED
    BY <1>0, <2>1, <2>2 DEF Reading
<1>4. CASE /\ n \in 1..Len(observers[t.key])
           /\ tasks' = (tasks \ {t}) \cup {Running(t, n)}
           /\ Read(t.key, n, data'[t.key.point])
  <2>1. /\ seen'[t.key][observers[t.key][n]] = data'[t.key.point]
        /\ \A l \in Keys, c \in Callbacks :
             seen'[l][c] = seen[l][c] \/ seen'[l][c] = data'[l.point]
    BY <1>1, <1>2, <1>4, ReadsStored
  <2>2. Goes(Running(t, n), t)
    <3> DEFINE u == Running(t, n)
    <3>1. /\ u.id = t.id /\ u.key = t.key /\ u.entry = t.entry /\ u.sync = t.sync
          /\ u.pc = "calling" /\ u.pos = n
      BY <1>1, RunningType DEF Running, Task
    <3> HIDE DEF u
    <3>2. ASSUME NEW m \in 1..Len(observers'[u.key]), m <= u.pos
          PROVE  m <= t.pos \/ seen'[u.key][observers'[u.key][m]] = data'[u.key.point]
      <4>1. Len(observers[t.key]) \in Nat
        BY <1>1, LenProperties DEF TypeOK
      <4>2. m <= t.pos \/ m = n
        BY <1>1, <3>1, <3>2, <4>1
      <4> QED
        BY <2>1, <3>1, <4>2
    <3>3. Goes(u, t)
      BY <3>1, <3>2 DEF Goes
    <3> QED
      BY <3>3 DEF u
  <2>3. ReadsNow
    BY <2>1 DEF ReadsNow
  <2>4. TasksGo
    BY <1>4, <2>2, SameGoes DEF TasksGo
  <2> QED
    BY <1>0, <2>3, <2>4 DEF Reading
<1> QED
  BY <1>3, <1>4

LEMMA EnterLoopReads ==
  ASSUME TypeOK, TypeOK', BoundInv, TaskInv, NEW t \in tasks, t.pc # "calling",
         UNCHANGED <<future, observers, sets>>,
         \A p \in Points : data'[p] = data[p] \/ (data'[p].late /\ data'[p].by <= sets),
         EnterLoop(t, data'[t.key.point])
  PROVE  Reading
<1>1. t.pos = 0 /\ t.key \in Keys
  BY DEF TaskInv, TypeOK, Task
<1>2. Observed(t.key) => 1 \in 1..Len(observers[t.key])
  BY <1>1, ObservedLen
<1> QED
  BY <1>1, <1>2, LoopReads DEF EnterLoop

LEMMA NotifierReads ==
  ASSUME TypeOK, TypeOK', TaskInv, BoundInv, NEW t \in tasks,
         Begin(t) \/ Wake(t) \/ CallbackReturns(t) \/ CallbackRaises(t)
  PROVE  Reading
<1>1. /\ t \in Task /\ t.key \in Keys /\ t.key.point \in Points /\ t.pos \in Nat
      /\ t.entry \in Entry /\ t.entry.by <= sets
      /\ data \in [Points -> Entry] /\ future \in [Points -> Entry]
  BY DEF TypeOK, Task, Keys, BoundInv
<1>2. CASE Begin(t) /\ t.entry.late
  <2> DEFINE s == [t EXCEPT !.pc = "sleeping"]
  <2>1. /\ future' = [future EXCEPT ![t.key.point] = t.entry]
        /\ tasks' = (tasks \ {t}) \cup {s} /\ t.pc = "spawned"
        /\ UNCHANGED <<data, observers, seen, sets>>
    BY <1>2 DEF Begin
  <2>2. /\ s.id = t.id /\ s.key = t.key /\ s.sync = t.sync /\ s.entry = t.entry
        /\ s.pc = "sleeping" /\ s.pos = t.pos
    BY <1>1 DEF Task
  <2> HIDE DEF s
  <2>3. future'[t.key.point] = t.entry
        /\ \A p \in Points : future'[p] = future[p] \/ future'[p] = t.entry
    BY <1>1, <2>1
  <2>4. ~t.sync
    BY <2>1 DEF BoundInv
  <2>5. Goes(s, t)
    BY <1>2, <2>2, <2>3, <2>4 DEF Goes
  <2>6. ASSUME NEW u \in tasks PROVE Goes(u, u)
    <3>1. u.key.point \in Points
      BY EntryNumbers
    <3>2. u.pc = "sleeping" => future'[u.key.point].late
      BY <1>2, <2>3, <3>1 DEF BoundInv
    <3> QED
      BY <3>2 DEF Goes, BoundInv
  <2>7. TasksGo
    <3> SUFFICES ASSUME NEW u \in tasks' PROVE \E r \in tasks : Goes(u, r)
      BY Zenon DEF TasksGo
    <3>1. u \in tasks \/ u = s
      BY <2>1, Zenon
    <3> QED
      BY <2>5, <2>6, <3>1, Zenon
  <2>8. PutsOff
    BY <1>1, <1>2, <2>3 DEF PutsOff
  <2>9. ReadsNow /\ StoresNewer /\ Registers
    BY <2>1 DEF ReadsNow, StoresNewer, Registers
  <2> QED
    BY <2>1, <2>7, <2>8, <2>9 DEF Reading
<1>3. CASE Begin(t) /\ ~t.entry.late
  BY <1>1, <1>3, EnterLoopReads DEF Begin
<1>4. CASE Wake(t)
  <2>1. future[t.key.point].late /\ future[t.key.point].by <= sets
    BY <1>1, <1>4 DEF Wake, BoundInv
  <2>2. \A p \in Points : data'[p] = data[p] \/ (data'[p].late /\ data'[p].by <= sets)
    BY <1>1, <1>4, <2>1 DEF Wake
  <2>3. EnterLoop(t, data'[t.key.point])
    BY <1>1, <1>4 DEF Wake
  <2> QED
    BY <1>4, <2>2, <2>3, EnterLoopReads DEF Wake
<1>5. CASE CallbackReturns(t)
  <2> DEFINE n == t.pos + 1
  <2>1. n \in Nat /\ n >= 1 /\ Len(observers[t.key]) \in Nat
    BY <1>1, LenProperties DEF TypeOK
  <2>2. CASE n <= Len(observers[t.key])
    <3>1. /\ n \in 1..Len(observers[t.key])
          /\ tasks' = (tasks \ {t}) \cup {Running(t, n)}
          /\ Read(t.key, n, data'[t.key.point])
          /\ UNCHANGED <<data, future, observers, sets>>
      BY <1>5, <2>1, <2>2 DEF CallbackReturns
    <3> HIDE DEF n
    <3> QED
      BY <2>1, <3>1, LoopReads DEF n
  <2>3. CASE ~(n <= Len(observers[t.key]))
    BY <1>5, <2>1, <2>3, LoopReads DEF CallbackReturns
  <2> QED
    BY <2>2, <2>3
<1>6. CASE CallbackRaises(t)
  BY <1>1, <1>6, LoopReads DEF CallbackRaises
<1> QED
  BY <1>2, <1>3, <1>4, <1>5, <1>6

LEMMA ObserveReads ==
  ASSUME TypeOK, BoundInv, NEW k \in Keys, NEW c \in Callbacks, Observe(k, c)
  PROVE  Reading
<1>1. /\ seen' = [seen EXCEPT ![k][c] = data[k.point]]
      /\ observers' = [observers EXCEPT ![k] = Append(@, c)]
      /\ UNCHANGED <<data, future, tasks, sets>>
  BY DEF Observe
<1>2. /\ \A l \in Keys, d \in Callbacks :
           seen'[l][d] = IF l = k /\ d = c THEN data[l.point] ELSE seen[l][d]
      /\ \A l \in Keys :
           observers'[l] = IF l = k THEN Append(observers[l], c) ELSE observers[l]
  BY <1>1 DEF TypeOK
<1>3. ASSUME NEW t \in tasks PROVE Goes(t, t)
  BY <1>1 DEF Goes, BoundInv
<1>4. TasksGo
  BY <1>1, <1>3, Zenon DEF TasksGo
<1>5. ReadsNow /\ StoresNewer /\ PutsOff
  BY <1>1, <1>2 DEF ReadsNow, StoresNewer, PutsOff
<1>6. Registers
  BY <1>1, <1>2 DEF Registers, Joins
<1> QED
  BY <1>1, <1>4, <1>5, <1>6 DEF Reading

LEMMA StillReads ==
  ASSUME TypeOK, BoundInv, sets' \in {sets, sets + 1},
         UNCHANGED <<data, future, observers, tasks, seen>>
  PROVE  Reading
<1>1. PutsOff /\ Registers /\ TasksGo
  BY Unmoved
<1>2. ReadsNow /\ StoresNewer
  BY DEF ReadsNow, StoresNewer
<1> QED
  BY <1>1, <1>2 DEF Reading

LEMMA StepReads ==
  ASSUME Inv, TypeOK', BoundInv, [Next]_vars
  PROVE  Reading \/ Reset \/ Initialize
<1>0. TypeOK /\ TaskInv
  BY DEF Inv
<1>1. ASSUME NEW k \in Written, NEW forced \in BOOLEAN, NEW delay \in BOOLEAN,
             NEW sync \in BOOLEAN, NEW v \in Values(k.point),
             SetValue(k, v, forced, delay, sync)
      PROVE  Reading
  <2>1. CASE Accepts(k.point, v, forced)
    BY <1>0, <1>1, <2>1, StoreReads, DatabusAssumption DEF SetValue
  <2>2. CASE ~Accepts(k.point, v, forced)
    BY <1>0, <1>1, <2>2, StillReads DEF SetValue, Counted
  <2> QED
    BY <2>1, <2>2
<1>2. ASSUME NEW k \in Written, NEW forced \in BOOLEAN, NEW i \in 0..Length,
             NEW e \in Elems, SetElem(k, i, e, forced)
      PROVE  Reading
  <2>1. k \in Keys /\ k.point \in Points
    BY DatabusAssumption DEF Keys
  <2>2. CASE AcceptsElem(k.point, i, e, forced)
    <3> DEFINE v == [data[k.point].val EXCEPT ![i + 1] = e]
    <3>1. v \in Values(k.point)
      BY <1>0, <1>2, <2>1, <2>2 DEF SetElem, AcceptsElem, TypeOK, Stored, Values
    <3>2. Store(k, v, FALSE, FALSE) /\ Counted
      BY <1>2, <2>2 DEF SetElem
    <3> HIDE DEF v
    <3> QED
      BY <1>0, <2>1, <3>1, <3>2, StoreReads
  <2>3. CASE ~AcceptsElem(k.point, i, e, forced)
    BY <1>0, <1>2, <2>3, StillReads DEF SetElem, Counted
  <2> QED
    BY <2>2, <2>3
<1>3. ASSUME NEW i \in Interest, Observe(i[1], i[2])
      PROVE  Reading
  <2>1. i[1] \in Keys /\ i[2] \in Callbacks
    BY DatabusAssumption
  <2> QED
    BY <1>0, <1>3, <2>1, ObserveReads
<1>4. CASE UNCHANGED vars
  BY <1>0, <1>4, StillReads DEF vars
<1> QED
  BY <1>0, <1>1, <1>2, <1>3, <1>4, NotifierReads DEF Next, Caller, Notifier
-----------------------------------------------------------------------------
(* reset and initialize leave no observer and no synchronous call.         *)
LEMMA DiscardBound ==
  ASSUME TypeOK, TypeOK', BoundInv, Discard, sets' \in {sets, sets + 1},
         \A p \in Points : data'[p].by <= sets'
  PROVE  ReadInv'
<1>1. /\ future' = future /\ seen' = seen
      /\ \A t \in tasks' : t \in tasks /\ t.pc # "calling"
  BY DEF Discard
<1>2. \A k \in Keys : observers'[k] = <<>>
  BY DEF Discard
<1>3. \A p \in Points : future'[p].by <= sets'
  BY <1>1, EntryNumbers DEF BoundInv
<1>4. \A k \in Keys, c \in Callbacks : seen'[k][c].by <= sets'
  <2> SUFFICES ASSUME NEW k \in Keys, NEW c \in Callbacks
               PROVE  seen'[k][c].by <= sets'
    OBVIOUS
  <2>1. seen[k][c].by \in Nat /\ seen[k][c].by <= sets /\ sets \in Nat
    BY EntryNumbers DEF BoundInv
  <2> QED
    BY <1>1, <2>1
<1>5. \A t \in tasks' :
         /\ t.id <= sets' /\ t.entry.by <= sets' /\ ~t.sync
         /\ t.pc = "sleeping" => future'[t.key.point].late
  BY <1>1, EntryNumbers DEF BoundInv
<1>6. BoundInv'
  BY <1>3, <1>4, <1>5 DEF BoundInv
<1>7. \A k \in Keys, c \in Callbacks : ~Registered(k, c)'
  BY <1>2 DEF Registered
<1>8. NewerInv' /\ ToldInv'
  BY <1>5, <1>7 DEF NewerInv, ToldInv
<1> QED
  BY <1>6, <1>8 DEF ReadInv

LEMMA DiscardReads ==
  ASSUME TypeOK, TypeOK', BoundInv, Reset \/ Initialize
  PROVE  ReadInv'
<1>0. sets \in Nat
  BY DEF TypeOK
<1>1. CASE Reset
  <2>1. \A p \in Points : data'[p].by <= sets'
    BY <1>0, <1>1 DEF Reset, NoEntry
  <2> QED
    BY <1>1, <2>1, DiscardBound DEF Reset
<1>2. CASE Initialize
  <2>1. /\ sets' = sets + 1 /\ Discard
        /\ data' = [p \in Points |->
                      IF Defaults[p] = Absent THEN NoEntry
                      ELSE [val |-> Defaults[p], by |-> sets + 1,
                            via |-> [prefix |-> "", point |-> p], late |-> FALSE]]
    BY <1>2 DEF Initialize
  <2>2. \A p \in Points : data'[p].by \in {0, sets + 1}
    BY <2>1 DEF NoEntry
  <2>3. ASSUME NEW p \in Points PROVE data'[p].by <= sets'
    <3>1. data'[p].by = 0 \/ data'[p].by = sets + 1
      BY <2>2
    <3>2. sets' = sets + 1
      BY <2>1
    <3> QED
      BY <1>0, <3>1, <3>2
  <2> QED
    BY <2>1, <2>3, DiscardBound
<1> QED
  BY <1>1, <1>2

LEMMA ReadStep ==
  ASSUME Inv, TypeOK', ReadInv, [Next]_vars
  PROVE  ReadInv'
<1>1. CASE Reset \/ Initialize
  BY <1>1, DiscardReads DEF Inv, ReadInv
<1>2. CASE Reading
  <2>1. BoundInv' /\ NewerInv'
    BY <1>2, ReadingBound, ReadingNewer DEF Inv, ReadInv
  <2> QED
    BY <1>2, <2>1, ReadingTold DEF Inv, ReadInv
<1> QED
  BY <1>1, <1>2, StepReads DEF ReadInv

LEMMA ReadInductive == Spec => [](Inv /\ ReadInv)
<1>1. Init => ReadInv
  <2> SUFFICES ASSUME Init PROVE ReadInv
    OBVIOUS
  <2>1. /\ \A p \in Points : data[p] = NoEntry /\ future[p] = NoEntry
        /\ \A k \in Keys : observers[k] = <<>> /\ \A c \in Callbacks : seen[k][c] = NoEntry
        /\ tasks = {} /\ sets = 0
    BY DEF Init
  <2>2. BoundInv
    BY <2>1 DEF BoundInv, NoEntry
  <2>3. NewerInv /\ ToldInv
    BY <2>1 DEF NewerInv, ToldInv, Registered
  <2> QED
    BY <2>2, <2>3 DEF ReadInv
<1>2. Inv /\ Inv' /\ ReadInv /\ [Next]_vars => ReadInv'
  BY ReadStep DEF Inv
<1> QED
  BY <1>1, <1>2, NothingLost, PTL DEF Spec

(* What an observer reads with get_value is never older than what it read  *)
(* before, however many notify_observers greenlets interleave, except when *)
(* a delayed write stores its own value again (databus.py:78-91).          *)
THEOREM ReadsNeverGoBack == Spec => ReadsGoForward
<1>1. ASSUME Inv, Inv', ReadInv, [Next]_vars, NEW k \in Keys, NEW c \in Callbacks,
             Kept(k, c), seen'[k][c].by < seen[k][c].by
      PROVE  seen'[k][c].late
  <2>1. Reading
    <3>1. ~Discard
      BY <1>1 DEF Discard, Kept, Registered
    <3>2. ~Reset /\ ~Initialize
      BY <3>1 DEF Reset, Initialize
    <3> QED
      BY <1>1, <3>2, StepReads DEF Inv, ReadInv
  <2>2. /\ seen[k][c].by \in Nat /\ seen[k][c].by <= sets /\ sets \in Nat
        /\ seen'[k][c].by \in Nat /\ k.point \in Points /\ data[k.point].by \in Nat
    <3>1. seen'[k][c].by \in Nat
      BY <1>1 DEF Inv, TypeOK, Entry
    <3> QED
      BY <1>1, <3>1, EntryNumbers DEF Inv, ReadInv, BoundInv
  <2>3. seen'[k][c] = data'[k.point]
    BY <1>1, <2>1, <2>2 DEF Reading, ReadsNow
  <2>4. Fresh(data[k.point], seen[k][c].by)
    BY <1>1 DEF ReadInv, NewerInv, Kept
  <2>5. \/ data'[k.point] = data[k.point]
        \/ data'[k.point].late
        \/ data'[k.point].by = sets + 1
    BY <2>1, <2>2 DEF Reading, StoresNewer
  <2> QED
    BY <1>1, <2>2, <2>3, <2>4, <2>5 DEF Fresh
<1>2. Inv /\ Inv' /\ ReadInv /\ [Next]_vars =>
        [\A k \in Keys, c \in Callbacks :
            Kept(k, c) /\ seen'[k][c].by < seen[k][c].by => seen'[k][c].late]_vars
  <2> SUFFICES ASSUME Inv, Inv', ReadInv, [Next]_vars,
                      NEW k \in Keys, NEW c \in Callbacks,
                      Kept(k, c), seen'[k][c].by < seen[k][c].by
               PROVE  seen'[k][c].late
    OBVIOUS
  <2> QED
    BY <1>1
<1> QED
  BY <1>2, ReadInductive, PTL DEF Spec, ReadsGoForward

(* When a synchronous set_value returns, every observer of its key has     *)
(* read what it stored or something newer, whoever else stores, notifies   *)
(* or registers meanwhile, unless a delayed write put its value back.      *)
THEOREM SyncCallsAreSeen == Spec => SyncReadsOwnWrite
<1>1. ASSUME Inv, ReadInv, NEW t \in tasks, SyncReturns(t),
             NEW n \in DOMAIN observers[t.key]
      PROVE  LET s == seen[t.key][CbAt(t.key, n)]
             IN  s.by >= t.id \/ s.late
  <2>1. /\ t \in Task /\ t.key \in Keys /\ t.pos \in Nat /\ t.sync
        /\ observers[t.key] \in Seq(Callbacks)
    BY <1>1 DEF Inv, TypeOK, Task, SyncReturns
  <2>2. n \in 1..Len(observers[t.key]) /\ Len(observers[t.key]) \in Nat
    BY <2>1, LenProperties
  <2>3. ~(t.pos + 1 <= Len(observers[t.key]))
    <3> SUFFICES ASSUME t.pos + 1 <= Len(observers[t.key]) PROVE FALSE
      OBVIOUS
    <3>1. Running(t, t.pos + 1) \in tasks'
      BY <1>1 DEF SyncReturns, CallbackReturns
    <3>2. t.pos + 1 \in Nat
      BY <2>1
    <3>3. Running(t, t.pos + 1).id = t.id
      BY <2>1, <3>2, RunningType, Zenon
    <3> QED
      BY <1>1, <3>1, <3>3 DEF SyncReturns
  <2>4. n <= t.pos
    BY <2>1, <2>2, <2>3
  <2> QED
    BY <1>1, <2>1, <2>2, <2>4 DEF ReadInv, ToldInv, Fresh, CbAt
<1>2. Inv /\ ReadInv /\ [Next]_vars =>
        [\A t \in tasks : SyncReturns(t) =>
            \A n \in DOMAIN observers[t.key] :
               LET s == seen[t.key][CbAt(t.key, n)]
               IN  s.by >= t.id \/ s.late]_vars
  BY <1>1
<1> QED
  BY <1>2, ReadInductive, PTL DEF Spec, SyncReadsOwnWrite
=============================================================================
