--------------------------- MODULE GatewayProofs ---------------------------
(***************************************************************************)
(* Type correctness of the gateway, and that nothing the device changes by *)
(* itself is written back to it, for any values and bounds.                *)
(***************************************************************************)
EXTENDS Gateway, FiniteSetTheorems, TLAPS

(* There is always a number that no call of write_coils bears.             *)
LEMMA FreshId ==
  ASSUME StateOK
  PROVE  NewId \in Nat \ {0} /\ \A w \in writers : w.id # NewId
<1> DEFINE n == Cardinality(writers)
<1>1. n \in Nat
  BY FS_CardinalityType DEF StateOK
<1>2. \E i \in 1..(n + 1) : \A w \in writers : w.id # i
  <2> SUFFICES ASSUME \A i \in 1..(n + 1) : \E w \in writers : w.id = i
               PROVE  FALSE
    OBVIOUS
  <2> DEFINE f == [i \in 1..(n + 1) |-> CHOOSE w \in writers : w.id = i]
  <2>1. \A i \in 1..(n + 1) : f[i] \in writers /\ f[i].id = i
    OBVIOUS
  <2>2. f \in [1..(n + 1) -> writers]
    BY <2>1
  <2>3. IsFiniteSet(1..(n + 1)) /\ Cardinality(1..(n + 1)) = n + 1
    BY <1>1, FS_Interval
  <2>4. IsFiniteSet(writers) /\ Cardinality(writers) < n + 1
    BY <1>1 DEF StateOK
  <2> DEFINE S == 1..(n + 1)
  <2>5. IsFiniteSet(S) /\ Cardinality(writers) < Cardinality(S) /\ f \in [S -> writers]
    BY <2>2, <2>3, <2>4
  <2> HIDE DEF f, S, n
  <2>6. \E x, y \in S : x # y /\ f[x] = f[y]
    BY <2>4, <2>5, FS_PigeonHole
  <2> QED
    BY <2>1, <2>6 DEF S
<1> QED
  BY <1>1, <1>2 DEF NewId

(* Every state is well typed: the steps of DataChange, notify_observers,   *)
(* MMaster.start and write_coils keep the kinds of their variables.        *)
THEOREM TypeCorrect == Spec => []TypeOK
<1>1. Init => TypeOK
  <2>1. Init => StateOK
    BY GatewayAssumption, FS_EmptySet DEF Init, StateOK, Change, Writer, Nobody
  <2> QED
    BY <2>1 DEF Init, TypeOK
<1>2. StateOK /\ [Next]_vars => StateOK'
  <2> SUFFICES ASSUME StateOK, [Next]_vars PROVE StateOK'
    OBVIOUS
  <2>1. ASSUME NEW v \in Values, ClientWrite(v) PROVE StateOK'
    BY <2>1 DEF ClientWrite, SetNode, StateOK, Change, history, bounds
  <2>2. ASSUME NEW v \in Values, Move(v) PROVE StateOK'
    BY <2>2 DEF Move, StateOK, history, bounds
  <2>3. CASE DataChange
    <3> DEFINE v == Head(changes).val
    <3>1. /\ changes # <<>> /\ changes' = Tail(changes)
          /\ SetValue("w", v)
          /\ UNCHANGED <<node, coil, lock, poller, polled, writers, older, written,
                         writes, moves, faults>>
      BY <2>3 DEF DataChange, bounds
    <3>2. v \in Values /\ changes' \in Seq(Change)
      <4>1. Head(changes) \in Change /\ Tail(changes) \in Seq(Change)
        BY <3>1 DEF StateOK
      <4> QED
        BY <3>1, <4>1 DEF Change
    <3> HIDE DEF v
    <3>3. CASE bus = v
      BY <3>1, <3>2, <3>3 DEF SetValue, StateOK
    <3>4. CASE bus # v
      BY <3>1, <3>2, <3>4 DEF SetValue, StateOK
    <3> QED
      BY <3>3, <3>4
  <2>4. CASE NotifyNode
    BY <2>4 DEF NotifyNode, Started, SetNode, StateOK, Change, history, bounds
  <2>5. CASE NotifyWriter
    <3> DEFINE w == [id |-> NewId, val |-> bus]
    <3>1. w \in Writer /\ w.id \in Nat
      BY FreshId DEF Writer, StateOK
    <3>2. writers' = writers \cup {w} /\ (lock' = w.id \/ lock' = lock)
      BY <2>5 DEF NotifyWriter
    <3> HIDE DEF w
    <3>3. writers' \subseteq Writer /\ IsFiniteSet(writers')
      BY <3>1, <3>2, FS_AddElement DEF StateOK
    <3> QED
      BY <2>5, <3>1, <3>2, <3>3 DEF NotifyWriter, Started, StateOK, history, bounds
  <2>6. ASSUME NEW w \in writers, TakeLock(w) \/ WriteDone(w) \/ WriteFails(w)
        PROVE  StateOK'
    <3>0. w \in Writer /\ w.id \in Nat /\ w.val \in Values /\ Nobody \in Nat
      BY DEF StateOK, Writer, Nobody
    <3>1. /\ UNCHANGED <<node, changes, bus, tasks, poller, polled, older, written, writes, moves>>
          /\ writers' = writers \/ writers' = writers \ {w}
      BY <2>6 DEF TakeLock, WriteDone, WriteFails, history, bounds
    <3>2. /\ lock' = w.id \/ lock' = Nobody
          /\ coil' = coil \/ coil' = w.val
          /\ faults' = faults \/ faults' = faults + 1
      BY <2>6 DEF TakeLock, WriteDone, WriteFails, bounds
    <3>3. writers' \subseteq Writer /\ IsFiniteSet(writers')
      BY <3>1, FS_RemoveElement DEF StateOK
    <3> QED
      BY <3>0, <3>1, <3>2, <3>3 DEF StateOK
  <2>7. CASE Poll
    BY <2>7 DEF Poll, StateOK, Master, history, bounds
  <2>8. CASE PollDone
    BY <2>8 DEF PollDone, EndPoll, SetValue, StateOK, Nobody, history, bounds
  <2>9. CASE PollFails
    BY <2>9 DEF PollFails, EndPoll, StateOK, Nobody, history, bounds
  <2>10. CASE UNCHANGED vars
    BY <2>10 DEF vars, history, bounds, StateOK
  <2> QED
    BY <2>1, <2>2, <2>3, <2>4, <2>5, <2>6, <2>7, <2>8, <2>9, <2>10 DEF Next, Notify
<1>3. raced \in BOOLEAN /\ [Next]_vars => raced' \in BOOLEAN
  BY Zenon DEF Next, Notify, ClientWrite, Move, DataChange, NotifyNode, NotifyWriter,
     TakeLock, WriteDone, WriteFails, Poll, PollDone, PollFails, EndPoll, vars, history
<1>4. TypeOK /\ [Next]_vars => TypeOK'
  BY <1>2, <1>3 DEF TypeOK
<1> QED
  BY <1>1, <1>4, PTL DEF Spec

(* With no client nothing is written to the device: a value that a poll    *)
(* brought returns from the subscription as the value the databus has, so  *)
(* SetValue ignores it.  This needs publications that keep up with polls.  *)
THEOREM DeviceKeepsItsValue == Punctual => (Spec => []NoEcho)
<1> SUFFICES ASSUME Punctual PROVE Spec => []NoEcho
  OBVIOUS
<1>1. Init => OneAtATime
  BY DEF Init, OneAtATime
<1>2. TypeOK /\ TypeOK' /\ OneAtATime /\ [Next]_vars => OneAtATime'
  <2> SUFFICES ASSUME StateOK, StateOK', OneAtATime, [Next]_vars, writes' = 0
               PROVE  OneAtATime'
    BY DEF TypeOK, OneAtATime
  <2> USE DEF OneAtATime
  <2>1. ASSUME NEW v \in Values, ClientWrite(v) PROVE FALSE
    BY <2>1 DEF ClientWrite, StateOK
  <2>2. ASSUME NEW v \in Values, Move(v) PROVE OneAtATime'
    BY <2>2 DEF Move, history
  <2>3. CASE DataChange
    <3>1. writes = 0 /\ changes = <<[val |-> bus, echo |-> TRUE]>>
      BY <2>3 DEF DataChange, bounds
    <3>2. Head(changes).val = bus /\ changes' = <<>>
      BY <2>3, <3>1 DEF DataChange
    <3>3. UNCHANGED <<bus, tasks, lock, poller, writers>>
      BY <2>3, <3>2 DEF DataChange, SetValue
    <3> QED
      BY <3>1, <3>2, <3>3
  <2>4. CASE NotifyNode
    <3>1. /\ writes = 0 /\ tasks = <<"r">> /\ changes = <<>>
          /\ poller = "sleeping"
      BY <2>4 DEF NotifyNode, Started, bounds
    <3>2. tasks' = <<>> /\ changes' = <<[val |-> bus, echo |-> TRUE]>>
      BY <2>4, <3>1 DEF NotifyNode, Started, SetNode
    <3>3. UNCHANGED <<bus, lock, poller, writers>>
      BY <2>4 DEF NotifyNode
    <3> QED
      BY <3>1, <3>2, <3>3
  <2>5. CASE NotifyWriter
    BY <2>5 DEF NotifyWriter, Started, bounds
  <2>6. ASSUME NEW w \in writers, TakeLock(w) \/ WriteDone(w) \/ WriteFails(w)
        PROVE  FALSE
    BY <2>6 DEF TakeLock, WriteDone, WriteFails, bounds
  <2>7. CASE Poll
    BY <2>7 DEF Poll, Published, Nobody, Master, bounds
  <2>8. CASE PollDone
    BY <2>8 DEF PollDone, EndPoll, SetValue, Nobody
  <2>9. CASE PollFails
    BY <2>9 DEF PollFails, EndPoll, Nobody
  <2>10. CASE UNCHANGED vars
    BY <2>10 DEF vars, bounds
  <2> QED
    BY <2>1, <2>2, <2>3, <2>4, <2>5, <2>6, <2>7, <2>8, <2>9, <2>10 DEF Next, Notify
<1>3. OneAtATime => NoEcho
  BY DEF OneAtATime, NoEcho
<1> QED
  BY <1>1, <1>2, <1>3, TypeCorrect, PTL DEF Spec
=============================================================================
