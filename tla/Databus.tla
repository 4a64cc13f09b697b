------------------------------ MODULE Databus ------------------------------
(***************************************************************************)
(* The databus of conpot: one key/value store shared by every emulator and *)
(* protocol, with observers per key.  Source: core/databus.py.             *)
(*                                                                         *)
(* A key is a prefix and a point.  "w p" and "r p" name the same stored    *)
(* value and have observers of their own.  Every caller is a greenlet:     *)
(* control moves only where a greenlet waits, so set_value up to the read  *)
(* made by the first synchronous observer is one step.  Observers wait for *)
(* devices and locks, so anything may happen while one is being called.    *)
(***************************************************************************)
EXTENDS Integers, Sequences, FiniteSets

CONSTANTS Points,     \* names of the stored values, without prefix
          Lists,      \* the points that hold a list
          Elems,      \* scalar values and list elements
          Length,     \* length of every list
          Callbacks,  \* what components register with observe_value
          Written,    \* the keys somebody passes to set_value
          DelayKeys,  \* those somebody writes with delay > 0
          Interest,   \* the key and callback pairs some component registers
          Defaults,   \* the value the template gives each point, or Absent
          Absent,     \* a point that is not in _data
          MaxSets,    \* bound on calls of set_value and initialize
          MaxResets   \* bound on calls of reset

Prefixes == {"w", "r", ""}
Keys == [prefix : Prefixes, point : Points]
Values(p) == IF p \in Lists THEN [1..Length -> Elems] ELSE Elems
Stored(p) == Values(p) \cup {Absent}
AllStored == {Absent} \cup UNION {Values(p) : p \in Points}
NoKey == [prefix |-> "", point |-> Absent]

(* opcua.xml delays writes of 'w ns=1;s=MJGrooveRobot.StartSignal' only:   *)
(* no point is written with a delay under two prefixes.                    *)
ASSUME DatabusAssumption ==
    /\ Lists \subseteq Points
    /\ Length \in Nat
    /\ Written \subseteq Keys
    /\ DelayKeys \subseteq Written
    /\ Interest \subseteq Keys \X Callbacks
    /\ \A k, l \in DelayKeys : k.point = l.point => k = l
    /\ Absent \notin Points
    /\ \A p \in Points : Absent \notin Values(p)
    /\ \A p \in Points : Defaults[p] \in Stored(p)
    /\ MaxSets \in Nat
    /\ MaxResets \in Nat

VARIABLES data,         \* _data: value, with the call and the key that stored it
          future,       \* _future: what sleeping notifications will store again
          observers,    \* _observer_map: a list of callbacks per key
          initialized,  \* the initialized event
          tasks,        \* calls of notify_observers that have not returned
          seen,         \* per key and callback, the entry it read last
          aborted,      \* callbacks whose last notification died before them
          sets,         \* calls of set_value and initialize so far
          resets        \* calls of reset so far

vars == <<data, future, observers, initialized, tasks, seen, aborted, sets, resets>>

(* val is what _data holds.  by, via and late are history: the number of   *)
(* the call that stored it, the key it used and whether with a delay.      *)
Entry == [val : AllStored, by : Nat, via : Keys \cup {NoKey}, late : BOOLEAN]
NoEntry == [val |-> Absent, by |-> 0, via |-> NoKey, late |-> FALSE]

(* A notify_observers call: spawned and not yet run, asleep for its delay, *)
(* or inside the callback at position pos of the observer list.            *)
Task == [id : Nat, key : Keys, entry : Entry, sync : BOOLEAN,
         pc : {"spawned", "sleeping", "calling"}, pos : Nat]

Observed(k) == observers[k] # <<>>
CbAt(k, n) == observers[k][n]

TypeOK ==
    /\ data \in [Points -> Entry]
    /\ future \in [Points -> Entry]
    /\ \A p \in Points : data[p].val \in Stored(p) /\ future[p].val \in Stored(p)
    /\ observers \in [Keys -> Seq(Callbacks)]
    /\ initialized \in BOOLEAN
    /\ tasks \subseteq Task
    /\ \A t \in tasks : t.entry.val \in Values(t.key.point)
    /\ seen \in [Keys -> [Callbacks -> Entry]]
    /\ aborted \subseteq Keys \X Callbacks
    /\ sets \in Nat
    /\ resets \in Nat

Init ==
    /\ data = [p \in Points |-> NoEntry]
    /\ future = [p \in Points |-> NoEntry]
    /\ observers = [k \in Keys |-> <<>>]
    /\ initialized = FALSE
    /\ tasks = {}
    /\ seen = [k \in Keys |-> [c \in Callbacks |-> NoEntry]]
    /\ aborted = {}
    /\ sets = 0
    /\ resets = 0
-----------------------------------------------------------------------------
(* set_value stores when forced or when the stored value differs; with an  *)
(* index it changes one element in place, if it exists and differs.        *)
Accepts(p, v, forced) == forced \/ data[p].val # v

AcceptsElem(p, i, e, forced) ==
    /\ data[p].val # Absent
    /\ i < Length
    /\ forced \/ data[p].val[i + 1] # e

NewEntry(k, v, delay) == [val |-> v, by |-> sets + 1, via |-> k, late |-> delay]

NewTask(k, entry, sync) ==
    [id |-> sets + 1, key |-> k, entry |-> entry, sync |-> sync,
     pc |-> IF sync THEN "calling" ELSE "spawned", pos |-> IF sync THEN 1 ELSE 0]

(* Mutant of Read: the observer is called before the value is stored.      *)
ReadTooEarly(k, n, entry) ==
    /\ seen' = [seen EXCEPT ![k][CbAt(k, n)] = data[k.point]]
    /\ aborted' = aborted \ {<<k, CbAt(k, n)>>}

(* What observer n of key k reads with get_value when it is called.        *)
Read(k, n, entry) ==
    /\ seen' = [seen EXCEPT ![k][CbAt(k, n)] = entry]
    /\ aborted' = aborted \ {<<k, CbAt(k, n)>>}

(* The value is stored; if the key has observers a greenlet is spawned to  *)
(* notify them, or with sync the caller itself enters the first of them.   *)
Store(k, v, delay, sync) ==
    LET entry == NewEntry(k, v, delay)
    IN  /\ data' = [data EXCEPT ![k.point] = entry]
        /\ tasks' = IF Observed(k)
                      THEN tasks \cup {NewTask(k, entry, sync)}
                      ELSE tasks
        /\ IF Observed(k) /\ sync
             THEN Read(k, 1, entry)
             ELSE UNCHANGED <<seen, aborted>>

Counted == /\ sets < MaxSets
           /\ sets' = sets + 1
           /\ UNCHANGED <<future, observers, initialized, resets>>

(* set_value with index < 0; delay is ignored when sync is true.           *)
SetValue(k, v, forced, delay, sync) ==
    /\ Counted
    /\ delay => k \in DelayKeys /\ ~sync
    /\ IF Accepts(k.point, v, forced)
         THEN Store(k, v, delay, sync)
         ELSE UNCHANGED <<data, tasks, seen, aborted>>

(* set_value with an index into a list, the way the Modbus master does.    *)
SetElem(k, i, e, forced) ==
    /\ Counted
    /\ k.point \in Lists
    /\ IF AcceptsElem(k.point, i, e, forced)
         THEN Store(k, [data[k.point].val EXCEPT ![i + 1] = e], FALSE, FALSE)
         ELSE UNCHANGED <<data, tasks, seen, aborted>>
-----------------------------------------------------------------------------
Running(t, n) == [t EXCEPT !.pc = "calling", !.pos = n]

(* Mutant of EnterLoop: observers are handed the value set_value was given.*)
EnterLoopWithArgument(t, entry) ==
    /\ Observed(t.key)
    /\ tasks' = (tasks \ {t}) \cup {Running(t, 1)}
    /\ Read(t.key, 1, t.entry)

(* The loop over _observer_map[key]: the lookup raises KeyError when the   *)
(* key has no list (any more), and get_value raises when the point is gone.*)
EnterLoop(t, entry) ==
    IF Observed(t.key)
      THEN /\ tasks' = (tasks \ {t}) \cup {Running(t, 1)}
           /\ Read(t.key, 1, entry)
      ELSE /\ tasks' = tasks \ {t}
           /\ UNCHANGED <<seen, aborted>>

Oldest(t) == \A u \in tasks : u.pc = "spawned" => t.id <= u.id

(* Spawned greenlets start in the order of their creation.  A delayed one  *)
(* leaves its value in _future and sleeps.                                 *)
Begin(t) ==
    /\ t.pc = "spawned"
    /\ Oldest(t)
    /\ IF t.entry.late
         THEN /\ future' = [future EXCEPT ![t.key.point] = t.entry]
              /\ tasks' = (tasks \ {t}) \cup {[t EXCEPT !.pc = "sleeping"]}
              /\ UNCHANGED <<seen, aborted>>
         ELSE /\ data[t.key.point].val # Absent \/ ~Observed(t.key)
              /\ EnterLoop(t, data[t.key.point])
              /\ UNCHANGED future
    /\ UNCHANGED <<data, observers, initialized, sets, resets>>

(* Mutant of Wake: the value is stored, and the sleep begins again.        *)
WakeAndSleep(t) ==
    /\ t.pc = "sleeping"
    /\ data' = [data EXCEPT ![t.key.point] = future[t.key.point]]
    /\ UNCHANGED <<future, observers, initialized, tasks, seen, aborted, sets, resets>>

(* The sleep ends: _future is stored again, whatever was stored meanwhile. *)
Wake(t) ==
    /\ t.pc = "sleeping"
    /\ data' = [data EXCEPT ![t.key.point] = future[t.key.point]]
    /\ EnterLoop(t, future[t.key.point])
    /\ UNCHANGED <<future, observers, initialized, sets, resets>>

(* Mutant of CallbackReturns: the loop returns the first result.           *)
ReturnFirstResult(t) ==
    /\ t.pc = "calling"
    /\ tasks' = tasks \ {t}
    /\ UNCHANGED <<data, future, observers, initialized, seen, aborted, sets, resets>>

(* A callback returns and the loop goes on, or notify_observers returns.   *)
CallbackReturns(t) ==
    LET k == t.key
        n == t.pos + 1
    IN  /\ t.pc = "calling"
        /\ IF n <= Len(observers[k])
             THEN /\ tasks' = (tasks \ {t}) \cup {Running(t, n)}
                  /\ Read(k, n, data[k.point])
             ELSE /\ tasks' = tasks \ {t}
                  /\ UNCHANGED <<seen, aborted>>
        /\ UNCHANGED <<data, future, observers, initialized, sets, resets>>

Owed(k, n) == {<<k, CbAt(k, m)>> : m \in {i \in DOMAIN observers[k] : i >= n}}

(* An exception leaves the loop: of a callback (a device that does not     *)
(* answer), or of get_value on a point that is not there.  The greenlet    *)
(* dies, or the exception reaches the synchronous caller; no later         *)
(* callback of the list is called.                                         *)
CallbackRaises(t) ==
    /\ \/ t.pc = "calling"
       \/ /\ t.pc = "spawned" /\ ~t.entry.late /\ Oldest(t)
          /\ data[t.key.point].val = Absent
    /\ tasks' = tasks \ {t}
    /\ aborted' = aborted \cup Owed(t.key, t.pos)
    /\ UNCHANGED <<data, future, observers, initialized, seen, sets, resets>>
-----------------------------------------------------------------------------
(* observe_value; a new observer knows the value stored so far.            *)
Observe(k, c) ==
    /\ \A n \in DOMAIN observers[k] : CbAt(k, n) # c
    /\ observers' = [observers EXCEPT ![k] = Append(@, c)]
    /\ seen' = [seen EXCEPT ![k][c] = data[k.point]]
    /\ aborted' = aborted \ {<<k, c>>}
    /\ UNCHANGED <<data, future, initialized, tasks, sets, resets>>

(* reset forgets values and observers but not _future.  A loop that is     *)
(* under way goes on over the discarded list, to observers nobody has any  *)
(* more: it is left out from here on.                                      *)
Discard ==
    /\ observers' = [k \in Keys |-> <<>>]
    /\ tasks' = {t \in tasks : t.pc # "calling"}
    /\ UNCHANGED <<future, seen, aborted>>

Reset ==
    /\ resets < MaxResets
    /\ resets' = resets + 1
    /\ data' = [p \in Points |-> NoEntry]
    /\ initialized' = FALSE
    /\ Discard
    /\ UNCHANGED sets

(* initialize: reset, then set_value of every default of the template.     *)
Initialize ==
    /\ initialized => resets < MaxResets
    /\ resets' = IF initialized THEN resets + 1 ELSE resets
    /\ sets < MaxSets
    /\ sets' = sets + 1
    /\ data' = [p \in Points |->
                  IF Defaults[p] = Absent THEN NoEntry
                  ELSE [val |-> Defaults[p], by |-> sets + 1,
                        via |-> [prefix |-> "", point |-> p], late |-> FALSE]]
    /\ initialized' = TRUE
    /\ Discard
-----------------------------------------------------------------------------
Caller ==
    \E k \in Written, forced, delay, sync \in BOOLEAN :
        \/ \E v \in Values(k.point) : SetValue(k, v, forced, delay, sync)
        \/ \E i \in 0..Length, e \in Elems : SetElem(k, i, e, forced)

Notifier == \E t \in tasks : Begin(t) \/ Wake(t) \/ CallbackReturns(t)

Next ==
    \/ Caller
    \/ Notifier
    \/ \E t \in tasks : CallbackRaises(t)
    \/ \E i \in Interest : Observe(i[1], i[2])
    \/ Reset
    \/ Initialize

Spec == Init /\ [][Next]_vars

(* Greenlets that can run do run, sleeps end, and devices answer or time   *)
(* out; nobody is obliged to write.                                        *)
FairSpec == Spec /\ WF_vars(Notifier \/ \E t \in tasks : CallbackRaises(t))
-----------------------------------------------------------------------------
(* Observer c of key k has not read what was last stored through k.        *)
Registered(k, c) == \E n \in DOMAIN observers[k] : CbAt(k, n) = c

Stale(k, c) ==
    /\ Registered(k, c)
    /\ data[k.point].via = k
    /\ seen[k][c].by # data[k.point].by
    /\ <<k, c>> \notin aborted

WillCall(t, k, n) ==
    /\ t.key = k
    /\ t.pc = "calling" => t.pos < n

(* An observer that has not read the last value stored through its key is  *)
(* still going to be called for it, whatever was stored, delayed, forced   *)
(* or re-registered meanwhile, unless an exception cut a notification      *)
(* short.  Notifications read the value when they call (notify_observers), *)
(* so one call may stand for several stores, but none is lost.             *)
NoLostNotification ==
    \A k \in Keys : \A n \in DOMAIN observers[k] :
        Stale(k, CbAt(k, n)) => \E t \in tasks : WillCall(t, k, n)

(* A sleeping notification finds in _future a value written through its    *)
(* own key; with TypeOK this makes NoLostNotification inductive.           *)
TaskInv ==
    \A t \in tasks :
        /\ t.entry.via = t.key
        /\ t.entry.late => t.key \in DelayKeys
        /\ t.pc # "calling" => t.pos = 0
        /\ t.pc = "sleeping" => t.entry.late /\ future[t.key.point].via = t.key

Inv == TypeOK /\ TaskInv /\ NoLostNotification

(* What an observer reads never goes back to an older store, however the   *)
(* notifying greenlets interleave, except to a value written with a delay, *)
(* which notify_observers stores again when its sleep ends.                *)
Kept(k, c) == Registered(k, c) /\ Registered(k, c)'

ReadsGoForward ==
    [][\A k \in Keys, c \in Callbacks :
          Kept(k, c) /\ seen'[k][c].by < seen[k][c].by
          => seen'[k][c].late]_vars

(* When a synchronous set_value returns, every observer of the key has     *)
(* read the caller's value, a newer one, or one a delayed write put back.  *)
SyncReturns(t) == t \in tasks /\ t.sync /\ CallbackReturns(t) /\ \A u \in tasks' : u.id # t.id

SyncReadsOwnWrite ==
    [][\A t \in tasks : SyncReturns(t) =>
          \A n \in DOMAIN observers[t.key] :
             LET s == seen[t.key][CbAt(t.key, n)]
             IN  s.by >= t.id \/ s.late]_vars

(* Every stale observer is told in the end: greenlets run and sleeps end.  *)
ObserversConverge ==
    \A k \in Keys, c \in Callbacks : Stale(k, c) ~> ~Stale(k, c)
=============================================================================
