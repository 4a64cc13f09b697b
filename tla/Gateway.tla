------------------------------ MODULE Gateway ------------------------------
(***************************************************************************)
(* One point between an OPC UA client and a Modbus device.  Sources:       *)
(* protocols/opcua/opcua_server.py, emulators/mmaster/mmaster.py and       *)
(* core/databus.py, with the points of templates/opcua.                    *)
(*                                                                         *)
(* The point has three copies: the OPC UA node, the value in the databus   *)
(* and the coil of the device.  A change of the node is published to the   *)
(* server's own SubHandler, which stores it under 'w'; write_coils writes  *)
(* it to the device.  The MMaster polls the device and stores under 'r';   *)
(* the server's observer puts that into the node, which is again a change. *)
(* Every step is what one greenlet does between two waits.                 *)
(***************************************************************************)
EXTENDS Integers, Sequences, FiniteSets

CONSTANTS Values,    \* values of the point
          Default,   \* its value in the template and, at first, everywhere
          Punctual,  \* publications keep up with polls
          MaxWrites, \* bound on writes by clients
          MaxMoves,  \* bound on changes the device makes by itself
          MaxFaults  \* bound on failed exchanges

ASSUME GatewayAssumption ==
    /\ Default \in Values
    /\ Punctual \in BOOLEAN
    /\ {MaxWrites, MaxMoves, MaxFaults} \subseteq Nat

VARIABLES node,    \* the value of the OPC UA node
          changes, \* its changes not yet published to SubHandler
          bus,     \* the point's value in the databus
          tasks,   \* notify_observers greenlets not yet run, by prefix
          coil,    \* the device
          lock,    \* who talks to the device
          poller,  \* what MMaster.start is doing
          polled,  \* what the device answered to the poll under way
          writers, \* write_coils calls, with the value they read
          older,   \* how many of tasks were spawned before the poll under way
          written, \* history: what a client wrote last
          raced,   \* history: was a client's value stored during a poll?
          writes, moves, faults

bounds == <<writes, moves, faults>>
history == <<written, raced>>
vars == <<node, changes, bus, tasks, coil, lock, poller, polled, writers, older,
          history, bounds>>

Change == [val : Values, echo : BOOLEAN]
Writer == [id : Nat, val : Values]
Nobody == 0
Master == -1

StateOK ==
    /\ node \in Values /\ bus \in Values /\ polled \in Values
    /\ coil \in Values /\ written \in Values
    /\ changes \in Seq(Change)
    /\ tasks \in Seq({"w", "r"})
    /\ lock \in Nat \cup {Master}
    /\ poller \in {"sleeping", "waiting", "reading"}
    /\ writers \subseteq Writer /\ IsFiniteSet(writers)
    /\ older \in 0..Len(tasks)
    /\ writes \in Nat /\ moves \in Nat /\ faults \in Nat

TypeOK == StateOK /\ raced \in BOOLEAN

Init ==
    /\ node = Default /\ bus = Default /\ polled = Default /\ coil = Default
    /\ changes = <<>> /\ tasks = <<>>
    /\ lock = Nobody /\ poller = "sleeping"
    /\ writers = {} /\ older = 0
    /\ written = Default /\ raced = FALSE
    /\ writes = 0 /\ moves = 0 /\ faults = 0
-----------------------------------------------------------------------------
(* Mutant of SetValue: every value is stored and notified.                 *)
SetValueForced(prefix, v) ==
    /\ bus' = v
    /\ tasks' = Append(tasks, prefix)

(* Databus.set_value, not forced: a different value is stored and a        *)
(* greenlet spawned to notify the observers of the key.                    *)
SetValue(prefix, v) ==
    IF bus = v
      THEN UNCHANGED <<bus, tasks>>
      ELSE /\ bus' = v
           /\ tasks' = Append(tasks, prefix)

SetNode(v, echo) ==
    /\ node' = v
    /\ changes' = Append(changes, [val |-> v, echo |-> echo])

(* A client writes the node.                                               *)
ClientWrite(v) ==
    /\ writes < MaxWrites
    /\ writes' = writes + 1
    /\ SetNode(v, FALSE)
    /\ written' = v
    /\ UNCHANGED <<bus, tasks, coil, lock, poller, polled, writers, older, raced, moves, faults>>

(* SubHandler.data_change, called for the changes in their order.          *)
DataChange ==
    /\ changes # <<>>
    /\ SetValue("w", Head(changes).val)
    /\ changes' = Tail(changes)
    /\ raced' = (raced \/ (~Head(changes).echo /\ poller = "reading"))
    /\ UNCHANGED <<node, coil, lock, poller, polled, writers, older, written, bounds>>

(* Spawned greenlets start in the order of their creation.                 *)
Started(prefix) ==
    /\ tasks # <<>> /\ Head(tasks) = prefix
    /\ tasks' = Tail(tasks)
    /\ older' = IF older = 0 THEN 0 ELSE older - 1

(* notify_observers of the 'r' key: the node takes what the databus has    *)
(* now.                                                                    *)
NotifyNode ==
    /\ Started("r")
    /\ SetNode(bus, TRUE)
    /\ UNCHANGED <<bus, coil, lock, poller, polled, writers, history, bounds>>
-----------------------------------------------------------------------------
NewId == CHOOSE i \in 1..(Cardinality(writers) + 1) : \A w \in writers : w.id # i

(* notify_observers of the 'w' key: write_coils reads the databus, then    *)
(* takes the lock, or waits for it.                                        *)
NotifyWriter ==
    LET w == [id |-> NewId, val |-> bus]
    IN  /\ Started("w")
        /\ writers' = writers \cup {w}
        /\ lock' = IF lock = Nobody THEN w.id ELSE lock
        /\ UNCHANGED <<node, changes, bus, coil, poller, polled, history, bounds>>

TakeLock(w) ==
    /\ lock = Nobody
    /\ lock' = w.id
    /\ UNCHANGED <<node, changes, bus, tasks, coil, poller, polled, writers, older, history, bounds>>

(* Mutant of WriteDone: the device is written what the databus has now.    *)
WriteDoneLate(w) ==
    /\ lock = w.id
    /\ coil' = bus
    /\ lock' = Nobody
    /\ writers' = writers \ {w}
    /\ UNCHANGED <<node, changes, bus, tasks, poller, polled, older, history, bounds>>

(* write_coil returns.                                                     *)
WriteDone(w) ==
    /\ lock = w.id
    /\ coil' = w.val
    /\ lock' = Nobody
    /\ writers' = writers \ {w}
    /\ UNCHANGED <<node, changes, bus, tasks, poller, polled, older, history, bounds>>

(* It raises ConnectionException or times out, before or after the device  *)
(* has obeyed.  The notifying greenlet ends; nobody tries again.           *)
WriteFails(w) ==
    /\ lock = w.id
    /\ faults < MaxFaults
    /\ faults' = faults + 1
    /\ coil' \in {coil, w.val}
    /\ lock' = Nobody
    /\ writers' = writers \ {w}
    /\ UNCHANGED <<node, changes, bus, tasks, poller, polled, older, history, writes, moves>>
-----------------------------------------------------------------------------
(* start sleeps for update_period, one second or more; the subscription    *)
(* publishes every 500 ms.  So what the last poll put into the node has    *)
(* been published before the next poll.                                    *)
Published ==
    /\ \A i \in DOMAIN tasks : tasks[i] # "r"
    /\ \A i \in DOMAIN changes : ~changes[i].echo

(* The poll begins; the device answers some time after.                    *)
Poll ==
    /\ \/ poller = "sleeping" /\ (Punctual => Published)
       \/ poller = "waiting" /\ lock = Nobody
    /\ IF lock = Nobody
         THEN /\ lock' = Master /\ poller' = "reading"
              /\ polled' = coil
              /\ older' = Len(tasks)
         ELSE /\ poller' = "waiting"
              /\ UNCHANGED <<lock, polled, older>>
    /\ UNCHANGED <<node, changes, bus, tasks, coil, writers, history, bounds>>

(* The answer takes a round trip to the device: greenlets spawned before   *)
(* the request have started by then.                                       *)
EndPoll ==
    /\ poller = "reading" /\ older = 0
    /\ lock' = Nobody /\ poller' = "sleeping"
    /\ UNCHANGED <<node, changes, coil, polled, writers, older, history, writes, moves>>

(* Mutant of PollDone: the answer is stored under 'w'.                     *)
PollDoneAsWrite ==
    /\ EndPoll
    /\ SetValue("w", polled)
    /\ UNCHANGED faults

(* The answer is stored under 'r'.                                         *)
PollDone ==
    /\ EndPoll
    /\ SetValue("r", polled)
    /\ UNCHANGED faults

(* ConnectionException (the next round connects again), no answer, or an  *)
(* exception response: of none of the known types, it is decoded to None,  *)
(* which set_value ignores.                                                *)
PollFails ==
    /\ EndPoll
    /\ faults < MaxFaults /\ faults' = faults + 1
    /\ UNCHANGED <<bus, tasks>>

(* The device changes its coil: external.                                  *)
Move(v) ==
    /\ moves < MaxMoves /\ v # coil
    /\ moves' = moves + 1
    /\ coil' = v
    /\ UNCHANGED <<node, changes, bus, tasks, lock, poller, polled, writers, older,
                   history, writes, faults>>
-----------------------------------------------------------------------------
Notify == NotifyNode \/ NotifyWriter

Next ==
    \/ \E v \in Values : ClientWrite(v) \/ Move(v)
    \/ DataChange
    \/ Notify
    \/ \E w \in writers : TakeLock(w) \/ WriteDone(w) \/ WriteFails(w)
    \/ Poll
    \/ PollDone
    \/ PollFails

Spec == Init /\ [][Next]_vars

(* Publishing and notifying go on, polls are answered or time out, and who *)
(* waits for the lock gets it: start sleeps between two polls.             *)
FairSpec ==
    /\ Spec
    /\ WF_vars(DataChange) /\ WF_vars(Notify)
    /\ WF_vars(\E w \in writers : WriteDone(w) \/ WriteFails(w))
    /\ SF_vars(\E w \in writers : TakeLock(w))
    /\ SF_vars(Poll) /\ WF_vars(PollDone)
-----------------------------------------------------------------------------
(* What the device changes by itself comes back to the server's own        *)
(* subscription as a write of the node, but is never written to the        *)
(* device: with no client, nothing is written.                             *)
NoEcho == writes = 0 => writers = {} /\ \A i \in DOMAIN tasks : tasks[i] = "r"

(* Without a client at most one thing is under way: a poll, the            *)
(* notification of its answer, or the publication of the node's change,    *)
(* which bears the value the databus has.                                  *)
OneAtATime ==
    writes = 0 =>
        /\ writers = {}
        /\ poller # "waiting"
        /\ lock = IF poller = "reading" THEN Master ELSE Nobody
        /\ \/ tasks = <<>> /\ changes = <<>>
           \/ tasks = <<"r">> /\ changes = <<>> /\ poller = "sleeping"
           \/ tasks = <<>> /\ changes = <<[val |-> bus, echo |-> TRUE]>>
                 /\ poller = "sleeping"

(* When clients and device come to rest, so do the three copies, and they  *)
(* agree, though nobody retries a failed write.                            *)
Agree == node = bus /\ bus = coil
Settles == <>[]Agree

(* A client's one write reaches the device and stays there, unless it was  *)
(* stored while a poll was being answered, the device changed by itself or *)
(* an exchange failed: a poll that is answered while the writer waits for  *)
(* the lock overwrites the databus, but not the value the writer has read. *)
WriteWins ==
    <>[](writes = 1 /\ moves = 0 /\ faults = 0 /\ ~raced => coil = written)
=============================================================================
