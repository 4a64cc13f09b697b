-------------------------------- MODULE DCT --------------------------------
(***************************************************************************)
(* The emulator of the rail guided vehicle.  Source: emulators/dct/dct.py. *)
(*                                                                         *)
(* One greenlet polls the vehicle's status over TCP and reconnects when    *)
(* the connection fails; others call go, through the databus, or pause.    *)
(* A lock surrounds every exchange but not connect.  A greenlet gives up   *)
(* control only where it waits: for the lock, in recv, in connect and in   *)
(* sleep; releasing the lock and taking it again is no such place.         *)
(*                                                                         *)
(* Bytes matter, because recv(13) and recv(6) take what has arrived, which *)
(* TCP may have cut anywhere, and never look at where a reply begins.  A   *)
(* byte is represented by the State that unpack_state makes of it when it  *)
(* comes fifth in 13 bytes.                                                *)
(***************************************************************************)
EXTENDS Integers, Sequences, FiniteSets, SequencesExt

CONSTANTS Poller,    \* the greenlet that runs start
          Callers,   \* the greenlets that call go and pause
          Nobody,    \* holds the lock when it is free
          Routes,    \* pairs of sites the vehicle can travel between
          NoRoute,   \* any other pair of sites
          MaxCalls,  \* bound on calls of go and pause
          MaxFaults, \* bound on connections lost and refused
          MaxMoves,  \* bound on changes the vehicle makes by itself
          MaxCuts,   \* bound on replies that arrive in parts
          Parts      \* how many bytes of such a reply arrive at first

ASSUME DCTAssumption ==
    /\ Poller \notin Callers
    /\ Nobody \notin Callers \cup {Poller}
    /\ NoRoute \notin Routes
    /\ {MaxCalls, MaxFaults, MaxMoves, MaxCuts} \subseteq Nat
    /\ Parts \subseteq 1..12

Greenlets == Callers \cup {Poller}
State == {"waiting", "stopped", "halt", "running", "fault", "repair"}
Read == [op |-> "read", route |-> NoRoute]
Msg == {Read} \cup [op : {"reset", "start", "pause"}, route : Routes]

VARIABLES sock,       \* self.sock: none yet, usable or not; made, while connect still waits
          link,       \* the connection of an open socket, as TCP knows it
          connected,  \* self.connected
          closed,     \* self.closed
          state,      \* self.state, and 'r ns=1;s=KYRgv.State' on the databus
          route,      \* self.source_site and self.target_site
          lock,       \* who holds the lock
          pc,         \* where each greenlet waits
          call,       \* what each caller is asked to do
          toDevice,   \* requests the device has not answered
          fromDevice, \* bytes that arrived and were not received
          last,       \* the request the device answered last
          vehicle,    \* the state of the vehicle itself
          startable,  \* was it stopped or halted at some time of a call?
          calls, faults, moves, cuts

conn == <<sock, link, toDevice, fromDevice>>
device == <<last, vehicle>>
bounds == <<calls, faults, moves, cuts>>
vars == <<sock, link, connected, closed, state, route, lock, pc, call,
          toDevice, fromDevice, device, startable, bounds>>

Places == {"idle", "top", "lock", "status", "reset", "order",
           "resting", "dialing", "sleeping", "done"}
Call == [op : {"start"}, route : Routes \cup {NoRoute}]
        \cup {[op |-> "pause", route |-> NoRoute]}

SortsOK ==
    /\ sock \in {"none", "closed", "dialing", "made", "open"}
    /\ link \in {"up", "eof", "refused"}
    /\ state \in State /\ vehicle \in State
    /\ route \in Routes \cup {NoRoute}
    /\ lock \in Greenlets \cup {Nobody}
    /\ pc \in [Greenlets -> Places]
    /\ call \in [Callers -> Call]
    /\ toDevice \in Seq(Msg) /\ last \in Msg
    /\ fromDevice \in Seq(State)
    /\ calls \in Nat /\ faults \in Nat /\ moves \in Nat /\ cuts \in Nat

FlagsOK ==
    /\ connected \in BOOLEAN /\ closed \in BOOLEAN
    /\ startable \in [Callers -> BOOLEAN]

TypeOK == SortsOK /\ FlagsOK

Init ==
    /\ sock = "none" /\ link = "refused"
    /\ connected = FALSE /\ closed = FALSE
    /\ state = "waiting" /\ route = NoRoute
    /\ lock = Nobody
    /\ pc = [g \in Greenlets |-> IF g = Poller THEN "top" ELSE "idle"]
    /\ call = [g \in Callers |-> [op |-> "start", route |-> NoRoute]]
    /\ toDevice = <<>> /\ fromDevice = <<>>
    /\ last = Read
    /\ vehicle = "stopped"
    /\ startable = [g \in Callers |-> FALSE]
    /\ calls = 0 /\ faults = 0 /\ moves = 0 /\ cuts = 0
-----------------------------------------------------------------------------
(* Leaving: a greenlet's exchange ends, well or with a socket.error, which *)
(* also clears connected.  start sleeps for a second, go and pause return. *)
Rest(g) == IF g = Poller THEN "sleeping" ELSE "idle"

Leave(g) ==
    /\ lock' = Nobody
    /\ pc' = [pc EXCEPT ![g] = Rest(g)]

(* Mutant of Fail: the error is logged and connected stays as it is.       *)
FailLogged(g) ==
    /\ Leave(g)
    /\ UNCHANGED connected

Fail(g) ==
    /\ Leave(g)
    /\ connected' = FALSE

(* sendall raises on a socket that is not connected and on a connection    *)
(* the peer has refused; a peer that only closed its end refuses after it. *)
CanSend == sock \in {"made", "open"} /\ link # "refused"

Send(m) ==
    /\ toDevice' = IF link = "up" THEN Append(toDevice, m) ELSE toDevice
    /\ link' = IF link = "up" THEN "up" ELSE "refused"

(* Holding the lock, send m and wait for the answer at place.              *)
Exchange(g, m, place) ==
    IF CanSend
      THEN /\ Send(m)
           /\ lock' = g
           /\ pc' = [pc EXCEPT ![g] = place]
           /\ UNCHANGED connected
      ELSE /\ Fail(g)
           /\ UNCHANGED <<toDevice, link>>

(* get_rgv_state up to recv.  Before the first connection self.sock is     *)
(* None: the AttributeError leaves go and pause, and connected is not set. *)
ReadStatus(g) ==
    IF lock # Nobody
      THEN /\ pc' = [pc EXCEPT ![g] = "lock"]
           /\ UNCHANGED <<lock, connected, link, toDevice>>
    ELSE IF sock = "none"
      THEN /\ Leave(g)
           /\ UNCHANGED <<connected, link, toDevice>>
      ELSE Exchange(g, Read, "status")

(* A greenlet that waited for the lock finds it free.                      *)
Acquire(g) ==
    /\ pc[g] = "lock" /\ lock = Nobody
    /\ ReadStatus(g)
    /\ UNCHANGED <<sock, fromDevice, closed, state, route, call, startable, device, bounds>>
-----------------------------------------------------------------------------
(* The loop of start.                                                      *)
PollerOnly ==
    UNCHANGED <<closed, state, route, call, startable, device, calls, moves, cuts>>

(* Mutant of Quit: closed is looked at while connected only.               *)
QuitConnected ==
    /\ pc[Poller] = "top" /\ closed /\ connected
    /\ pc' = [pc EXCEPT ![Poller] = "done"]
    /\ PollerOnly
    /\ UNCHANGED <<conn, connected, lock, faults>>

Quit ==
    /\ pc[Poller] = "top" /\ closed
    /\ pc' = [pc EXCEPT ![Poller] = "done"]
    /\ PollerOnly
    /\ UNCHANGED <<conn, connected, lock, faults>>

(* connect: close the failed socket and sleep for a second.                *)
DropSocket ==
    /\ pc[Poller] = "top" /\ ~closed /\ ~connected /\ sock # "none"
    /\ sock' = "closed"
    /\ pc' = [pc EXCEPT ![Poller] = "resting"]
    /\ PollerOnly
    /\ UNCHANGED <<link, toDevice, fromDevice, connected, lock, faults>>

Dial ==
    /\ \/ pc[Poller] = "resting"
       \/ pc[Poller] = "top" /\ ~closed /\ ~connected /\ sock = "none"
    /\ sock' = "dialing"
    /\ link' = "refused"
    /\ toDevice' = <<>> /\ fromDevice' = <<>>
    /\ pc' = [pc EXCEPT ![Poller] = "dialing"]
    /\ PollerOnly
    /\ UNCHANGED <<connected, lock, faults>>

(* TCP has made the connection, and connect's greenlet is to be woken:     *)
(* another one that runs before it finds a socket it can send on.  What it *)
(* waits for then comes after connect: the event loop wakes connect, which *)
(* has waited for the socket since before, first.  A connection that is    *)
(* lost here is taken to be lost right behind connect.                     *)
Establish ==
    /\ pc[Poller] = "dialing" /\ sock = "dialing"
    /\ sock' = "made" /\ link' = "up"
    /\ PollerOnly
    /\ UNCHANGED <<toDevice, fromDevice, connected, lock, pc, faults>>

(* Mutant of Dialed: connect receives the status it asks for.              *)
DialedAndRead ==
    /\ pc[Poller] = "dialing" /\ sock = "made"
    /\ sock' = "open"
    /\ connected' = TRUE
    /\ pc' = [pc EXCEPT ![Poller] = "lock"]
    /\ PollerOnly
    /\ UNCHANGED <<link, toDevice, fromDevice, lock, faults>>

(* connect asks for the status, whoever holds the lock, and does not wait  *)
(* for it; get_rgv_state asks again, if the lock is free.                  *)
Dialed ==
    /\ pc[Poller] = "dialing" /\ sock = "made"
    /\ sock' = "open"
    /\ connected' = TRUE
    /\ IF lock = Nobody
         THEN /\ toDevice' = toDevice \o <<Read, Read>>
              /\ lock' = Poller
              /\ pc' = [pc EXCEPT ![Poller] = "status"]
         ELSE /\ toDevice' = Append(toDevice, Read)
              /\ pc' = [pc EXCEPT ![Poller] = "lock"]
              /\ UNCHANGED lock
    /\ PollerOnly
    /\ UNCHANGED <<link, fromDevice, faults>>

(* Refused, or closed by stop while it was connecting.                     *)
DialFails ==
    /\ pc[Poller] = "dialing" /\ sock # "made"
    /\ IF sock = "dialing"
         THEN faults < MaxFaults /\ faults' = faults + 1
         ELSE UNCHANGED faults
    /\ sock' = "closed"
    /\ connected' = FALSE
    /\ pc' = [pc EXCEPT ![Poller] = "sleeping"]
    /\ PollerOnly
    /\ UNCHANGED <<link, toDevice, fromDevice, lock>>

Poll ==
    /\ pc[Poller] = "top" /\ ~closed /\ connected
    /\ ReadStatus(Poller)
    /\ PollerOnly
    /\ UNCHANGED <<sock, fromDevice, faults>>

WakeUp ==
    /\ pc[Poller] = "sleeping"
    /\ pc' = [pc EXCEPT ![Poller] = "top"]
    /\ PollerOnly
    /\ UNCHANGED <<conn, connected, lock, faults>>
-----------------------------------------------------------------------------
Startable(s) == s \in {"stopped", "halt"}

(* go and pause begin by asking for the vehicle's status.                  *)
Begin(g, c) ==
    /\ pc[g] = "idle" /\ calls < MaxCalls
    /\ calls' = calls + 1
    /\ call' = [call EXCEPT ![g] = c]
    /\ startable' = [startable EXCEPT ![g] = Startable(vehicle)]
    /\ ReadStatus(g)
    /\ UNCHANGED <<sock, fromDevice, closed, state, route, device, faults, moves, cuts>>

(* stop closes the socket, if there is one, under whoever uses it.         *)
Stop ==
    /\ ~closed
    /\ closed' = TRUE
    /\ sock' = IF sock = "none" THEN "none" ELSE "closed"
    /\ UNCHANGED <<link, toDevice, fromDevice, connected, state, route, lock, pc,
                   call, startable, device, bounds>>

(* What recv(n) can do: raise, return nothing at the end of the stream, or *)
(* return k bytes, n at most, of those the device has sent: all, when they *)
(* have arrived, and less, when TCP cut them.                              *)
Lost == sock \notin {"made", "open"} \/ (link = "refused" /\ fromDevice = <<>>)
AtEnd == sock = "open" /\ link # "up" /\ fromDevice = <<>>
Arrived == sock = "open" /\ fromDevice # <<>>

Recv(n, k) ==
    /\ \/ AtEnd /\ k = 0
       \/ Arrived /\ k \in 1..n /\ k <= Len(fromDevice)
    /\ fromDevice' = SubSeq(fromDevice, k + 1, Len(fromDevice))
    /\ IF k < n /\ k < Len(fromDevice)
         THEN k \in Parts /\ cuts < MaxCuts /\ cuts' = cuts + 1
         ELSE UNCHANGED cuts

(* Mutant of RecvFails: a socket.error leaves the lock taken.              *)
RecvFailsLocked(g) ==
    /\ pc[g] \in {"status", "reset", "order"}
    /\ Lost
    /\ connected' = FALSE
    /\ pc' = [pc EXCEPT ![g] = Rest(g)]
    /\ UNCHANGED <<conn, lock, closed, state, route, call, startable, device, bounds>>

RecvFails(g) ==
    /\ pc[g] \in {"status", "reset", "order"}
    /\ Lost
    /\ Fail(g)
    /\ UNCHANGED <<conn, closed, state, route, call, startable, device, bounds>>

(* unpack_state looks at messages of 13 bytes only.                        *)
Unpacked(k) == IF k = 13 THEN fromDevice[5] ELSE state

(* The route a call orders: go's arguments, or the route of the last go.   *)
RouteOf(g) == IF call[g].op = "start" THEN call[g].route ELSE route

MayOrder(g, s) ==
    /\ IF call[g].op = "start" THEN Startable(s) ELSE s = "running"
    /\ RouteOf(g) \in Routes

(* Mutant of StatusRead: the order is sent after the lock was given up.    *)
StatusReadUnlocked(g) ==
    /\ pc[g] = "status"
    /\ \E k \in 0..13 : Recv(13, k) /\ state' = Unpacked(k)
    /\ IF g # Poller /\ MayOrder(g, state')
         THEN /\ CanSend
              /\ Send([op |-> "reset", route |-> RouteOf(g)])
              /\ lock' = Nobody
              /\ pc' = [pc EXCEPT ![g] = "reset"]
              /\ UNCHANGED connected
         ELSE /\ Leave(g)
              /\ UNCHANGED <<connected, link, toDevice>>
    /\ UNCHANGED <<sock, closed, route, call, startable, device, calls, faults, moves>>

(* recv returns to get_rgv_state.  The poller is done; go and pause check  *)
(* the state and go on with execute_msg, where nobody can take the lock    *)
(* between.                                                                *)
StatusRead(g) ==
    /\ pc[g] = "status"
    /\ \E k \in 0..13 : Recv(13, k) /\ state' = Unpacked(k)
    /\ IF g # Poller /\ MayOrder(g, state')
         THEN Exchange(g, [op |-> "reset", route |-> RouteOf(g)], "reset")
         ELSE /\ Leave(g)
              /\ UNCHANGED <<connected, link, toDevice>>
    /\ UNCHANGED <<sock, closed, route, call, startable, device, calls, faults, moves>>

(* execute_msg: the answer to the reset, whatever it is, then the order.   *)
ResetRead(g) ==
    /\ pc[g] = "reset" /\ \E k \in 0..6 : Recv(6, k)
    /\ Exchange(g, [op |-> call[g].op, route |-> RouteOf(g)], "order")
    /\ UNCHANGED <<sock, closed, state, route, call, startable, device, calls, faults, moves>>

(* execute_msg returns; go remembers the route and returns True.           *)
OrderRead(g) ==
    /\ pc[g] = "order" /\ \E k \in 0..6 : Recv(6, k)
    /\ Leave(g)
    /\ route' = RouteOf(g)
    /\ UNCHANGED <<sock, link, toDevice, connected, closed, state, call, startable, device,
                   calls, faults, moves>>
-----------------------------------------------------------------------------
(* The device, external: it answers a status request with 13 bytes and any *)
(* other with 6, 01 10 00 14 00 01, as tests/helpers/dct_server.py does.   *)
StatusReply(s) ==
    <<"stopped", "stopped", "halt", "stopped", s>> \o [i \in 1..8 |-> "waiting"]

WriteReply == <<"stopped", "repair", "waiting", "running", "waiting", "stopped">>

Reply(m) == IF m = Read THEN StatusReply(vehicle) ELSE WriteReply

Obey(m) ==
    CASE m.op = "start" /\ Startable(vehicle) -> "running"
      [] m.op = "pause" /\ vehicle = "running" -> "halt"
      [] OTHER -> vehicle

Noted(v) == [g \in Callers |-> startable[g] \/ Startable(v)]

Answer ==
    /\ sock = "open" /\ link = "up" /\ toDevice # <<>>
    /\ last' = Head(toDevice)
    /\ toDevice' = Tail(toDevice)
    /\ fromDevice' = fromDevice \o Reply(last')
    /\ vehicle' = Obey(last')
    /\ startable' = Noted(vehicle')
    /\ UNCHANGED <<sock, link, connected, closed, state, route, lock, pc, call, bounds>>

(* The vehicle arrives, or somebody presses and releases an emergency stop.*)
Moves == {<<"running", "stopped">>, <<"running", "fault">>,
          <<"stopped", "fault">>, <<"halt", "fault">>, <<"fault", "stopped">>}

Move ==
    /\ moves < MaxMoves
    /\ moves' = moves + 1
    /\ \E m \in Moves : m[1] = vehicle /\ vehicle' = m[2]
    /\ startable' = Noted(vehicle')
    /\ UNCHANGED <<conn, connected, closed, state, route, lock, pc, call,
                   last, calls, faults, cuts>>

(* The device closes its end, or the connection is reset.                  *)
Drop ==
    /\ sock = "open" /\ link = "up" /\ faults < MaxFaults
    /\ faults' = faults + 1
    /\ link' \in {"eof", "refused"}
    /\ toDevice' = <<>>
    /\ UNCHANGED <<sock, fromDevice, connected, closed, state, route, lock, pc,
                   call, startable, device, calls, moves, cuts>>
-----------------------------------------------------------------------------
Proceed(g) == RecvFails(g) \/ StatusRead(g) \/ ResetRead(g) \/ OrderRead(g)
Loop == Quit \/ DropSocket \/ Dial \/ Establish \/ Dialed \/ DialFails \/ Poll \/ WakeUp

Next ==
    \/ Loop
    \/ \E g \in Greenlets : Acquire(g) \/ Proceed(g)
    \/ \E g \in Callers, c \in Call : Begin(g, c)
    \/ Stop
    \/ Answer
    \/ Move
    \/ Drop

Spec == Init /\ [][Next]_vars

(* Greenlets that can run do; the device answers what it gets.  The lock's *)
(* waiters are woken when it is freed and start sleeps between two polls,  *)
(* so who waits for the lock gets it.                                      *)
FairSpec ==
    /\ Spec
    /\ WF_vars(Loop) /\ WF_vars(Answer)
    /\ \A g \in Greenlets : WF_vars(Proceed(g)) /\ SF_vars(Acquire(g))
-----------------------------------------------------------------------------
(* Whoever polls, orders and reconnects meanwhile, the device gets every   *)
(* order right behind the reset of the same route on the same connection.  *)
Wire == <<last>> \o toDevice

ResetBeforeOrder ==
    \A i \in 2..Len(Wire) :
        Wire[i].op \in {"start", "pause"}
        => Wire[i - 1] = [op |-> "reset", route |-> Wire[i].route]

(* connect closes the socket without the lock.  It never takes it from a   *)
(* greenlet that is waiting for an answer on it; while connect itself      *)
(* waits one may begin, and stop closes the socket under anybody.          *)
ConnectDisturbsNobody ==
    ~connected /\ sock # "made" =>
        closed \/ \A g \in Greenlets : pc[g] \notin {"status", "reset", "order"}

(* What makes both inductive: who waits for an answer holds the lock, a    *)
(* connection given up cannot be sent on and is used by nobody, on one     *)
(* that connect does not know of yet nothing but a status was asked for,   *)
(* and who waits for the answer to its reset was the last to send.         *)
Exchanging(g) == pc[g] \in {"status", "reset", "order"}

LockInv ==
    /\ \A g \in Greenlets : Exchanging(g) <=> lock = g
    /\ ~connected /\ sock # "made" => ~CanSend /\ (closed \/ lock = Nobody)
    /\ pc[Poller] \in {"resting", "dialing"} => ~connected
    /\ pc[Poller] = "resting" => lock = Nobody
    /\ sock = "dialing" => lock = Nobody /\ toDevice = <<>> /\ fromDevice = <<>>
    /\ sock = "made" =>
          /\ pc[Poller] = "dialing" /\ link = "up" /\ fromDevice = <<>>
          /\ toDevice = IF lock = Nobody THEN <<>> ELSE <<Read>>
          /\ \A g \in Greenlets : pc[g] \notin {"reset", "order"}
    /\ pc[Poller] \notin {"idle", "reset", "order"}

ResetSent ==
    /\ link # "up" => toDevice = <<>>
    /\ \A g \in Callers : pc[g] \in {"reset", "order"} => RouteOf(g) \in Routes
    /\ \A g \in Callers : pc[g] = "reset" /\ link = "up" =>
          Wire[Len(Wire)] = [op |-> "reset", route |-> RouteOf(g)]

(* A status that connect asks for is received by nobody: on a connection   *)
(* that is up, the device owes, or the socket holds, those 13 bytes more   *)
(* than anybody waits for.  A request sent behind connect's is answered    *)
(* with bytes of an earlier answer, and where TCP cuts what recv returns   *)
(* more is left.  An answer has 6 bytes, and a status 7 more.              *)
Reads(s) == {i \in DOMAIN s : s[i] = Read}
Due(s) == 6 * Len(s) + 7 * Cardinality(Reads(s))
Unread == Len(fromDevice) + Due(toDevice)
Expected == IF \E g \in Greenlets : pc[g] = "status" THEN 13
            ELSE IF \E g \in Greenlets : pc[g] \in {"reset", "order"} THEN 6
            ELSE 0

AnswersLagBehind == sock = "open" /\ link = "up" => Unread >= 13 + Expected

(* dct.py:167-169: go first gets the vehicle's state and returns at once   *)
(* when it is not stopped.  So what go starts has been stopped, or halted, *)
(* at some time since go was called.                                       *)
StartsOnlyStopped ==
    [][\A g \in Callers : pc[g] = "reset" /\ pc'[g] = "order" /\ call[g].op = "start"
          => startable[g]]_vars

(* A connection that breaks, with or without an error, is replaced.        *)
Reconnects == sock = "open" /\ link # "up" ~> link = "up" \/ closed

(* Every call of go and pause returns and gives up the lock.               *)
CallsReturn == \A g \in Callers : pc[g] # "idle" ~> pc[g] = "idle"

(* start returns after stop, whatever it was waiting for.                  *)
StopEnds == closed ~> pc[Poller] = "done"
=============================================================================
