----------------------------- MODULE DCTProofs -----------------------------
(***************************************************************************)
(* The lock of the vehicle's emulator and the order of what it sends, for  *)
(* any number of callers, routes, calls and broken connections.            *)
(***************************************************************************)
EXTENDS DCT, SequenceTheorems, FiniteSetTheorems, TLAPS

(* What sendall and the exchange around it do to the kinds of variables.   *)
LEMMA SendSorts ==
  ASSUME SortsOK, NEW m \in Msg, Send(m)
  PROVE  toDevice' \in Seq(Msg) /\ link' \in {"up", "eof", "refused"}
  BY DEF SortsOK, Send

LEMMA ExchangeSorts ==
  ASSUME SortsOK, NEW g \in Greenlets, NEW m \in Msg, NEW p \in Places, Exchange(g, m, p)
  PROVE  /\ toDevice' \in Seq(Msg) /\ link' \in {"up", "eof", "refused"}
         /\ lock' \in Greenlets \cup {Nobody}
         /\ pc' \in [Greenlets -> Places]
<1>1. CASE CanSend
  BY <1>1, SendSorts DEF Exchange, SortsOK
<1>2. CASE ~CanSend
  BY <1>2 DEF Exchange, Fail, Leave, Rest, Places, SortsOK
<1> QED
  BY <1>1, <1>2

LEMMA ReadStatusSorts ==
  ASSUME SortsOK, NEW g \in Greenlets, ReadStatus(g)
  PROVE  /\ toDevice' \in Seq(Msg) /\ link' \in {"up", "eof", "refused"}
         /\ lock' \in Greenlets \cup {Nobody}
         /\ pc' \in [Greenlets -> Places]
<1>1. CASE lock # Nobody
  BY <1>1 DEF ReadStatus, Places, SortsOK
<1>2. CASE lock = Nobody /\ sock = "none"
  BY <1>2 DEF ReadStatus, Leave, Rest, Places, SortsOK
<1>3. CASE lock = Nobody /\ sock # "none"
  <2>1. Read \in Msg /\ "status" \in Places
    BY DEF Msg, Places
  <2> QED
    BY <1>3, <2>1, ExchangeSorts DEF ReadStatus
<1> QED
  BY <1>1, <1>2, <1>3

(* recv returns a part of what arrived, and a status decodes to a State.   *)
LEMMA ReceivedSorts ==
  ASSUME SortsOK, NEW n \in {6, 13}, NEW k \in 0..n, Recv(n, k)
  PROVE  fromDevice' \in Seq(State) /\ cuts' \in Nat /\ k \in 0..Len(fromDevice)
<1>1. fromDevice \in Seq(State) /\ Len(fromDevice) \in Nat /\ k \in Nat
  BY LenProperties DEF SortsOK
<1>2. k <= Len(fromDevice)
  BY <1>1 DEF Recv
<1>3. fromDevice' = SubSeq(fromDevice, k + 1, Len(fromDevice))
  BY DEF Recv
<1>4. fromDevice' \in Seq(State)
  BY <1>1, <1>3, SubSeqProperties
<1>5. cuts' \in Nat
  BY DEF Recv, SortsOK
<1> QED
  BY <1>1, <1>2, <1>4, <1>5

LEMMA UnpackedSorts ==
  ASSUME SortsOK, NEW k \in 0..13, Recv(13, k)
  PROVE  Unpacked(k) \in State
<1>1. CASE k = 13
  <2>1. fromDevice \in Seq(State) /\ 13 \in 0..Len(fromDevice) /\ Len(fromDevice) \in Nat
    BY <1>1, ReceivedSorts, LenProperties DEF SortsOK
  <2>2. 5 \in 1..Len(fromDevice)
    BY <2>1
  <2> QED
    BY <1>1, <2>1, <2>2, ElementOfSeq DEF Unpacked
<1>2. CASE k # 13
  BY <1>2 DEF Unpacked, SortsOK
<1> QED
  BY <1>1, <1>2

LEMMA RouteSorts ==
  ASSUME SortsOK, NEW g \in Callers
  PROVE  /\ RouteOf(g) \in Routes \cup {NoRoute}
         /\ call[g].op \in {"start", "pause"}
  BY DEF SortsOK, RouteOf, Call

LEMMA MsgSorts ==
  ASSUME NEW op \in {"reset", "start", "pause"}, NEW r \in Routes
  PROVE  [op |-> op, route |-> r] \in Msg
  BY DEF Msg

LEMMA InitSorts == Init => SortsOK
<1> SUFFICES ASSUME Init PROVE SortsOK
  OBVIOUS
<1>1. Read \in Msg
  BY DEF Msg
<1>2. pc \in [Greenlets -> Places] /\ call \in [Callers -> Call]
  BY DEF Init, Greenlets, Places, Call
<1> QED
  BY <1>1, <1>2 DEF Init, SortsOK, State

LEMMA LoopSorts ==
  ASSUME SortsOK, Loop
  PROVE  SortsOK'
<1>0. Read \in Msg /\ Poller \in Greenlets
  BY DEF Msg, Greenlets
<1> USE DEF PollerOnly, conn, device
<1>1. CASE Quit
  BY <1>1 DEF Quit, SortsOK, Places
<1>2. CASE DropSocket
  BY <1>2 DEF DropSocket, SortsOK, Places
<1>3. CASE Dial
  <2>1. /\ sock' = "dialing" /\ link' = "refused"
        /\ toDevice' = <<>> /\ fromDevice' = <<>>
        /\ pc' = [pc EXCEPT ![Poller] = "dialing"]
        /\ UNCHANGED <<lock, faults, state, route, call, last, vehicle, calls, moves, cuts>>
    BY <1>3 DEF Dial
  <2>2. <<>> \in Seq(Msg) /\ <<>> \in Seq(State)
    BY EmptySeq
  <2>3. "dialing" \in Places
    BY DEF Places
  <2> QED
    BY <1>0, <2>1, <2>2, <2>3 DEF SortsOK
<1>4. CASE Dialed
  <2>1. toDevice' \in {toDevice \o <<Read, Read>>, Append(toDevice, Read)}
    BY <1>4 DEF Dialed
  <2>2. toDevice' \in Seq(Msg)
    <3>1. toDevice \in Seq(Msg)
      BY DEF SortsOK
    <3>2. <<Read, Read>> \in Seq(Msg)
      BY <1>0
    <3>3. toDevice \o <<Read, Read>> \in Seq(Msg)
      BY <3>1, <3>2, ConcatProperties, Zenon
    <3>4. Append(toDevice, Read) \in Seq(Msg)
      BY <1>0, <3>1
    <3> QED
      BY <2>1, <3>3, <3>4, Zenon
  <2> QED
    BY <1>0, <1>4, <2>2 DEF Dialed, SortsOK, Places
<1>5. CASE DialFails
  <2>1. /\ faults' \in {faults, faults + 1}
        /\ sock' = "closed"
        /\ pc' = [pc EXCEPT ![Poller] = "sleeping"]
        /\ UNCHANGED <<link, toDevice, fromDevice, lock, state, route, call,
                       last, vehicle, calls, moves, cuts>>
    BY <1>5 DEF DialFails
  <2>2. "sleeping" \in Places
    BY DEF Places
  <2> QED
    BY <1>0, <2>1, <2>2 DEF SortsOK
<1>6. CASE Poll
  BY <1>0, <1>6, ReadStatusSorts DEF Poll, SortsOK
<1>7. CASE WakeUp
  BY <1>7 DEF WakeUp, SortsOK, Places
<1>8. CASE Establish
  BY <1>8 DEF Establish, SortsOK
<1> QED
  BY <1>1, <1>2, <1>3, <1>4, <1>5, <1>6, <1>7, <1>8 DEF Loop

LEMMA ProceedSorts ==
  ASSUME SortsOK, ResetSent, LockInv, NEW g \in Greenlets, Acquire(g) \/ Proceed(g)
  PROVE  SortsOK'
<1> USE DEF conn, device, bounds
<1>1. CASE Acquire(g)
  BY <1>1, ReadStatusSorts DEF Acquire, SortsOK
<1>2. CASE RecvFails(g)
  BY <1>2 DEF RecvFails, Fail, Leave, Rest, SortsOK, Places
<1>3. CASE StatusRead(g)
  <2>1. state' \in State /\ fromDevice' \in Seq(State) /\ cuts' \in Nat
    <3>1. PICK k \in 0..13 : Recv(13, k) /\ state' = Unpacked(k)
      BY <1>3 DEF StatusRead
    <3> QED
      BY <3>1, ReceivedSorts, UnpackedSorts
  <2>2. CASE g # Poller /\ MayOrder(g, state')
    <3>1. RouteOf(g) \in Routes /\ "reset" \in Places
      BY <2>2 DEF MayOrder, Places
    <3> QED
      BY <1>3, <2>1, <2>2, <3>1, MsgSorts, ExchangeSorts DEF StatusRead, SortsOK
  <2>3. CASE ~(g # Poller /\ MayOrder(g, state'))
    BY <1>3, <2>1, <2>3 DEF StatusRead, Leave, Rest, SortsOK, Places
  <2> QED
    BY <2>2, <2>3
<1>4. CASE ResetRead(g)
  <2>1. g \in Callers /\ RouteOf(g) \in Routes
    BY <1>4 DEF ResetRead, LockInv, ResetSent, Greenlets
  <2>2. fromDevice' \in Seq(State) /\ cuts' \in Nat /\ "order" \in Places
    BY <1>4, ReceivedSorts DEF ResetRead, Places
  <2>3. [op |-> call[g].op, route |-> RouteOf(g)] \in Msg
    BY <2>1, RouteSorts, MsgSorts
  <2> QED
    BY <1>4, <2>2, <2>3, ExchangeSorts DEF ResetRead, SortsOK
<1>5. CASE OrderRead(g)
  <2>1. g \in Callers
    BY <1>5 DEF OrderRead, LockInv, Greenlets
  <2>2. fromDevice' \in Seq(State) /\ cuts' \in Nat
    BY <1>5, ReceivedSorts DEF OrderRead
  <2> QED
    BY <1>5, <2>1, <2>2, RouteSorts DEF OrderRead, Leave, Rest, SortsOK, Places
<1> QED
  BY <1>1, <1>2, <1>3, <1>4, <1>5 DEF Proceed

(* What the callers, stop and the vehicle do.                              *)
LEMMA BeginSorts ==
  ASSUME SortsOK, NEW g \in Callers, NEW c \in Call, Begin(g, c)
  PROVE  SortsOK'
<1>1. g \in Greenlets
  BY DEF Greenlets
<1>2. call' \in [Callers -> Call] /\ calls' \in Nat
  BY DEF Begin, SortsOK
<1>3. ReadStatus(g)
  BY DEF Begin
<1>4. UNCHANGED <<sock, fromDevice, state, route, last, vehicle, faults, moves, cuts>>
  BY DEF Begin, device
<1> QED
  BY <1>1, <1>2, <1>3, <1>4, ReadStatusSorts DEF SortsOK

LEMMA ReplySorts ==
  ASSUME NEW m, vehicle \in State
  PROVE  Reply(m) \in Seq(State)
<1>1. <<"stopped", "stopped", "halt", "stopped", vehicle>> \in Seq(State)
  BY DEF State
<1>2. [i \in 1..8 |-> "waiting"] \in Seq(State)
  BY DEF State
<1>3. WriteReply \in Seq(State)
  BY DEF WriteReply, State
<1> QED
  BY <1>1, <1>2, <1>3 DEF Reply, StatusReply

LEMMA AnswerSorts ==
  ASSUME SortsOK, Answer
  PROVE  SortsOK'
<1>1. last' \in Msg /\ toDevice' \in Seq(Msg)
  BY DEF Answer, SortsOK
<1>2. fromDevice' \in Seq(State)
  <2>1. Reply(last') \in Seq(State)
    BY ReplySorts DEF SortsOK
  <2>2. fromDevice' = fromDevice \o Reply(last')
    BY DEF Answer
  <2> QED
    BY <2>1, <2>2 DEF SortsOK
<1>3. vehicle' \in State
  <2>1. Obey(last') \in {"running", "halt", vehicle}
    BY DEF Obey
  <2> QED
    BY <2>1 DEF Answer, SortsOK, State
<1>4. UNCHANGED <<sock, link, state, route, lock, pc, call, calls, faults, moves, cuts>>
  BY DEF Answer, bounds
<1> QED
  BY <1>1, <1>2, <1>3, <1>4 DEF SortsOK

LEMMA OutsideSorts ==
  ASSUME SortsOK, Stop \/ Move \/ Drop
  PROVE  SortsOK'
<1>1. CASE Stop
  <2>1. /\ sock' \in {"none", "closed"}
        /\ UNCHANGED <<link, toDevice, fromDevice, state, route, lock, pc, call,
                       last, vehicle, calls, faults, moves, cuts>>
    BY <1>1 DEF Stop, device, bounds
  <2> QED
    BY <2>1 DEF SortsOK
<1>2. CASE Move
  <2>1. /\ vehicle' \in {"stopped", "fault"}
        /\ moves' = moves + 1
        /\ UNCHANGED <<sock, link, toDevice, fromDevice, state, route, lock, pc, call,
                       last, calls, faults, cuts>>
    BY <1>2 DEF Move, Moves, conn
  <2> QED
    BY <2>1 DEF SortsOK, State
<1>3. CASE Drop
  <2>1. /\ link' \in {"eof", "refused"}
        /\ toDevice' = <<>>
        /\ faults' = faults + 1
        /\ UNCHANGED <<sock, fromDevice, state, route, lock, pc, call,
                       last, vehicle, calls, moves, cuts>>
    BY <1>3 DEF Drop, device
  <2> QED
    BY <2>1, EmptySeq DEF SortsOK
<1> QED
  BY <1>1, <1>2, <1>3
-----------------------------------------------------------------------------
(* A greenlet that leaves while nobody else holds the lock frees it, and   *)
(* the socket is given up only together with the lock.                     *)
LEMMA LeaveLock ==
  ASSUME SortsOK, LockInv, NEW g \in Greenlets, lock \in {Nobody, g}, Leave(g), sock # "made",
         UNCHANGED <<sock, link>>, sock = "dialing" => UNCHANGED <<toDevice, fromDevice>>,
         connected' = connected \/ (~connected' /\ ~CanSend)
  PROVE  LockInv'
<1>1. lock' = Nobody /\ pc' = [pc EXCEPT ![g] = Rest(g)]
  BY DEF Leave
<1>2. pc \in [Greenlets -> Places] /\ Nobody \notin Greenlets
  BY DCTAssumption DEF SortsOK, Greenlets
<1>3. \A h \in Greenlets : ~Exchanging(h)'
  BY <1>1, <1>2 DEF Rest, Exchanging, LockInv
<1>4. ~connected' => ~CanSend'
  BY DEF LockInv, CanSend
<1>5. Poller \in Greenlets /\ pc'[Poller] \notin {"idle", "reset", "order"}
  BY <1>1, <1>2 DEF Rest, LockInv, Greenlets
<1>6. pc'[Poller] \in {"resting", "dialing"} => ~connected'
  BY <1>1, <1>2, <1>5 DEF Rest, LockInv
<1>7. sock' = "dialing" => toDevice' = <<>> /\ fromDevice' = <<>>
  BY DEF LockInv
<1> QED
  BY <1>1, <1>2, <1>3, <1>4, <1>5, <1>6, <1>7 DEF LockInv

LEMMA ExchangeLock ==
  ASSUME SortsOK, LockInv, NEW g \in Greenlets, NEW m, NEW p \in {"status", "reset", "order"},
         g = Poller => p = "status", lock \in {Nobody, g}, Exchange(g, m, p), UNCHANGED sock,
         sock # "made", sock = "dialing" => UNCHANGED fromDevice
  PROVE  LockInv'
<1>1. CASE CanSend
  <2>1. lock' = g /\ pc' = [pc EXCEPT ![g] = p] /\ connected' = connected
    BY <1>1 DEF Exchange
  <2>2. pc \in [Greenlets -> Places] /\ Poller \in Greenlets
    BY DEF SortsOK, Greenlets
  <2>3. connected' /\ sock' \notin {"dialing", "made"}
    BY <1>1, <2>1 DEF LockInv, CanSend
  <2>4. \A h \in Greenlets : Exchanging(h)' <=> lock' = h
    BY <2>1, <2>2, DCTAssumption DEF Exchanging, LockInv, Greenlets
  <2>5. pc'[Poller] \notin {"idle", "reset", "order"}
    BY <2>1, <2>2 DEF LockInv
  <2>6. pc[Poller] \notin {"resting", "dialing"}
    BY <2>1, <2>3 DEF LockInv
  <2>7. pc'[Poller] \notin {"resting", "dialing"}
    BY <2>1, <2>2, <2>6
  <2> QED
    BY <2>3, <2>4, <2>5, <2>7 DEF LockInv
<1>2. CASE ~CanSend
  <2>1. Leave(g) /\ ~connected' /\ UNCHANGED <<sock, link, toDevice>>
    BY <1>2 DEF Exchange, Fail
  <2> QED
    BY <1>2, <2>1, LeaveLock
<1> QED
  BY <1>1, <1>2

(* get_rgv_state, called by a greenlet that is not exchanging: on a        *)
(* connection that connect does not know of yet it asks for a status.      *)
LEMMA ReadStatusLock ==
  ASSUME SortsOK, LockInv, NEW g \in Greenlets, ~Exchanging(g), pc[g] # "dialing",
         ReadStatus(g), UNCHANGED <<sock, fromDevice, closed>>
  PROVE  LockInv'
<1>0. pc \in [Greenlets -> Places] /\ Poller \in Greenlets
  BY DEF SortsOK, Greenlets
<1>1. CASE lock # Nobody
  <2>1. /\ pc' = [pc EXCEPT ![g] = "lock"] /\ lock' = lock
        /\ connected' = connected /\ link' = link /\ toDevice' = toDevice
    BY <1>1 DEF ReadStatus
  <2>3. \A h \in Greenlets : Exchanging(h)' <=> lock' = h
    BY <2>1, <1>0 DEF Exchanging, LockInv
  <2>4. ~connected' /\ sock' # "made" => ~CanSend' /\ (closed' \/ lock' = Nobody)
    BY <2>1 DEF LockInv, CanSend
  <2>5. /\ pc'[Poller] \in {"resting", "dialing"} => ~connected'
        /\ pc'[Poller] = "resting" => lock' = Nobody
        /\ pc'[Poller] \notin {"idle", "reset", "order"}
    BY <2>1, <1>0 DEF LockInv
  <2>6. sock' = "dialing" => lock' = Nobody /\ toDevice' = <<>> /\ fromDevice' = <<>>
    BY <2>1 DEF LockInv
  <2>7. ASSUME sock' = "made"
        PROVE  /\ pc'[Poller] = "dialing" /\ link' = "up" /\ fromDevice' = <<>>
               /\ toDevice' = IF lock' = Nobody THEN <<>> ELSE <<Read>>
               /\ \A h \in Greenlets : pc'[h] \notin {"reset", "order"}
    <3>1. g # Poller
      BY <2>7 DEF LockInv
    <3> QED
      BY <1>0, <2>1, <2>7, <3>1 DEF LockInv
  <2> QED
    BY <2>3, <2>4, <2>5, <2>6, <2>7 DEF LockInv
<1>2. CASE lock = Nobody /\ sock = "none"
  <2>1. Leave(g) /\ connected' = connected /\ link' = link
    BY <1>2 DEF ReadStatus
  <2> QED
    BY <1>2, <2>1, LeaveLock
<1>3. CASE lock = Nobody /\ sock \notin {"none", "made"}
  <2>1. Exchange(g, Read, "status")
    BY <1>3 DEF ReadStatus
  <2> QED
    BY <1>3, <2>1, ExchangeLock
<1>4. CASE lock = Nobody /\ sock = "made"
  <2>1. /\ link = "up" /\ toDevice = <<>> /\ fromDevice = <<>> /\ CanSend
        /\ pc[Poller] = "dialing" /\ ~connected /\ g # Poller
        /\ \A h \in Greenlets : pc[h] \notin {"reset", "order"}
    BY <1>4 DEF LockInv, CanSend
  <2>2. /\ Send(Read) /\ lock' = g /\ pc' = [pc EXCEPT ![g] = "status"]
        /\ connected' = connected
    BY <1>4, <2>1 DEF ReadStatus, Exchange
  <2>3. toDevice' = <<Read>> /\ link' = "up" /\ sock' = "made" /\ fromDevice' = <<>>
    BY <1>4, <2>1, <2>2 DEF Send
  <2>4. \A h \in Greenlets : Exchanging(h)' <=> lock' = h
    BY <1>0, <1>4, <2>2, DCTAssumption DEF Exchanging, LockInv, Greenlets
  <2>5. pc'[Poller] = "dialing" /\ \A h \in Greenlets : pc'[h] \notin {"reset", "order"}
    BY <1>0, <2>1, <2>2
  <2>6. g # Nobody
    BY DCTAssumption DEF Greenlets
  <2>7. toDevice' = IF lock' = Nobody THEN <<>> ELSE <<Read>>
    BY <2>2, <2>3, <2>6
  <2> QED
    BY <2>1, <2>2, <2>3, <2>4, <2>5, <2>7 DEF LockInv
<1> QED
  BY <1>1, <1>2, <1>3, <1>4

(* The poller moves between places where it holds no lock; connect starts  *)
(* only when the socket was given up, so nobody is waiting on it.          *)
LEMMA PollerMoves ==
  ASSUME SortsOK, LockInv, NEW p \in Places \ {"idle", "status", "reset", "order"},
         ~Exchanging(Poller), pc' = [pc EXCEPT ![Poller] = p], lock' = lock,
         ~connected' => ~CanSend' /\ (closed' \/ lock = Nobody), sock' # "made",
         p \in {"resting", "dialing"} => ~connected',
         p = "resting" => lock = Nobody,
         sock' = "dialing" => lock = Nobody /\ toDevice' = <<>> /\ fromDevice' = <<>>
  PROVE  LockInv'
<1>1. pc \in [Greenlets -> Places] /\ Poller \in Greenlets
  BY DEF SortsOK, Greenlets
<1>2. pc'[Poller] = p
  BY <1>1
<1>3. \A h \in Greenlets : Exchanging(h)' <=> lock' = h
  BY <1>1 DEF Exchanging, LockInv
<1> QED
  BY <1>2, <1>3 DEF LockInv

LEMMA LoopLock ==
  ASSUME SortsOK, LockInv, Loop
  PROVE  LockInv'
<1> USE DEF PollerOnly, conn
<1>0. /\ Poller \in Greenlets /\ Nobody \notin Greenlets
      /\ pc \in [Greenlets -> Places]
  BY DCTAssumption DEF Greenlets, SortsOK
<1>1. CASE Quit
  <2>1. /\ ~connected' => ~CanSend' /\ (closed' \/ lock = Nobody)
        /\ sock' # "made"
        /\ sock' = "dialing" => lock = Nobody /\ toDevice' = <<>> /\ fromDevice' = <<>>
    BY <1>1 DEF Quit, LockInv, CanSend
  <2> QED
    BY <1>1, <2>1, PollerMoves DEF Quit, Exchanging, Places
<1>2. CASE DropSocket
  <2>1. lock = Nobody /\ ~CanSend' /\ ~connected' /\ sock' = "closed"
    BY <1>2 DEF DropSocket, LockInv, CanSend
  <2> QED
    BY <1>2, <2>1, PollerMoves DEF DropSocket, Exchanging, Places
<1>3. CASE Dial
  <2>1. ~connected' /\ lock = Nobody
    BY <1>3 DEF Dial, LockInv, CanSend
  <2>2. ~CanSend'
    BY <1>3 DEF Dial, CanSend
  <2> QED
    BY <1>3, <2>1, <2>2, PollerMoves DEF Dial, Exchanging, Places
<1>4. CASE Dialed
  <2>1. connected' /\ sock' = "open" /\ pc[Poller] = "dialing"
    BY <1>4 DEF Dialed
  <2>2. CASE lock = Nobody
    <3>1. lock' = Poller /\ pc' = [pc EXCEPT ![Poller] = "status"]
      BY <1>4, <2>2 DEF Dialed
    <3>2. \A h \in Greenlets : Exchanging(h)' <=> lock' = h
      BY <1>0, <2>2, <3>1 DEF Exchanging, LockInv
    <3>3. pc'[Poller] = "status"
      BY <1>0, <3>1
    <3> QED
      BY <2>1, <3>2, <3>3 DEF LockInv
  <2>3. CASE lock # Nobody
    <3>1. lock' = lock /\ pc' = [pc EXCEPT ![Poller] = "lock"]
      BY <1>4, <2>3 DEF Dialed
    <3>2. \A h \in Greenlets : Exchanging(h)' <=> lock' = h
      BY <1>0, <2>1, <3>1 DEF Exchanging, LockInv
    <3>3. pc'[Poller] = "lock"
      BY <1>0, <3>1
    <3> QED
      BY <2>1, <3>2, <3>3 DEF LockInv
  <2> QED
    BY <2>2, <2>3
<1>5. CASE DialFails
  <2>1. ~connected /\ sock # "made"
    BY <1>5 DEF DialFails, LockInv
  <2>2. closed \/ lock = Nobody
    BY <2>1 DEF LockInv
  <2>3. ~CanSend' /\ ~connected' /\ sock' = "closed" /\ closed' = closed /\ lock' = lock
    BY <1>5 DEF DialFails, CanSend
  <2>4. closed' \/ lock = Nobody
    BY <2>2, <2>3, Zenon
  <2>5. ~Exchanging(Poller) /\ pc' = [pc EXCEPT ![Poller] = "sleeping"]
    BY <1>5 DEF DialFails, Exchanging
  <2> QED
    BY <2>3, <2>4, <2>5, PollerMoves DEF Places
<1>6. CASE Poll
  BY <1>0, <1>6, ReadStatusLock DEF Poll, Exchanging
<1>7. CASE WakeUp
  <2>1. /\ ~connected' => ~CanSend' /\ (closed' \/ lock = Nobody)
        /\ sock' # "made"
        /\ sock' = "dialing" => lock = Nobody /\ toDevice' = <<>> /\ fromDevice' = <<>>
    BY <1>7 DEF WakeUp, LockInv, CanSend
  <2> QED
    BY <1>7, <2>1, PollerMoves DEF WakeUp, Exchanging, Places
<1>8. CASE Establish
  <2>1. /\ UNCHANGED <<toDevice, fromDevice, connected, lock, pc>>
        /\ sock' = "made" /\ link' = "up" /\ pc[Poller] = "dialing"
        /\ lock = Nobody /\ toDevice = <<>> /\ fromDevice = <<>>
    BY <1>8 DEF Establish, LockInv
  <2>2. \A h \in Greenlets : ~Exchanging(h)
    BY <1>0, <2>1 DEF LockInv
  <2>3. \A h \in Greenlets : /\ Exchanging(h)' <=> lock' = h
                             /\ pc'[h] \notin {"reset", "order"}
    BY <1>0, <2>1, <2>2 DEF Exchanging
  <2> QED
    BY <2>1, <2>3 DEF LockInv
<1> QED
  BY <1>1, <1>2, <1>3, <1>4, <1>5, <1>6, <1>7, <1>8 DEF Loop

LEMMA GreenletLock ==
  ASSUME SortsOK, LockInv, ResetSent, NEW g \in Greenlets, Acquire(g) \/ Proceed(g)
  PROVE  LockInv'
<1>0. Nobody \notin Greenlets /\ g # Nobody
  BY DCTAssumption DEF Greenlets
<1> USE DEF conn
<1>1. CASE Acquire(g)
  BY <1>1, ReadStatusLock DEF Acquire, Exchanging
<1>2. CASE Proceed(g)
  <2>1. lock = g
    BY <1>2, <1>0 DEF Proceed, RecvFails, StatusRead, ResetRead, OrderRead, LockInv, Exchanging
  <2>2. CASE RecvFails(g)
    <3>1. Leave(g) /\ UNCHANGED <<sock, link, toDevice, fromDevice>> /\ ~connected'
      BY <2>2 DEF RecvFails, Fail
    <3>2. ~CanSend /\ sock # "made"
      BY <2>2 DEF RecvFails, Lost, CanSend, LockInv
    <3> QED
      BY <2>1, <3>1, <3>2, LeaveLock
  <2>3. CASE StatusRead(g)
    <3>0. sock = "open"
      BY <2>3 DEF StatusRead, Recv, AtEnd, Arrived
    <3>1. CASE g # Poller /\ MayOrder(g, state')
      <4>1. Exchange(g, [op |-> "reset", route |-> RouteOf(g)], "reset") /\ UNCHANGED sock
        BY <2>3, <3>1 DEF StatusRead
      <4> QED
        BY <2>1, <3>0, <3>1, <4>1, ExchangeLock
    <3>2. CASE ~(g # Poller /\ MayOrder(g, state'))
      <4>1. Leave(g) /\ connected' = connected /\ UNCHANGED <<sock, link>>
        BY <2>3, <3>2 DEF StatusRead
      <4> QED
        BY <2>1, <3>0, <4>1, LeaveLock
    <3> QED
      BY <3>1, <3>2
  <2>4. CASE ResetRead(g)
    <3>1. g # Poller /\ sock = "open"
      BY <2>4 DEF ResetRead, LockInv, Recv, AtEnd, Arrived
    <3>2. /\ Exchange(g, [op |-> call[g].op, route |-> RouteOf(g)], "order")
          /\ UNCHANGED sock
      BY <2>4 DEF ResetRead
    <3> QED
      BY <2>1, <3>1, <3>2, ExchangeLock
  <2>5. CASE OrderRead(g)
    <3>1. Leave(g) /\ connected' = connected /\ UNCHANGED <<sock, link>> /\ sock = "open"
      BY <2>5 DEF OrderRead, Recv, AtEnd, Arrived
    <3> QED
      BY <2>1, <3>1, LeaveLock
  <2> QED
    BY <1>2, <2>2, <2>3, <2>4, <2>5 DEF Proceed
<1> QED
  BY <1>1, <1>2

(* Whatever leaves the greenlets where they are and makes no socket usable.*)
LEMMA OthersLock ==
  ASSUME LockInv, UNCHANGED <<lock, pc, connected>>, ~CanSend => ~CanSend',
         closed' = closed \/ closed',
         UNCHANGED <<sock, link, toDevice, fromDevice>> \/ sock' \notin {"dialing", "made"},
         sock' = sock \/ (~CanSend' /\ closed')
  PROVE  LockInv'
<1>1. ~connected' /\ sock' # "made" => ~CanSend' /\ (closed' \/ lock' = Nobody)
  BY DEF LockInv
<1> QED
  BY <1>1 DEF LockInv, Exchanging

LEMMA LockStep ==
  ASSUME SortsOK, LockInv, ResetSent, [Next]_vars
  PROVE  LockInv'
<1> USE DEF conn, device, bounds
<1>1. CASE Loop
  BY <1>1, LoopLock
<1>2. CASE \E g \in Greenlets : Acquire(g) \/ Proceed(g)
  BY <1>2, GreenletLock
<1>3. CASE \E g \in Callers, c \in Call : Begin(g, c)
  <2>1. PICK g \in Callers, c \in Call : Begin(g, c)
    BY <1>3
  <2>2. /\ g \in Greenlets /\ ~Exchanging(g) /\ pc[g] # "dialing" /\ ReadStatus(g)
        /\ UNCHANGED <<sock, fromDevice, closed>>
    BY <2>1 DEF Begin, Exchanging, Greenlets
  <2> QED
    BY <2>2, ReadStatusLock
<1>4. CASE Stop
  <2>1. ~CanSend' /\ UNCHANGED <<lock, pc, connected>> /\ closed' /\ sock' \in {"none", "closed"}
    BY <1>4 DEF Stop, CanSend
  <2> QED
    BY <2>1, OthersLock
<1>5. CASE Answer
  <2>1. UNCHANGED <<sock, link, lock, pc, connected, closed>> /\ sock = "open"
    BY <1>5 DEF Answer
  <2> QED
    BY <2>1, OthersLock DEF CanSend
<1>6. CASE Move
  <2>1. UNCHANGED <<sock, link, toDevice, fromDevice, lock, pc, connected, closed>>
    BY <1>6 DEF Move
  <2> QED
    BY <2>1, OthersLock DEF CanSend
<1>7. CASE Drop
  <2>1. CanSend /\ sock = "open" /\ UNCHANGED <<sock, lock, pc, connected, closed>>
    BY <1>7 DEF Drop, CanSend
  <2> QED
    BY <2>1, OthersLock
<1>8. CASE UNCHANGED vars
  <2>1. UNCHANGED <<sock, link, toDevice, fromDevice, lock, pc, connected, closed>>
    BY <1>8 DEF vars
  <2> QED
    BY <2>1, OthersLock DEF CanSend
<1> QED
  BY <1>1, <1>2, <1>3, <1>4, <1>5, <1>6, <1>7, <1>8 DEF Next
-----------------------------------------------------------------------------
(* The request answered last and those behind it.                          *)
LEMMA WireFacts ==
  ASSUME NEW l \in Msg, NEW s \in Seq(Msg)
  PROVE  /\ <<l>> \o s \in Seq(Msg) /\ Len(<<l>> \o s) = Len(s) + 1
         /\ (<<l>> \o s)[1] = l
         /\ \A i \in 1..Len(s) : (<<l>> \o s)[i + 1] = s[i]
  OBVIOUS

Orders == {"start", "pause"}

(* A sequence in which every order stands behind its reset.                *)
Escorted(w) ==
    \A i \in 2..Len(w) :
        w[i].op \in Orders => w[i - 1] = [op |-> "reset", route |-> w[i].route]

LEMMA EscortedAppend ==
  ASSUME NEW w \in Seq(Msg), Len(w) > 0, Escorted(w), NEW m \in Msg,
         m.op \in Orders => w[Len(w)] = [op |-> "reset", route |-> m.route]
  PROVE  Escorted(Append(w, m))
<1> DEFINE v == Append(w, m)
<1> SUFFICES ASSUME NEW i \in 2..Len(v), v[i].op \in Orders
             PROVE  v[i - 1] = [op |-> "reset", route |-> v[i].route]
  BY DEF Escorted
<1>1. Len(v) = Len(w) + 1 /\ v[Len(v)] = m /\ \A j \in 1..Len(w) : v[j] = w[j]
  OBVIOUS
<1> HIDE DEF v
<1>2. CASE i = Len(v)
  BY <1>1, <1>2
<1>3. CASE i # Len(v)
  <2>1. i \in 2..Len(w) /\ i \in 1..Len(w) /\ i - 1 \in 1..Len(w)
    BY <1>1, <1>3
  <2> QED
    BY <1>1, <2>1 DEF Escorted
<1> QED
  BY <1>2, <1>3

LEMMA EscortedTail ==
  ASSUME NEW l \in Msg, NEW s \in Seq(Msg), s # <<>>, Escorted(<<l>> \o s)
  PROVE  Escorted(<<Head(s)>> \o Tail(s))
<1>1. <<Head(s)>> \o Tail(s) = s
  OBVIOUS
<1>2. ASSUME NEW i \in 2..Len(s), s[i].op \in Orders
      PROVE  s[i - 1] = [op |-> "reset", route |-> s[i].route]
  <2> DEFINE w == <<l>> \o s
  <2>1. Len(w) = Len(s) + 1 /\ w[i + 1] = s[i] /\ w[i] = s[i - 1]
    <3>1. i \in 1..Len(s) /\ i - 1 \in 1..Len(s) /\ (i - 1) + 1 = i
      OBVIOUS
    <3> QED
      BY <3>1, WireFacts
  <2>2. i + 1 \in 2..Len(w) /\ (i + 1) - 1 = i
    BY <2>1
  <2> HIDE DEF w
  <2>3. Escorted(w)
    BY DEF w
  <2> QED
    BY <1>2, <2>1, <2>2, <2>3 DEF Escorted
<1> QED
  BY <1>1, <1>2 DEF Escorted

LEMMA EscortedWire == ResetBeforeOrder <=> Escorted(Wire)
  BY DEF ResetBeforeOrder, Escorted, Orders

LEMMA SendWire ==
  ASSUME SortsOK, ResetSent, ResetBeforeOrder, NEW m \in Msg, Send(m), UNCHANGED last,
         m.op \in Orders /\ link = "up"
           => Wire[Len(Wire)] = [op |-> "reset", route |-> m.route]
  PROVE  /\ ResetBeforeOrder'
         /\ link' # "up" => toDevice' = <<>>
         /\ link' = "up" => Wire'[Len(Wire')] = m
<1>0. last \in Msg /\ toDevice \in Seq(Msg)
  BY DEF SortsOK
<1>1. CASE link = "up"
  <2>1. toDevice' = Append(toDevice, m) /\ link' = "up"
    BY <1>1 DEF Send
  <2>2. Wire \in Seq(Msg) /\ Len(Wire) > 0 /\ Wire' = Append(Wire, m)
    BY <1>0, <2>1 DEF Wire
  <2>3. Escorted(Wire')
    BY <1>1, <2>2, EscortedWire, EscortedAppend
  <2>4. Wire'[Len(Wire')] = m
    BY <2>2
  <2>5. ResetBeforeOrder'
    BY <2>3 DEF ResetBeforeOrder, Escorted, Orders
  <2> QED
    BY <2>1, <2>4, <2>5
<1>2. CASE link # "up"
  <2>1. toDevice' = toDevice /\ link' = "refused" /\ Wire' = Wire
    BY <1>2 DEF Send, Wire
  <2>2. toDevice' = <<>>
    BY <1>2, <2>1 DEF ResetSent
  <2>3. ResetBeforeOrder'
    BY <2>1 DEF ResetBeforeOrder
  <2> QED
    BY <2>1, <2>2, <2>3
<1> QED
  BY <1>1, <1>2

(* A greenlet may be about to order, or be told that its reset was done,   *)
(* only if it was so before and nothing was sent since.                    *)
LEMMA Undisturbed ==
  ASSUME SortsOK, ResetSent, UNCHANGED <<route, call>>,
         \A h \in Callers : pc'[h] \in {"reset", "order"} => pc[h] = pc'[h],
         \/ UNCHANGED <<link, last, toDevice>>
         \/ link' # "up"
         \/ \A h \in Callers : pc'[h] # "reset"
  PROVE  /\ \A h \in Callers : pc'[h] \in {"reset", "order"} => RouteOf(h)' \in Routes
         /\ \A h \in Callers : pc'[h] = "reset" /\ link' = "up" =>
              Wire'[Len(Wire')] = [op |-> "reset", route |-> RouteOf(h)']
<1>1. \A h \in Callers : RouteOf(h)' = RouteOf(h)
  BY DEF RouteOf
<1>2. CASE UNCHANGED <<link, last, toDevice>>
  <2>1. Wire' = Wire
    BY <1>2 DEF Wire
  <2> QED
    BY <1>1, <1>2, <2>1 DEF ResetSent
<1>3. CASE link' # "up" \/ \A h \in Callers : pc'[h] # "reset"
  BY <1>1, <1>3 DEF ResetSent
<1> QED
  BY <1>2, <1>3

(* get_rgv_state sends a request of its own only when nobody else waits.   *)
LEMMA ReadStatusWire ==
  ASSUME SortsOK, LockInv, ResetSent, ResetBeforeOrder, NEW g \in Greenlets,
         ReadStatus(g), UNCHANGED last
  PROVE  /\ ResetBeforeOrder'
         /\ link' # "up" => toDevice' = <<>>
         /\ \A h \in Callers : pc'[h] \in {"reset", "order"} => pc[h] = pc'[h]
         /\ \/ UNCHANGED <<link, last, toDevice>>
            \/ \A h \in Callers : pc'[h] # "reset"
<1>0. pc \in [Greenlets -> Places] /\ Callers \subseteq Greenlets /\ Nobody \notin Greenlets
  BY DCTAssumption DEF SortsOK, Greenlets
<1>1. CASE UNCHANGED <<link, last, toDevice>>
  <2>1. ResetBeforeOrder' /\ (link' # "up" => toDevice' = <<>>)
    BY <1>1 DEF ResetBeforeOrder, Wire, ResetSent
  <2>2. \/ pc' = [pc EXCEPT ![g] = "lock"]
        \/ pc' = [pc EXCEPT ![g] = Rest(g)]
        \/ pc' = [pc EXCEPT ![g] = "status"]
    BY DEF ReadStatus, Leave, Exchange, Fail
  <2> QED
    BY <1>0, <1>1, <2>1, <2>2 DEF Rest
<1>2. CASE ~UNCHANGED <<link, last, toDevice>>
  <2>1. lock = Nobody /\ Send(Read) /\ pc' = [pc EXCEPT ![g] = "status"]
    BY <1>2 DEF ReadStatus, Exchange
  <2>2. Read \in Msg /\ Read.op \notin Orders
    BY DEF Read, Msg, Orders
  <2>3. ResetBeforeOrder' /\ (link' # "up" => toDevice' = <<>>)
    BY <2>1, <2>2, SendWire
  <2>4. \A h \in Callers : pc'[h] \notin {"reset", "order"}
    BY <1>0, <2>1 DEF LockInv, Exchanging
  <2> QED
    BY <2>3, <2>4
<1> QED
  BY <1>1, <1>2

(* The part of the invariant about what is sent.                           *)
WireInv == ResetSent /\ ResetBeforeOrder

LEMMA WireUnchanged ==
  ASSUME SortsOK, WireInv, UNCHANGED <<link, last, toDevice, route, call>>,
         \A h \in Callers : pc'[h] \in {"reset", "order"} => pc[h] = pc'[h]
  PROVE  WireInv'
<1>1. Wire' = Wire
  BY DEF Wire
<1>2. ResetBeforeOrder'
  BY <1>1 DEF WireInv, ResetBeforeOrder
<1>3. link' # "up" => toDevice' = <<>>
  BY DEF WireInv, ResetSent
<1> QED
  BY <1>2, <1>3, Undisturbed DEF WireInv, ResetSent

LEMMA LoopWire ==
  ASSUME SortsOK, LockInv, WireInv, Loop
  PROVE  WireInv'
<1> USE DEF PollerOnly, conn, device
<1>0. /\ pc \in [Greenlets -> Places] /\ Callers \subseteq Greenlets
      /\ Poller \notin Callers /\ Nobody \notin Greenlets
  BY DCTAssumption DEF SortsOK, Greenlets
<1>1. CASE Quit
  BY <1>0, <1>1, WireUnchanged DEF Quit
<1>2. CASE DropSocket
  BY <1>0, <1>2, WireUnchanged DEF DropSocket
<1>3. CASE Dial
  <2>1. /\ link' = "refused" /\ toDevice' = <<>> /\ last' = last
        /\ UNCHANGED <<route, call>>
        /\ pc' = [pc EXCEPT ![Poller] = "dialing"]
    BY <1>3 DEF Dial
  <2>2. Wire' = <<last>>
    BY <2>1 DEF Wire
  <2>3. ResetBeforeOrder'
    BY <2>2 DEF ResetBeforeOrder
  <2>4. \A h \in Callers : pc'[h] = pc[h]
    BY <1>0, <2>1
  <2> QED
    BY <2>1, <2>3, <2>4, Undisturbed DEF WireInv, ResetSent
<1>4. CASE Dialed
  <2>1. /\ toDevice = IF lock = Nobody THEN <<>> ELSE <<Read>>
        /\ link = "up" /\ \A h \in Greenlets : pc[h] \notin {"reset", "order"}
    BY <1>4 DEF Dialed, LockInv
  <2>2. /\ link' = "up" /\ toDevice' = <<Read, Read>> /\ last' = last
        /\ UNCHANGED <<route, call>>
        /\ \/ pc' = [pc EXCEPT ![Poller] = "status"]
           \/ pc' = [pc EXCEPT ![Poller] = "lock"]
    BY <1>4, <2>1 DEF Dialed
  <2>3. Wire' = <<last>> \o <<Read, Read>>
    BY <2>2 DEF Wire
  <2>4. ResetBeforeOrder'
    <3>1. Read.op = "read"
      BY DEF Read
    <3>2. Len(Wire') = 3 /\ Wire'[2] = Read /\ Wire'[3] = Read
      <4>1. last \in Msg /\ <<Read, Read>> \in Seq(Msg) /\ Len(<<Read, Read>>) = 2
        BY DEF SortsOK, Msg
      <4> QED
        BY <2>3, <4>1, WireFacts
    <3>3. \A i \in 2..Len(Wire') : i = 2 \/ i = 3
      BY <3>2
    <3> QED
      BY <3>1, <3>2, <3>3 DEF ResetBeforeOrder
  <2>5. \A h \in Callers : pc'[h] = pc[h] /\ pc[h] \notin {"reset", "order"}
    BY <1>0, <2>1, <2>2
  <2> QED
    BY <2>2, <2>4, <2>5, Undisturbed DEF WireInv, ResetSent
<1>5. CASE DialFails
  BY <1>0, <1>5, WireUnchanged DEF DialFails
<1>6. CASE Poll
  <2>1. ReadStatus(Poller) /\ UNCHANGED <<last, route, call>>
    BY <1>6 DEF Poll
  <2>2. Poller \in Greenlets
    BY DEF Greenlets
  <2> QED
    BY <2>1, <2>2, ReadStatusWire, Undisturbed DEF WireInv, ResetSent
<1>7. CASE WakeUp
  BY <1>0, <1>7, WireUnchanged DEF WakeUp
<1>8. CASE Establish
  <2>1. link' = "up" /\ UNCHANGED <<toDevice, last, pc, route, call>>
    BY <1>8 DEF Establish
  <2>2. \A h \in Callers : pc'[h] \notin {"reset", "order"}
    BY <1>0, <1>8, <2>1 DEF Establish, LockInv, Exchanging
  <2>3. Wire' = Wire
    BY <2>1 DEF Wire
  <2> QED
    BY <2>1, <2>2, <2>3 DEF WireInv, ResetSent, ResetBeforeOrder
<1> QED
  BY <1>1, <1>2, <1>3, <1>4, <1>5, <1>6, <1>7, <1>8 DEF Loop

LEMMA GreenletWire ==
  ASSUME SortsOK, LockInv, WireInv, NEW g \in Greenlets, Acquire(g) \/ Proceed(g)
  PROVE  WireInv'
<1>0. /\ pc \in [Greenlets -> Places] /\ Callers \subseteq Greenlets
      /\ Poller \notin Callers /\ Nobody \notin Greenlets
  BY DCTAssumption DEF SortsOK, Greenlets
<1> USE DEF conn, device
<1>1. CASE Acquire(g)
  <2>1. ReadStatus(g) /\ UNCHANGED <<last, route, call>>
    BY <1>1 DEF Acquire
  <2> QED
    BY <2>1, ReadStatusWire, Undisturbed DEF WireInv, ResetSent
<1>2. CASE Proceed(g)
  <2>1. lock = g /\ \A h \in Callers \ {g} : pc[h] \notin {"reset", "order"}
    BY <1>2, <1>0 DEF Proceed, RecvFails, StatusRead, ResetRead, OrderRead, LockInv, Exchanging
  <2>2. CASE RecvFails(g)
    <3>1. /\ UNCHANGED <<link, last, toDevice, route, call>>
          /\ pc' = [pc EXCEPT ![g] = Rest(g)]
      BY <2>2 DEF RecvFails, Fail, Leave
    <3> QED
      BY <1>0, <3>1, WireUnchanged DEF Rest
  <2>3. CASE StatusRead(g)
    <3>1. CASE g # Poller /\ MayOrder(g, state')
      <4>1. /\ Exchange(g, [op |-> "reset", route |-> RouteOf(g)], "reset")
            /\ UNCHANGED <<last, route, call>>
        BY <2>3, <3>1 DEF StatusRead
      <4>2. g \in Callers /\ RouteOf(g) \in Routes
        BY <3>1 DEF MayOrder, Greenlets
      <4> DEFINE m == [op |-> "reset", route |-> RouteOf(g)]
      <4>3. m \in Msg /\ m.op \notin Orders
        BY <4>2, MsgSorts DEF Orders
      <4>4. CASE CanSend
        <5>1. Send(m) /\ pc' = [pc EXCEPT ![g] = "reset"]
          BY <4>1, <4>4 DEF Exchange
        <5>2. /\ ResetBeforeOrder'
              /\ link' # "up" => toDevice' = <<>>
              /\ link' = "up" => Wire'[Len(Wire')] = m
          BY <4>1, <4>3, <5>1, SendWire DEF WireInv
        <5>3. \A h \in Callers : pc'[h] \in {"reset", "order"} => h = g
          BY <1>0, <2>1, <5>1
        <5>4. RouteOf(g)' = RouteOf(g)
          BY <4>1 DEF RouteOf
        <5> QED
          BY <4>2, <5>2, <5>3, <5>4 DEF WireInv, ResetSent
      <4>5. CASE ~CanSend
        <5>1. /\ UNCHANGED <<link, toDevice>>
              /\ pc' = [pc EXCEPT ![g] = Rest(g)]
          BY <4>1, <4>5 DEF Exchange, Fail, Leave
        <5> QED
          BY <1>0, <4>1, <5>1, WireUnchanged DEF Rest
      <4> QED
        BY <4>4, <4>5
    <3>2. CASE ~(g # Poller /\ MayOrder(g, state'))
      <4>1. /\ UNCHANGED <<link, last, toDevice, route, call>>
            /\ pc' = [pc EXCEPT ![g] = Rest(g)]
        BY <2>3, <3>2 DEF StatusRead, Leave
      <4> QED
        BY <1>0, <4>1, WireUnchanged DEF Rest
    <3> QED
      BY <3>1, <3>2
  <2>4. CASE ResetRead(g)
    <3> DEFINE m == [op |-> call[g].op, route |-> RouteOf(g)]
    <3>1. Exchange(g, m, "order") /\ UNCHANGED <<last, route, call>> /\ pc[g] = "reset"
      BY <2>4 DEF ResetRead
    <3>2. g \in Callers
      BY <3>1 DEF LockInv, Greenlets
    <3>3. RouteOf(g) \in Routes
      BY <3>1, <3>2 DEF WireInv, ResetSent
    <3>4. m \in Msg /\ m.route = RouteOf(g)
      BY <3>2, <3>3, RouteSorts, MsgSorts
    <3>5. CASE CanSend
      <4>1. Send(m) /\ pc' = [pc EXCEPT ![g] = "order"]
        BY <3>1, <3>5 DEF Exchange
      <4>2. link = "up" => Wire[Len(Wire)] = [op |-> "reset", route |-> m.route]
        BY <3>1, <3>2, <3>4 DEF WireInv, ResetSent
      <4> HIDE DEF m
      <4>3. ResetBeforeOrder' /\ (link' # "up" => toDevice' = <<>>)
        BY <3>1, <3>4, <4>1, <4>2, SendWire DEF WireInv
      <4>4. \A h \in Callers : /\ pc'[h] # "reset"
                               /\ pc'[h] = "order" => h = g
        BY <1>0, <2>1, <4>1
      <4>5. RouteOf(g)' = RouteOf(g)
        BY <3>1 DEF RouteOf
      <4> QED
        BY <3>3, <4>3, <4>4, <4>5 DEF WireInv, ResetSent
    <3>6. CASE ~CanSend
      <4>1. /\ UNCHANGED <<link, toDevice>>
            /\ pc' = [pc EXCEPT ![g] = Rest(g)]
        BY <3>1, <3>6 DEF Exchange, Fail, Leave
      <4> QED
        BY <1>0, <3>1, <4>1, WireUnchanged DEF Rest
    <3> QED
      BY <3>5, <3>6
  <2>5. CASE OrderRead(g)
    <3>1. /\ UNCHANGED <<link, last, toDevice>>
          /\ pc' = [pc EXCEPT ![g] = Rest(g)]
      BY <2>5 DEF OrderRead, Leave
    <3>2. \A h \in Callers : pc'[h] \notin {"reset", "order"}
      BY <1>0, <2>1, <3>1 DEF Rest
    <3>3. Wire' = Wire
      BY <3>1 DEF Wire
    <3> QED
      BY <3>1, <3>2, <3>3 DEF WireInv, ResetSent, ResetBeforeOrder
  <2> QED
    BY <1>2, <2>2, <2>3, <2>4, <2>5 DEF Proceed
<1> QED
  BY <1>1, <1>2

(* The device answers in order, so the requests only move up.              *)
LEMMA AnswerWire ==
  ASSUME SortsOK, WireInv, Answer
  PROVE  WireInv'
<1> DEFINE s == toDevice
<1>1. /\ s \in Seq(Msg) /\ s # <<>> /\ last \in Msg
      /\ last' = Head(s) /\ toDevice' = Tail(s) /\ link = "up"
      /\ UNCHANGED <<link, route, call, pc>>
  BY DEF Answer, SortsOK
<1>2. Wire' = <<Head(s)>> \o Tail(s)
  BY <1>1 DEF Wire
<1>3. ResetBeforeOrder'
  <2>1. Escorted(<<last>> \o s)
    BY EscortedWire DEF WireInv, Wire
  <2>2. Escorted(Wire')
    BY <1>1, <1>2, <2>1, EscortedTail
  <2> QED
    BY <2>2 DEF ResetBeforeOrder, Escorted, Orders
<1>4. Wire'[Len(Wire')] = Wire[Len(Wire)]
  <2>1. Wire' = s
    BY <1>1, <1>2
  <2>2. Len(s) \in 1..Len(s)
    BY <1>1
  <2>3. Wire[Len(s) + 1] = s[Len(s)] /\ Len(Wire) = Len(s) + 1
    BY <1>1, <2>2, WireFacts DEF Wire
  <2> QED
    BY <2>1, <2>3
<1>5. \A h \in Callers : RouteOf(h)' = RouteOf(h)
  BY <1>1 DEF RouteOf
<1> QED
  BY <1>1, <1>3, <1>4, <1>5 DEF WireInv, ResetSent

LEMMA WireStep ==
  ASSUME SortsOK, LockInv, WireInv, [Next]_vars
  PROVE  WireInv'
<1> USE DEF conn, device, bounds
<1>1. CASE Loop
  BY <1>1, LoopWire
<1>2. CASE \E g \in Greenlets : Acquire(g) \/ Proceed(g)
  BY <1>2, GreenletWire
<1>3. CASE \E g \in Callers, c \in Call : Begin(g, c)
  <2>1. PICK g \in Callers, c \in Call : Begin(g, c)
    BY <1>3
  <2>2. /\ ReadStatus(g) /\ UNCHANGED <<last, route>> /\ pc[g] = "idle"
        /\ call' = [call EXCEPT ![g] = c]
    BY <2>1 DEF Begin
  <2>3. g \in Greenlets /\ call \in [Callers -> Call] /\ Callers \subseteq Greenlets
    BY DEF SortsOK, Greenlets
  <2>4. /\ ResetBeforeOrder'
        /\ link' # "up" => toDevice' = <<>>
        /\ \A h \in Callers : pc'[h] \in {"reset", "order"} => pc[h] = pc'[h]
        /\ \/ UNCHANGED <<link, last, toDevice>>
           \/ \A h \in Callers : pc'[h] # "reset"
    BY <2>2, <2>3, ReadStatusWire DEF WireInv
  <2>5. \A h \in Callers : pc'[h] \in {"reset", "order"} => RouteOf(h)' = RouteOf(h)
    BY <2>2, <2>3, <2>4 DEF RouteOf
  <2>6. UNCHANGED <<link, last, toDevice>> => Wire' = Wire
    BY DEF Wire
  <2> QED
    BY <2>4, <2>5, <2>6 DEF WireInv, ResetSent
<1>4. CASE Stop
  BY <1>4, WireUnchanged DEF Stop
<1>5. CASE Answer
  BY <1>5, AnswerWire
<1>6. CASE Move
  BY <1>6, WireUnchanged DEF Move
<1>7. CASE Drop
  <2>1. /\ link' # "up" /\ toDevice' = <<>>
        /\ UNCHANGED <<last, route, call, pc>>
    BY <1>7 DEF Drop
  <2>2. Wire' = <<last>>
    BY <2>1 DEF Wire
  <2>3. ResetBeforeOrder'
    BY <2>2 DEF ResetBeforeOrder
  <2> QED
    BY <2>1, <2>3, Undisturbed DEF WireInv, ResetSent
<1>8. CASE UNCHANGED vars
  BY <1>8, WireUnchanged DEF vars
<1> QED
  BY <1>1, <1>2, <1>3, <1>4, <1>5, <1>6, <1>7, <1>8 DEF Next

LEMMA SortsStep ==
  ASSUME SortsOK, LockInv, WireInv, [Next]_vars
  PROVE  SortsOK'
<1>1. CASE \E g \in Callers, c \in Call : Begin(g, c)
  BY <1>1, BeginSorts
<1>2. CASE UNCHANGED vars
  BY <1>2 DEF vars, device, bounds, SortsOK
<1> QED
  BY <1>1, <1>2, LoopSorts, ProceedSorts, AnswerSorts, OutsideSorts DEF Next, WireInv
-----------------------------------------------------------------------------
IInv == SortsOK /\ LockInv /\ WireInv

LEMMA InitIInv == Init => IInv
<1> SUFFICES ASSUME Init PROVE IInv
  OBVIOUS
<1>1. SortsOK
  BY InitSorts
<1>2. LockInv
  <2>1. \A g \in Greenlets : pc[g] \in {"top", "idle"}
    BY DEF Init
  <2>2. pc[Poller] = "top" /\ lock = Nobody /\ Nobody \notin Greenlets /\ sock = "none"
    BY DCTAssumption DEF Init, Greenlets
  <2>3. ~connected
    BY DEF Init
  <2> QED
    BY <2>1, <2>2, <2>3 DEF LockInv, Exchanging, CanSend
<1>3. WireInv
  <2>1. toDevice = <<>> /\ last = Read /\ \A g \in Callers : pc[g] \in {"top", "idle"}
    BY DEF Init, Greenlets
  <2>2. Wire = <<Read>>
    BY <2>1 DEF Wire
  <2> QED
    BY <2>1, <2>2 DEF WireInv, ResetSent, ResetBeforeOrder
<1> QED
  BY <1>1, <1>2, <1>3 DEF IInv

LEMMA Inductive == Spec => []IInv
<1>1. IInv /\ [Next]_vars => IInv'
  BY SortsStep, LockStep, WireStep DEF IInv, WireInv
<1> QED
  BY InitIInv, <1>1, PTL DEF Spec

(* The device gets every order right behind the reset of the same route,   *)
(* however go, pause, the polling and reconnecting interleave: execute_msg *)
(* holds the lock from the reset to the order, and start never opens a new *)
(* connection in between.                                                  *)
THEOREM OrdersAreEscorted == Spec => []ResetBeforeOrder
  BY Inductive, PTL DEF IInv, WireInv

(* connect, which takes no lock, replaces the socket only when no other    *)
(* greenlet waits for an answer on it, unless stop closed it before.       *)
THEOREM ConnectIsSafe == Spec => []ConnectDisturbsNobody
<1>1. IInv => ConnectDisturbsNobody
  <2> SUFFICES ASSUME IInv, ~connected, sock # "made", ~closed, NEW g \in Greenlets
               PROVE  ~Exchanging(g)
    BY DEF ConnectDisturbsNobody, Exchanging
  <2>1. lock = Nobody /\ Nobody \notin Greenlets
    BY DCTAssumption DEF IInv, LockInv, Greenlets
  <2> QED
    BY <2>1 DEF IInv, LockInv
<1> QED
  BY <1>1, Inductive, PTL

(* The Boolean variables, which no other part of the invariant needs.      *)
LEMMA FlagsStep ==
  ASSUME FlagsOK, [Next]_vars
  PROVE  FlagsOK'
<1> USE DEF FlagsOK
<1>1. CASE Loop
  BY <1>1, Zenon DEF Loop, Quit, DropSocket, Dial, Establish, Dialed, DialFails, Poll, WakeUp,
     PollerOnly, ReadStatus, Exchange, Leave, Fail
<1>2. CASE \E g \in Greenlets : Acquire(g) \/ Proceed(g)
  BY <1>2, Zenon DEF Acquire, Proceed, RecvFails, StatusRead, ResetRead, OrderRead,
     ReadStatus, Exchange, Leave, Fail, device
<1>3. CASE \E g \in Callers, c \in Call : Begin(g, c)
  <2>1. PICK g \in Callers, c \in Call : Begin(g, c)
    BY <1>3
  <2>2. connected' \in BOOLEAN /\ closed' \in BOOLEAN
    BY <2>1, Zenon DEF Begin, ReadStatus, Exchange, Leave, Fail, device
  <2>3. startable' = [startable EXCEPT ![g] = Startable(vehicle)]
    BY <2>1 DEF Begin
  <2>4. Startable(vehicle) \in BOOLEAN
    BY DEF Startable
  <2> QED
    BY <2>2, <2>3, <2>4, Zenon
<1>4. CASE Stop \/ Answer \/ Move \/ Drop
  BY <1>4, Zenon DEF Stop, Answer, Move, Drop, Noted, Startable, device
<1>5. CASE UNCHANGED vars
  BY <1>5, Zenon DEF vars, device
<1> QED
  BY <1>1, <1>2, <1>3, <1>4, <1>5 DEF Next

LEMMA InitFlags == Init => FlagsOK
<1> SUFFICES ASSUME Init PROVE FlagsOK
  OBVIOUS
<1>1. startable = [g \in Callers |-> FALSE]
  BY DEF Init
<1>2. connected = FALSE /\ closed = FALSE
  BY Zenon DEF Init
<1> QED
  BY <1>1, <1>2, Zenon DEF FlagsOK

(* Every variable keeps its kind: the poller and the callers are at a      *)
(* place of their own code, the wire carries requests, and what recv       *)
(* returns decodes to a state of the vehicle.                              *)
THEOREM TypeCorrect == Spec => []TypeOK
<1>1. Spec => []FlagsOK
  BY InitFlags, FlagsStep, PTL DEF Spec
<1>2. IInv /\ FlagsOK => TypeOK
  BY DEF IInv, TypeOK
<1> QED
  BY <1>1, <1>2, Inductive, PTL
-----------------------------------------------------------------------------
(* What the device owes for the requests on their way.                     *)
Size(m) == IF m = Read THEN 13 ELSE 6

LEMMA ReadsFinite ==
  ASSUME NEW s \in Seq(Msg)
  PROVE  IsFiniteSet(Reads(s)) /\ Cardinality(Reads(s)) \in Nat
<1>1. IsFiniteSet(1..Len(s)) /\ Reads(s) \subseteq 1..Len(s)
  BY FS_Interval DEF Reads
<1> QED
  BY <1>1, FS_Subset, FS_CardinalityType

LEMMA DueNat ==
  ASSUME NEW s \in Seq(Msg)
  PROVE  Due(s) \in Nat
  BY ReadsFinite DEF Due

LEMMA DueEmpty == Due(<<>>) = 0
<1>1. Reads(<<>>) = {}
  BY DEF Reads
<1> QED
  BY <1>1, FS_EmptySet DEF Due

LEMMA DueAppend ==
  ASSUME NEW s \in Seq(Msg), NEW m \in Msg
  PROVE  Due(Append(s, m)) = Due(s) + Size(m)
<1>1. Len(Append(s, m)) = Len(s) + 1 /\ Len(s) + 1 \notin Reads(s)
  BY DEF Reads
<1>2. Reads(Append(s, m)) = IF m = Read THEN Reads(s) \cup {Len(s) + 1} ELSE Reads(s)
  BY DEF Reads
<1>3. Cardinality(Reads(s) \cup {Len(s) + 1}) = Cardinality(Reads(s)) + 1
  BY <1>1, ReadsFinite, FS_AddElement
<1>4. Cardinality(Reads(s)) \in Nat
  BY ReadsFinite
<1> QED
  BY <1>1, <1>2, <1>3, <1>4 DEF Due, Size

(* The positions of the reads behind the first request, moved up by one.   *)
LEMMA DueTail ==
  ASSUME NEW s \in Seq(Msg), s # <<>>
  PROVE  Due(s) = Size(Head(s)) + Due(Tail(s))
<1> DEFINE T == Reads(Tail(s))
           R == Reads(s) \ {1}
           f == [i \in T |-> i + 1]
<1>1. /\ Tail(s) \in Seq(Msg) /\ Len(Tail(s)) = Len(s) - 1 /\ Len(s) \in Nat \ {0}
      /\ \A i \in 1..Len(Tail(s)) : Tail(s)[i] = s[i + 1]
      /\ s[1] = Head(s)
  OBVIOUS
<1>2. IsFiniteSet(T) /\ IsFiniteSet(Reads(s))
  BY <1>1, ReadsFinite
<1>3. T \subseteq Nat /\ R \subseteq Nat
  BY DEF Reads
<1>4. \A i \in T : i + 1 \in R
  <2> SUFFICES ASSUME NEW i \in T PROVE i + 1 \in R
    OBVIOUS
  <2>1. i \in 1..Len(Tail(s)) /\ Tail(s)[i] = Read
    BY <1>1 DEF Reads
  <2>2. i + 1 \in 1..Len(s) /\ i + 1 # 1 /\ s[i + 1] = Read
    BY <1>1, <2>1
  <2> QED
    BY <2>2 DEF Reads
<1>5. \A j \in R : \E i \in T : j = i + 1
  <2> SUFFICES ASSUME NEW j \in R PROVE \E i \in T : j = i + 1
    OBVIOUS
  <2>1. j \in 1..Len(s) /\ s[j] = Read /\ j # 1
    BY DEF Reads
  <2>2. j - 1 \in 1..Len(Tail(s)) /\ (j - 1) + 1 = j
    BY <1>1, <2>1
  <2>3. Tail(s)[j - 1] = Read
    BY <1>1, <2>1, <2>2
  <2>4. j - 1 \in T
    BY <1>1, <2>2, <2>3 DEF Reads
  <2> QED
    BY <2>2, <2>4
<1> HIDE DEF T, R
<1>6. f \in Bijection(T, R)
  <2>1. f \in [T -> R]
    BY <1>4
  <2>2. \A a, b \in T : f[a] = f[b] => a = b
    BY <1>3
  <2>3. \A j \in R : \E i \in T : f[i] = j
    BY <1>5
  <2> QED
    BY <2>1, <2>2, <2>3 DEF Bijection, Injection, Surjection, IsInjective
<1>7. Cardinality(R) = Cardinality(T)
  BY <1>2, <1>6, FS_Bijection DEF ExistsBijection
<1>8. Cardinality(T) \in Nat /\ Cardinality(Reads(s)) \in Nat
  BY <1>2, FS_CardinalityType
<1>9. CASE s[1] = Read
  <2>1. 1 \in Reads(s)
    BY <1>1, <1>9 DEF Reads
  <2>2. Cardinality(R) = Cardinality(Reads(s)) - 1
    BY <1>2, <2>1, FS_RemoveElement DEF R
  <2> QED
    BY <1>1, <1>7, <1>8, <1>9, <2>2 DEF Due, Size, T
<1>10. CASE s[1] # Read
  <2>1. R = Reads(s)
    BY <1>10 DEF R, Reads
  <2> QED
    BY <1>1, <1>7, <1>8, <1>10, <2>1 DEF Due, Size, T
<1> QED
  BY <1>9, <1>10
-----------------------------------------------------------------------------
(* What the holder of the lock waits for.                                  *)
Awaited == IF lock = Nobody THEN 0 ELSE IF pc[lock] = "status" THEN 13 ELSE 6

LEMMA ExpectedIsAwaited ==
  ASSUME SortsOK, LockInv
  PROVE  Expected = Awaited
<1>0. Nobody \notin Greenlets
  BY DCTAssumption DEF Greenlets
<1>1. CASE lock = Nobody
  BY <1>0, <1>1 DEF LockInv, Exchanging, Expected, Awaited
<1>2. CASE lock # Nobody
  <2>1. lock \in Greenlets /\ Exchanging(lock)
    BY <1>2 DEF SortsOK, LockInv
  <2>2. \A g \in Greenlets : Exchanging(g) => g = lock
    BY DEF LockInv
  <2> QED
    BY <1>2, <2>1, <2>2 DEF Exchanging, Expected, Awaited
<1> QED
  BY <1>1, <1>2

Usable == sock = "open" /\ link = "up"

(* The bytes owed exceed what is awaited by the status that connect asked  *)
(* for.                                                                    *)
LagInv == Usable => Len(fromDevice) + Due(toDevice) >= 13 + Awaited

LEMMA KeepsLag ==
  ASSUME SortsOK, LagInv, Awaited' = Awaited,
         UNCHANGED <<toDevice, fromDevice>>, Usable' => Usable
  PROVE  LagInv'
  BY DEF LagInv

(* Whoever leaves awaits nothing.                                          *)
LEMMA LeaveLag ==
  ASSUME NEW g \in Greenlets, Leave(g), UNCHANGED <<sock, toDevice>>, link' = link,
         Usable => Len(fromDevice') + Due(toDevice) >= 13
  PROVE  LagInv'
<1>1. Awaited' = 0
  BY DEF Leave, Awaited
<1>2. Usable' <=> Usable
  BY DEF Usable
<1> QED
  BY <1>1, <1>2 DEF LagInv

LEMMA ExchangeLag ==
  ASSUME SortsOK, NEW g \in Greenlets, NEW m \in Msg,
         NEW p \in {"status", "reset", "order"}, p = "status" <=> m = Read,
         Exchange(g, m, p), sock' = sock, fromDevice' \in Seq(State),
         Usable => Len(fromDevice') + Due(toDevice) >= 13
  PROVE  LagInv'
<1>1. CASE ~CanSend
  <2>1. Leave(g) /\ UNCHANGED <<toDevice, link>>
    BY <1>1 DEF Exchange, Fail
  <2> QED
    BY <2>1, LeaveLag
<1>2. CASE CanSend /\ ~Usable
  <2>1. ~Usable'
    BY <1>2 DEF Exchange, Send, CanSend, Usable
  <2> QED
    BY <2>1 DEF LagInv
<1>3. CASE CanSend /\ Usable
  <2>1. /\ toDevice' = Append(toDevice, m) /\ lock' = g
        /\ pc' = [pc EXCEPT ![g] = p]
    BY <1>3 DEF Exchange, Send, Usable
  <2>2. g # Nobody /\ pc \in [Greenlets -> Places] /\ toDevice \in Seq(Msg)
    BY DCTAssumption DEF Greenlets, SortsOK
  <2>3. Awaited' = Size(m)
    BY <2>1, <2>2 DEF Awaited, Size
  <2>4. Due(toDevice') = Due(toDevice) + Size(m)
    BY <2>1, <2>2, DueAppend
  <2>5. Size(m) \in Nat /\ Due(toDevice) \in Nat /\ Len(fromDevice') \in Nat
    BY <2>2, DueNat DEF Size
  <2>6. Len(fromDevice') + Due(toDevice') >= 13 + Awaited'
    <3>1. Len(fromDevice') + Due(toDevice) >= 13
      BY <1>3
    <3> QED
      BY <2>3, <2>4, <2>5, <3>1
  <2> QED
    BY <2>6 DEF LagInv
<1> QED
  BY <1>1, <1>2, <1>3

(* recv takes at most what it waits for.                                   *)
LEMMA RecvLag ==
  ASSUME SortsOK, LagInv, LockInv, NEW g \in Greenlets, pc[g] \in {"status", "reset", "order"},
         NEW n \in {6, 13}, n = 13 <=> pc[g] = "status", NEW k \in 0..n, Recv(n, k)
  PROVE  /\ fromDevice' \in Seq(State)
         /\ Usable => Len(fromDevice') + Due(toDevice) >= 13
<1>1. lock = g /\ g # Nobody
  BY DCTAssumption DEF LockInv, Exchanging, Greenlets
<1>2. Awaited = n
  BY <1>1 DEF Awaited
<1>3. Len(fromDevice) \in Nat /\ Due(toDevice) \in Nat
  BY DueNat DEF SortsOK
<1>4. fromDevice' \in Seq(State) /\ k \in 0..Len(fromDevice)
  BY ReceivedSorts
<1>5. Len(fromDevice') = Len(fromDevice) - k
  <2>1. fromDevice \in Seq(State) /\ fromDevice' = SubSeq(fromDevice, k + 1, Len(fromDevice))
    BY DEF SortsOK, Recv
  <2> QED
    BY <1>3, <1>4, <2>1
<1>6. ASSUME Usable PROVE Len(fromDevice') + Due(toDevice) >= 13
  <2>1. Len(fromDevice) + Due(toDevice) >= 13 + n
    BY <1>2, <1>6 DEF LagInv
  <2> QED
    BY <1>3, <1>5, <2>1
<1> QED
  BY <1>4, <1>6

LEMMA ReadStatusLag ==
  ASSUME SortsOK, LockInv, LagInv, NEW g \in Greenlets, ~Exchanging(g), ReadStatus(g),
         UNCHANGED <<sock, fromDevice>>
  PROVE  LagInv'
<1>0. /\ lock # g /\ pc \in [Greenlets -> Places] /\ g # Nobody
      /\ fromDevice \in Seq(State) /\ Awaited \in {0, 6, 13}
      /\ Len(fromDevice) \in Nat /\ Due(toDevice) \in Nat
  BY DCTAssumption, DueNat DEF LockInv, SortsOK, Greenlets, Awaited
<1>1. CASE lock # Nobody
  <2>1. /\ pc' = [pc EXCEPT ![g] = "lock"] /\ lock' = lock
        /\ UNCHANGED <<link, toDevice>>
    BY <1>1 DEF ReadStatus
  <2>2. lock \in Greenlets /\ Awaited' = Awaited
    BY <1>0, <1>1, <2>1 DEF Awaited, SortsOK
  <2> QED
    BY <2>1, <2>2, KeepsLag DEF Usable
<1>2. CASE lock = Nobody /\ sock = "none"
  <2>1. Leave(g) /\ UNCHANGED <<link, toDevice>>
    BY <1>2 DEF ReadStatus
  <2> QED
    BY <1>2, <2>1, LeaveLag DEF Usable
<1>3. CASE lock = Nobody /\ sock # "none"
  <2>1. Exchange(g, Read, "status")
    BY <1>3 DEF ReadStatus
  <2>2. Read \in Msg
    BY DEF Msg
  <2>3. Usable => Len(fromDevice') + Due(toDevice) >= 13
    BY <1>0 DEF LagInv
  <2> QED
    BY <1>0, <2>1, <2>2, <2>3, ExchangeLag
<1> QED
  BY <1>1, <1>2, <1>3

(* The poller moves between places where it awaits nothing.                *)
LEMMA PollerLag ==
  ASSUME SortsOK, LockInv, LagInv, NEW p \in Places \ {"status", "reset", "order"},
         ~Exchanging(Poller), pc' = [pc EXCEPT ![Poller] = p], lock' = lock,
         UNCHANGED <<toDevice, fromDevice>>, Usable' => Usable
  PROVE  LagInv'
<1>1. pc \in [Greenlets -> Places] /\ Poller \in Greenlets /\ lock # Poller
  BY DEF SortsOK, Greenlets, LockInv
<1>2. Awaited' = Awaited
  BY <1>1 DEF Awaited, SortsOK
<1> QED
  BY <1>2, KeepsLag

LEMMA TwoReads == Due(<<Read, Read>>) = 26
<1>1. Read \in Msg /\ <<>> \in Seq(Msg) /\ Append(<<>>, Read) \in Seq(Msg)
  BY DEF Msg
<1>2. <<Read, Read>> = Append(Append(<<>>, Read), Read)
  OBVIOUS
<1>3. Due(Append(<<>>, Read)) = 13
  <2>1. Due(Append(<<>>, Read)) = Due(<<>>) + Size(Read)
    BY <1>1, DueAppend, Zenon
  <2> QED
    BY <2>1, DueEmpty DEF Size
<1>4. Due(Append(Append(<<>>, Read), Read)) = Due(Append(<<>>, Read)) + Size(Read)
  BY <1>1, DueAppend, Zenon
<1>5. Due(Append(Append(<<>>, Read), Read)) = 26
  BY <1>3, <1>4 DEF Size
<1> QED
  BY <1>2, <1>5, Zenon

LEMMA LoopLag ==
  ASSUME SortsOK, LockInv, LagInv, Loop
  PROVE  LagInv'
<1> USE DEF PollerOnly, conn, Usable
<1>0. /\ pc \in [Greenlets -> Places] /\ Poller \in Greenlets
      /\ Nobody \notin Greenlets /\ lock \in Greenlets \cup {Nobody}
  BY DCTAssumption DEF SortsOK, Greenlets
<1>1. CASE Quit
  BY <1>1, PollerLag DEF Quit, Exchanging, Places
<1>2. CASE DropSocket
  BY <1>2, PollerLag DEF DropSocket, Exchanging, Places
<1>3. CASE Dial
  <2>1. link' = "refused"
    BY <1>3 DEF Dial
  <2> QED
    BY <2>1 DEF LagInv
<1>4. CASE Dialed
  <2>1. /\ fromDevice = <<>> /\ toDevice = (IF lock = Nobody THEN <<>> ELSE <<Read>>)
        /\ pc[Poller] = "dialing" /\ \A g \in Greenlets : pc[g] \notin {"reset", "order"}
    BY <1>4 DEF Dialed, LockInv
  <2>2. toDevice' = <<Read, Read>> /\ fromDevice' = <<>>
    BY <1>4, <2>1 DEF Dialed
  <2>3. Awaited' = 13
    <3>1. CASE lock = Nobody
      <4>1. lock' = Poller /\ pc' = [pc EXCEPT ![Poller] = "status"]
        BY <1>4, <3>1 DEF Dialed
      <4> QED
        BY <1>0, <4>1 DEF Awaited
    <3>2. CASE lock # Nobody
      <4>1. lock' = lock /\ pc' = [pc EXCEPT ![Poller] = "lock"] /\ lock \in Greenlets
        BY <1>0, <1>4, <3>2 DEF Dialed
      <4>2. pc[lock] = "status" /\ lock # Poller
        BY <2>1, <4>1 DEF LockInv, Exchanging
      <4> QED
        BY <1>0, <3>2, <4>1, <4>2 DEF Awaited
    <3> QED
      BY <3>1, <3>2
  <2>4. Due(toDevice') = 26 /\ Len(fromDevice') = 0
    BY <2>2, TwoReads
  <2> QED
    BY <2>3, <2>4 DEF LagInv
<1>5. CASE DialFails
  BY <1>5, PollerLag DEF DialFails, Exchanging, Places
<1>6. CASE Poll
  BY <1>0, <1>6, ReadStatusLag DEF Poll, Exchanging
<1>7. CASE WakeUp
  BY <1>7, PollerLag DEF WakeUp, Exchanging, Places
<1>8. CASE Establish
  <2>1. sock' = "made"
    BY <1>8 DEF Establish
  <2> QED
    BY <2>1 DEF LagInv
<1> QED
  BY <1>1, <1>2, <1>3, <1>4, <1>5, <1>6, <1>7, <1>8 DEF Loop

LEMMA GreenletLag ==
  ASSUME SortsOK, LockInv, WireInv, LagInv, NEW g \in Greenlets, Acquire(g) \/ Proceed(g)
  PROVE  LagInv'
<1> USE DEF conn, device
<1>1. CASE Acquire(g)
  BY <1>1, ReadStatusLag DEF Acquire, Exchanging
<1>2. CASE Proceed(g)
  <2>2. CASE RecvFails(g)
    <3>1. Leave(g) /\ UNCHANGED <<sock, link, toDevice, fromDevice>>
      BY <2>2 DEF RecvFails, Fail
    <3>2. /\ Awaited \in {0, 6, 13}
          /\ Len(fromDevice) \in Nat /\ Due(toDevice) \in Nat
      BY DueNat DEF Awaited, SortsOK
    <3>3. Usable => Len(fromDevice') + Due(toDevice) >= 13
      BY <3>1, <3>2 DEF LagInv
    <3> QED
      BY <3>1, <3>3, LeaveLag
  <2>3. CASE StatusRead(g)
    <3>1. /\ fromDevice' \in Seq(State)
          /\ Usable => Len(fromDevice') + Due(toDevice) >= 13
      <4>1. PICK k \in 0..13 : Recv(13, k)
        BY <2>3 DEF StatusRead
      <4> QED
        BY <2>3, <4>1, RecvLag DEF StatusRead
    <3>2. CASE g # Poller /\ MayOrder(g, state')
      <4> DEFINE m == [op |-> "reset", route |-> RouteOf(g)]
      <4>1. Exchange(g, m, "reset") /\ UNCHANGED sock
        BY <2>3, <3>2 DEF StatusRead
      <4>2. m \in Msg
        BY <3>2, MsgSorts DEF MayOrder
      <4>3. m # Read
        BY DEF Read
      <4> HIDE DEF m
      <4> QED
        BY <3>1, <4>1, <4>2, <4>3, ExchangeLag
    <3>3. CASE ~(g # Poller /\ MayOrder(g, state'))
      <4>1. Leave(g) /\ UNCHANGED <<sock, link, toDevice>>
        BY <2>3, <3>3 DEF StatusRead
      <4> QED
        BY <3>1, <4>1, LeaveLag
    <3> QED
      BY <3>2, <3>3
  <2>4. CASE ResetRead(g)
    <3> DEFINE m == [op |-> call[g].op, route |-> RouteOf(g)]
    <3>1. /\ fromDevice' \in Seq(State)
          /\ Usable => Len(fromDevice') + Due(toDevice) >= 13
      <4>1. PICK k \in 0..6 : Recv(6, k)
        BY <2>4 DEF ResetRead
      <4> QED
        BY <2>4, <4>1, RecvLag DEF ResetRead
    <3>2. Exchange(g, m, "order") /\ UNCHANGED sock /\ pc[g] = "reset"
      BY <2>4 DEF ResetRead
    <3>3. g \in Callers
      BY <3>2 DEF LockInv, Greenlets
    <3>4. RouteOf(g) \in Routes
      BY <3>2, <3>3 DEF WireInv, ResetSent
    <3>5. m \in Msg /\ m.op \in {"start", "pause"}
      BY <3>3, <3>4, RouteSorts, MsgSorts
    <3> HIDE DEF m
    <3>6. m # Read
      BY <3>5 DEF Read
    <3> QED
      BY <3>1, <3>2, <3>5, <3>6, ExchangeLag
  <2>5. CASE OrderRead(g)
    <3>1. Usable => Len(fromDevice') + Due(toDevice) >= 13
      <4>1. PICK k \in 0..6 : Recv(6, k)
        BY <2>5 DEF OrderRead
      <4> QED
        BY <2>5, <4>1, RecvLag DEF OrderRead
    <3>2. Leave(g) /\ UNCHANGED <<sock, link, toDevice>>
      BY <2>5 DEF OrderRead
    <3> QED
      BY <3>1, <3>2, LeaveLag
  <2> QED
    BY <1>2, <2>2, <2>3, <2>4, <2>5 DEF Proceed
<1> QED
  BY <1>1, <1>2

(* What the device takes from the requests it adds to what arrived.        *)
LEMMA AnswerLag ==
  ASSUME SortsOK, LagInv, Answer
  PROVE  LagInv'
<1> DEFINE m == Head(toDevice)
<1>1. /\ toDevice \in Seq(Msg) /\ toDevice # <<>> /\ toDevice' = Tail(toDevice)
      /\ fromDevice \in Seq(State) /\ fromDevice' = fromDevice \o Reply(m)
      /\ Usable /\ UNCHANGED <<pc, lock>>
  BY DEF Answer, SortsOK, Usable
<1>2. m \in Msg /\ Tail(toDevice) \in Seq(Msg)
  BY <1>1
<1> HIDE DEF m
<1>3. Reply(m) \in Seq(State) /\ Len(Reply(m)) = Size(m)
  <2>1. Reply(m) \in Seq(State)
    BY ReplySorts DEF SortsOK
  <2>2. Len(Reply(m)) = Size(m)
    <3>1. \A v \in State : Len(StatusReply(v)) = 13
      <4> SUFFICES ASSUME NEW v \in State PROVE Len(StatusReply(v)) = 13
        OBVIOUS
      <4>1. /\ <<"stopped", "stopped", "halt", "stopped", v>> \in Seq(State)
            /\ Len(<<"stopped", "stopped", "halt", "stopped", v>>) = 5
        BY DEF State
      <4>2. [i \in 1..8 |-> "waiting"] \in Seq(State) /\ Len([i \in 1..8 |-> "waiting"]) = 8
        BY DEF State
      <4> QED
        BY <4>1, <4>2 DEF StatusReply
    <3>2. Len(WriteReply) = 6
      BY DEF WriteReply
    <3> QED
      BY <3>1, <3>2 DEF Reply, Size, SortsOK
  <2> QED
    BY <2>1, <2>2
<1>4. Len(fromDevice') = Len(fromDevice) + Size(m)
  <2>1. fromDevice \in Seq(State) /\ fromDevice' = fromDevice \o Reply(m)
    BY <1>1
  <2> QED
    BY <1>3, <2>1, ConcatProperties
<1>5. Due(toDevice) = Size(m) + Due(toDevice')
  BY <1>1, DueTail DEF m
<1>6. /\ Awaited' = Awaited /\ Awaited \in {0, 6, 13} /\ Size(m) \in {6, 13}
      /\ Due(toDevice') \in Nat /\ Len(fromDevice) \in Nat
  <2>1. Awaited' = Awaited /\ Awaited \in {0, 6, 13}
    BY <1>1 DEF Awaited
  <2>2. Size(m) \in {6, 13}
    BY DEF Size
  <2>3. Due(toDevice') \in Nat
    BY <1>1, <1>2, DueNat
  <2>4. Len(fromDevice) \in Nat
    BY <1>1
  <2> QED
    BY <2>1, <2>2, <2>3, <2>4
<1>7. Len(fromDevice') + Due(toDevice') >= 13 + Awaited'
  <2>1. Len(fromDevice) + Due(toDevice) >= 13 + Awaited
    BY <1>1 DEF LagInv
  <2> QED
    BY <1>4, <1>5, <1>6, <2>1
<1> QED
  BY <1>7 DEF LagInv

LEMMA LagStep ==
  ASSUME SortsOK, LockInv, WireInv, LagInv, [Next]_vars
  PROVE  LagInv'
<1> USE DEF conn, device, bounds
<1>1. CASE Loop
  BY <1>1, LoopLag
<1>2. CASE \E g \in Greenlets : Acquire(g) \/ Proceed(g)
  BY <1>2, GreenletLag
<1>3. CASE \E g \in Callers, c \in Call : Begin(g, c)
  <2>1. PICK g \in Callers, c \in Call : Begin(g, c)
    BY <1>3
  <2>2. /\ g \in Greenlets /\ ~Exchanging(g) /\ ReadStatus(g)
        /\ UNCHANGED <<sock, fromDevice>>
    BY <2>1 DEF Begin, Exchanging, Greenlets
  <2> QED
    BY <2>2, ReadStatusLag
<1>4. CASE Stop \/ Move \/ UNCHANGED vars
  <2>1. /\ UNCHANGED <<link, toDevice, fromDevice, lock, pc>>
        /\ sock' = sock \/ sock' \in {"none", "closed"}
    BY <1>4 DEF Stop, Move, vars
  <2> QED
    BY <2>1, KeepsLag DEF Usable, Awaited
<1>5. CASE Answer
  BY <1>5, AnswerLag
<1>6. CASE Drop
  <2>1. ~Usable'
    BY <1>6 DEF Drop, Usable
  <2> QED
    BY <2>1 DEF LagInv
<1> QED
  BY <1>1, <1>2, <1>3, <1>4, <1>5, <1>6 DEF Next

LEMMA LagInductive == Spec => [](IInv /\ LagInv)
<1>1. Init => LagInv
  BY DEF Init, LagInv, Usable
<1>2. IInv /\ LagInv /\ [Next]_vars => LagInv'
  BY LagStep DEF IInv
<1> QED
  BY <1>1, <1>2, Inductive, PTL DEF Spec

(* The status that connect asks for is received by nobody, so that         *)
(* get_rgv_state and execute_msg are handed bytes of older answers,        *)
(* however often the connection is replaced and wherever TCP cuts.         *)
THEOREM AnswersAreOld == Spec => []AnswersLagBehind
<1>1. IInv /\ LagInv => AnswersLagBehind
  BY ExpectedIsAwaited DEF IInv, LagInv, Usable, AnswersLagBehind, Unread
<1> QED
  BY <1>1, LagInductive, PTL
=============================================================================
