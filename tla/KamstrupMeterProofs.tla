------------------------ MODULE KamstrupMeterProofs ------------------------
(***************************************************************************)
(* The meter server, for any number of connections, whatever the clients   *)
(* send, however the network cuts it and however often a restart is asked  *)
(* for: when it hangs up, and, for streams that fit, that every request is *)
(* handled and answered as it was sent.                                    *)
(*                                                                         *)
(* The second needs what a client's bytes are (ContentIs, FrameIs,         *)
(* StreamIs), what get_request makes of them from wherever it stands       *)
(* (KeepBody, ScanFrame, FrameRead, Reads), and the invariant MeterInv: a  *)
(* connection's parser has the bytes received since the last request it    *)
(* returned, and recv has the rest.  Nothing is assumed of the checksum.   *)
(***************************************************************************)
EXTENDS KamstrupMeter, SequenceTheorems, FiniteSetTheorems, WellFoundedInduction, TLAPS

(***************************************************************************)
(* Hanging up.                                                             *)
(***************************************************************************)
Phases == {"new", "recv", "answering", "closed", "raised"}

(* The databus calls reboot once, so at most one call of set_reboot_done   *)
(* is to come, and the server is inactive only while one is.               *)
RebootInv ==
    /\ pc \in [Conns -> Phases]
    /\ active \in BOOLEAN
    /\ reboots \in {0, 1}
    /\ ~notified => reboots = 0
    /\ ~active => reboots = 1

(* Whatever was received, the loop over it ends where it answers, waits    *)
(* for more or has raised, and it closes the connection only where it      *)
(* would wait and the server is inactive.                                  *)
LEMMA ParseEnds ==
  ASSUME RebootInv, NEW c \in Conns, NEW p, Parse(c, p)
  PROVE  /\ pc' \in [Conns -> Phases]
         /\ \A d \in Conns : pc'[d] = "closed" /\ pc[d] # "closed" => reboots = 1
<1> DEFINE ended == Scan(p).ended
           raises == Raises(Scan(p))
           later == IF ended THEN "raised" ELSE Waiting(active)
<1>1. \/ pc' = [pc EXCEPT ![c] = "answering"]
      \/ pc' = [pc EXCEPT ![c] = later]
  <2>1. CASE ended /\ ~raises
    BY <2>1 DEF Parse
  <2>2. CASE ~(ended /\ ~raises)
    BY <2>2 DEF Parse
  <2> QED
    BY <2>1, <2>2
<1>2. later \in Phases /\ (later = "closed" => reboots = 1)
  BY DEF Waiting, Phases, RebootInv
<1> HIDE DEF later
<1> QED
  BY <1>1, <1>2 DEF RebootInv, Phases

LEMMA RespondEnds ==
  ASSUME RebootInv, NEW c \in Conns, Respond(c)
  PROVE  /\ pc' \in [Conns -> Phases]
         /\ \A d \in Conns : pc'[d] = "closed" /\ pc[d] # "closed" => reboots = 1
         /\ UNCHANGED <<active, reboot>>
<1>1. UNCHANGED <<active, reboot>>
  BY DEF Respond
<1>2. CASE Last(handled[c]).addr = Address
  <2>1. Parse(c, parser[c])
    BY <1>2 DEF Respond
  <2> QED
    BY <1>1, <2>1, ParseEnds
<1>3. CASE Last(handled[c]).addr # Address
  <2>1. pc' = [pc EXCEPT ![c] = Waiting(active)]
    BY <1>3 DEF Respond
  <2> QED
    BY <1>1, <2>1 DEF Waiting, RebootInv, Phases
<1> QED
  BY <1>2, <1>3

LEMMA ReceiveEnds ==
  ASSUME RebootInv, NEW c \in Conns, NEW n \in DOMAIN coming[c], Receive(c, n)
  PROVE  /\ pc' \in [Conns -> Phases]
         /\ \A d \in Conns : pc'[d] = "closed" /\ pc[d] # "closed" => reboots = 1
         /\ UNCHANGED <<active, reboot>>
<1>1. PICK p : Parse(c, p)
  BY DEF Receive
<1> QED
  BY <1>1, ParseEnds DEF Receive

LEMMA RebootInit == Init => RebootInv
  BY DEF Init, RebootInv, Phases

LEMMA RebootStep ==
  ASSUME RebootInv, [Next]_vars
  PROVE  RebootInv'
<1>1. CASE UNCHANGED vars
  BY <1>1 DEF vars, conn, reboot, RebootInv
<1>2. ASSUME NEW c \in Conns, NEW s \in Streams, Connect(c, s)
      PROVE  RebootInv'
  BY <1>2 DEF Connect, reboot, RebootInv, Phases
<1>3. ASSUME NEW c \in Conns, NEW n \in DOMAIN coming[c], Receive(c, n)
      PROVE  RebootInv'
  BY <1>3, ReceiveEnds DEF reboot, RebootInv
<1>4. ASSUME NEW c \in Conns, Respond(c)
      PROVE  RebootInv'
  BY <1>4, RespondEnds DEF reboot, RebootInv
<1>5. ASSUME NEW c \in Conns, Disconnect(c)
      PROVE  RebootInv'
  BY <1>5 DEF Disconnect, reboot, RebootInv, Phases
<1>6. CASE RequestRestart
  BY <1>6 DEF RequestRestart, conn, RebootInv
<1>7. CASE Reboot
  <2>1. notified' /\ ~active' /\ active' \in BOOLEAN /\ UNCHANGED pc
    BY <1>7 DEF Reboot, conn
  <2>2. reboots' = 1
    BY <1>7 DEF Reboot, RebootInv
  <2> QED
    BY <2>1, <2>2 DEF RebootInv
<1>8. CASE SetRebootDone
  BY <1>8 DEF SetRebootDone, conn, RebootInv
<1> QED
  BY <1>1, <1>2, <1>3, <1>4, <1>5, <1>6, <1>7, <1>8 DEF Next

(* No other step closes a connection.                                      *)
LEMMA HangUpStep ==
  ASSUME RebootInv, [Next]_vars, NEW d \in Conns, HangsUp(d)
  PROVE  reboots > 0
<1>0. pc'[d] = "closed" /\ pc[d] # "closed" /\ ~Disconnect(d)
  BY DEF HangsUp
<1>1. CASE UNCHANGED vars
  BY <1>0, <1>1 DEF vars, conn
<1>2. ASSUME NEW c \in Conns, NEW s \in Streams, Connect(c, s)
      PROVE  reboots > 0
  BY <1>0, <1>2 DEF Connect, RebootInv, Phases
<1>3. ASSUME NEW c \in Conns, NEW n \in DOMAIN coming[c], Receive(c, n)
      PROVE  reboots > 0
  BY <1>0, <1>3, ReceiveEnds
<1>4. ASSUME NEW c \in Conns, Respond(c)
      PROVE  reboots > 0
  BY <1>0, <1>4, RespondEnds
<1>5. ASSUME NEW c \in Conns, Disconnect(c)
      PROVE  reboots > 0
  <2>1. c # d
    BY <1>0, <1>5
  <2>2. pc' = [pc EXCEPT ![c] = "closed"]
    BY <1>5 DEF Disconnect
  <2> QED
    BY <1>0, <2>1, <2>2 DEF RebootInv
<1>6. CASE RequestRestart \/ Reboot \/ SetRebootDone
  BY <1>0, <1>6 DEF RequestRestart, Reboot, SetRebootDone, conn
<1> QED
  BY <1>1, <1>2, <1>3, <1>4, <1>5, <1>6 DEF Next

(* The server hangs up on a client only while a restart is being           *)
(* pretended, whoever connects, is answered or asks for another restart    *)
(* meanwhile: server_active is False only while set_reboot_done is still   *)
(* to come (kamstrup_server.py reboot, handle and set_reboot_done).        *)
THEOREM HangsUpWhileRebooting == Spec => HangsUpRebootingOnly
<1>1. RebootInv /\ [Next]_vars => [\A c \in Conns : HangsUp(c) => reboots > 0]_vars
  BY HangUpStep
<1>2. RebootInv /\ [Next]_vars => RebootInv'
  BY RebootStep
<1> QED
  BY <1>1, <1>2, RebootInit, PTL DEF Spec, HangsUpRebootingOnly

----------------------------------------------------------------------------
LEMMA Smallest ==
  ASSUME NEW set \in SUBSET Nat, set # {}
  PROVE  \E n \in set : \A m \in set : n <= m
<1> DEFINE less == OpToRel(<, Nat)
<1>1. \A m, n \in Nat : <<m, n>> \in less <=> m < n
  BY DEF OpToRel
<1>2. IsWellFoundedOn(less, Nat)
  BY NatLessThanWellFounded
<1> HIDE DEF less
<1>3. PICK n \in set : \A m \in set : <<m, n>> \notin less
  BY <1>2, WFMin
<1>4. ASSUME NEW m \in set PROVE n <= m
  <2>1. m \in Nat /\ n \in Nat /\ ~(m < n)
    BY <1>1, <1>3
  <2> QED
    BY <2>1
<1> QED
  BY <1>4

----------------------------------------------------------------------------
(***************************************************************************)
(* Sequences joined one after the other, as FlattenSeq does.               *)
(***************************************************************************)
\* Opaque to the provers, which would look into the sequences.
Glued(s, t) == s \o t

First(q, n) == FlattenSeq([i \in 1..n |-> q[i]])

IsJoin(f, q, n) == f = [i \in 1..n |-> IF i = 1 THEN q[i] ELSE Glued(f[i - 1], q[i])]

LEMMA JoinLonger ==
  ASSUME NEW q, NEW n \in Nat \ {0}, NEW f, IsJoin(f, q, n)
  PROVE  \E g : IsJoin(g, q, n + 1)
<1> DEFINE g == [i \in 1..(n + 1) |-> IF i <= n THEN f[i] ELSE Glued(f[n], q[n + 1])]
<1>1. ASSUME NEW i \in 1..(n + 1)
      PROVE  g[i] = IF i = 1 THEN q[i] ELSE Glued(g[i - 1], q[i])
  <2>1. CASE i <= n
    <3>1. i \in 1..n /\ g[i] = f[i] /\ (i # 1 => i - 1 \in 1..n /\ g[i - 1] = f[i - 1])
      BY <2>1
    <3> QED
      BY <3>1 DEF IsJoin
  <2>2. CASE i = n + 1
    <3>1. i # 1 /\ i - 1 = n /\ ~(i <= n) /\ n \in 1..(n + 1)
      BY <2>2
    <3>2. g[i] = Glued(f[n], q[n + 1]) /\ g[n] = f[n]
      BY <2>2, <3>1
    <3> QED
      BY <2>2, <3>1, <3>2
  <2> QED
    BY <2>1, <2>2
<1> HIDE DEF g
<1>2. g = [i \in 1..(n + 1) |-> g[i]]
  BY DEF g
<1>3. [i \in 1..(n + 1) |-> g[i]]
        = [i \in 1..(n + 1) |-> IF i = 1 THEN q[i] ELSE Glued(g[i - 1], q[i])]
  BY <1>1
<1>4. IsJoin(g, q, n + 1)
  BY <1>2, <1>3 DEF IsJoin
<1> QED
  BY <1>4

LEMMA JoinExists ==
  ASSUME NEW q, NEW n \in Nat \ {0}
  PROVE  \E f : IsJoin(f, q, n)
<1> DEFINE bad == {k \in Nat \ {0} : ~\E f : IsJoin(f, q, k)}
<1>1. SUFFICES ASSUME bad # {} PROVE FALSE
  OBVIOUS
<1>2. PICK k \in bad : \A m \in bad : k <= m
  BY <1>1, Smallest
<1>3. k # 1
  <2> DEFINE f == [i \in 1..1 |-> q[1]]
  <2>1. \A i \in 1..1 : i = 1
    OBVIOUS
  <2>2. IsJoin(f, q, 1)
    BY <2>1 DEF IsJoin
  <2> QED
    BY <2>2
<1>4. k - 1 \in Nat \ {0} /\ k - 1 + 1 = k /\ ~(k <= k - 1)
  BY <1>3
<1>5. \E f : IsJoin(f, q, k - 1)
  BY <1>2, <1>4
<1>6. \E f : IsJoin(f, q, k - 1 + 1)
  BY <1>4, <1>5, JoinLonger
<1> QED
  BY <1>4, <1>6

LEMMA JoinsAgree ==
  ASSUME NEW q, NEW f, NEW g, NEW n \in Nat \ {0}, NEW m \in Nat, n <= m,
         IsJoin(f, q, n), IsJoin(g, q, m), NEW k \in 1..n
  PROVE  f[k] = g[k]
<1> DEFINE bad == {i \in Nat : i \in 1..n /\ f[i] # g[i]}
<1>1. SUFFICES ASSUME bad # {} PROVE FALSE
  OBVIOUS
<1>2. PICK i \in bad : \A j \in bad : i <= j
  BY <1>1, Smallest
<1>3. i \in 1..n /\ i \in 1..m /\ f[i] # g[i]
  BY <1>2
<1>4. /\ f[i] = IF i = 1 THEN q[i] ELSE Glued(f[i - 1], q[i])
      /\ g[i] = IF i = 1 THEN q[i] ELSE Glued(g[i - 1], q[i])
  BY <1>3 DEF IsJoin
<1>5. i # 1 => i - 1 \in 1..n /\ i - 1 \in Nat /\ ~(i <= i - 1)
  BY <1>3
<1> QED
  BY <1>2, <1>3, <1>4, <1>5

LEMMA FirstIs ==
  ASSUME NEW q, NEW n \in Nat \ {0}, NEW f, IsJoin(f, q, n)
  PROVE  First(q, n) = f[n]
<1> DEFINE p == [i \in 1..n |-> q[i]]
<1>1. Len(p) = n /\ \A i \in 1..n : p[i] = q[i]
  OBVIOUS
<1> HIDE DEF p
<1>2. First(q, n) = (CHOOSE g : g = [i \in 1..n |-> IF i = 1 THEN p[i] ELSE Glued(g[i - 1], p[i])])[n]
  BY <1>1, Zenon DEF First, FlattenSeq, Glued, p
<1>3. f = [i \in 1..n |-> IF i = 1 THEN p[i] ELSE Glued(f[i - 1], p[i])]
  BY <1>1 DEF IsJoin
<1>4. PICK g : /\ g = [i \in 1..n |-> IF i = 1 THEN p[i] ELSE Glued(g[i - 1], p[i])]
               /\ First(q, n) = g[n]
  BY <1>2, <1>3
<1>5. IsJoin(g, q, n)
  BY <1>1, <1>4 DEF IsJoin
<1> QED
  BY <1>4, <1>5, JoinsAgree

LEMMA FirstNext ==
  ASSUME NEW q, NEW n \in Nat \ {0}
  PROVE  First(q, n + 1) = Glued(First(q, n), q[n + 1])
<1>1. PICK f : IsJoin(f, q, n)
  BY JoinExists
<1>2. PICK g : IsJoin(g, q, n + 1)
  BY JoinExists
<1>3. First(q, n) = f[n] /\ First(q, n + 1) = g[n + 1]
  BY <1>1, <1>2, FirstIs
<1>4. f[n] = g[n]
  BY <1>1, <1>2, JoinsAgree
<1>5. n + 1 \in 1..(n + 1) /\ n + 1 # 1 /\ n + 1 - 1 = n
  OBVIOUS
<1>6. g[n + 1] = Glued(g[n], q[n + 1])
  BY <1>2, <1>5 DEF IsJoin
<1> QED
  BY <1>3, <1>4, <1>6

LEMMA FirstNone == ASSUME NEW q PROVE First(q, 0) = <<>>
  BY DEF First, FlattenSeq

LEMMA FirstOne == ASSUME NEW q PROVE First(q, 1) = q[1]
<1>1. PICK f : IsJoin(f, q, 1)
  BY JoinExists
<1>2. f[1] = q[1]
  BY <1>1 DEF IsJoin
<1> QED
  BY <1>1, <1>2, FirstIs

\* s is how f begins, and t what follows in it.
Begins(s, f) ==
    /\ Len(s) \in Nat /\ Len(f) \in Nat /\ Len(s) <= Len(f)
    /\ \A p \in 1..Len(s) : f[p] = s[p]

Follows(t, s, f) ==
    /\ Len(s) \in Nat /\ Len(t) \in Nat /\ Len(f) = Len(s) + Len(t)
    /\ \A p \in 1..Len(t) : f[Len(s) + p] = t[p]

LEMMA Join ==
  ASSUME NEW T, NEW s \in Seq(T), NEW t \in Seq(T)
  PROVE  /\ Glued(s, t) \in Seq(T)
         /\ Begins(s, Glued(s, t)) /\ Follows(t, s, Glued(s, t))
<1> DEFINE f == Glued(s, t)
<1>1. Len(s) \in Nat /\ Len(t) \in Nat
  BY LenProperties
<1>2. /\ f \in Seq(T) /\ Len(f) = Len(s) + Len(t)
      /\ \A i \in 1..(Len(s) + Len(t)) :
           f[i] = IF i <= Len(s) THEN s[i] ELSE t[i - Len(s)]
  BY ConcatProperties DEF Glued
<1> HIDE DEF f
<1>3. \A p \in 1..Len(s) : f[p] = s[p]
  BY <1>1, <1>2
<1>4. ASSUME NEW p \in 1..Len(t) PROVE f[Len(s) + p] = t[p]
  <2>1. Len(s) + p \in 1..(Len(s) + Len(t)) /\ ~(Len(s) + p <= Len(s)) /\ Len(s) + p - Len(s) = p
    BY <1>1
  <2> QED
    BY <1>2, <2>1
<1>5. f \in Seq(T) /\ Begins(s, f) /\ Follows(t, s, f)
  BY <1>1, <1>2, <1>3, <1>4 DEF Begins, Follows
<1> QED
  BY <1>5 DEF f

AreSeqs(q, n, T) == \A i \in 1..n : q[i] \in Seq(T)

LEMMA FirstMore ==
  ASSUME NEW T, NEW n \in Nat, NEW q, AreSeqs(q, n, T), NEW k \in 0..(n - 1)
  PROVE  First(q, k + 1) = Glued(First(q, k), q[k + 1])
<1>1. CASE k = 0
  <2>1. q[1] \in Seq(T)
    BY DEF AreSeqs
  <2>2. Glued(<<>>, q[1]) = q[1]
    BY <2>1, ConcatEmptySeq DEF Glued
  <2>3. First(q, 0 + 1) = q[1] /\ First(q, 0) = <<>> /\ 0 + 1 = 1
    BY FirstNone, FirstOne
  <2> QED
    BY <1>1, <2>2, <2>3
<1>2. CASE k # 0
  BY <1>2, FirstNext
<1> QED
  BY <1>1, <1>2

LEMMA FirstTyped ==
  ASSUME NEW T, NEW n \in Nat, NEW q, AreSeqs(q, n, T), NEW k \in 0..n
  PROVE  First(q, k) \in Seq(T)
<1> DEFINE bad == {i \in Nat : i \in 0..n /\ First(q, i) \notin Seq(T)}
<1>1. SUFFICES ASSUME bad # {} PROVE FALSE
  OBVIOUS
<1>2. PICK i \in bad : \A j \in bad : i <= j
  BY <1>1, Smallest
<1>3. i # 0
  BY <1>2, FirstNone, EmptySeq
<1>4. i - 1 \in 0..(n - 1) /\ i - 1 + 1 = i /\ i \in 1..n /\ ~(i <= i - 1)
  BY <1>2, <1>3
<1>5. First(q, i - 1) \in Seq(T)
  BY <1>2, <1>4
<1>6. First(q, i) = Glued(First(q, i - 1), q[i])
  BY <1>4, FirstMore
<1>7. First(q, i) \in Seq(T)
  BY <1>4, <1>5, <1>6, Join DEF AreSeqs
<1> QED
  BY <1>2, <1>7

(* What is joined first is where it was when more is joined to it.         *)
LEMMA FirstStays ==
  ASSUME NEW T, NEW n \in Nat, NEW q, AreSeqs(q, n, T), NEW k \in 0..n, NEW m \in k..n
  PROVE  Begins(First(q, k), First(q, m))
<1> DEFINE bad == {i \in Nat : i \in k..n /\ ~Begins(First(q, k), First(q, i))}
<1>1. SUFFICES ASSUME bad # {} PROVE FALSE
  OBVIOUS
<1>2. PICK i \in bad : \A j \in bad : i <= j
  BY <1>1, Smallest
<1>3. i # k
  <2>1. First(q, k) \in Seq(T)
    BY FirstTyped
  <2>2. Begins(First(q, k), First(q, k))
    BY <2>1, LenProperties DEF Begins
  <2> QED
    BY <1>2, <2>2
<1>4. i - 1 \in k..n /\ i - 1 \in 0..(n - 1) /\ i - 1 + 1 = i /\ i \in 1..n /\ ~(i <= i - 1)
  BY <1>2, <1>3
<1>5. Begins(First(q, k), First(q, i - 1))
  BY <1>2, <1>4
<1>6. Begins(First(q, i - 1), First(q, i))
  <2>1. First(q, i) = Glued(First(q, i - 1), q[i])
    BY <1>4, FirstMore
  <2>2. First(q, i - 1) \in Seq(T)
    <3>1. i - 1 \in 0..n
      BY <1>4
    <3> QED
      BY <3>1, FirstTyped
  <2>3. q[i] \in Seq(T)
    BY <1>4 DEF AreSeqs
  <2> QED
    BY <2>1, <2>2, <2>3, Join
<1>7. Begins(First(q, k), First(q, i))
  BY <1>5, <1>6 DEF Begins
<1> QED
  BY <1>2, <1>7

(* Where the k-th of them is.                                              *)
LEMMA FirstHas ==
  ASSUME NEW T, NEW n \in Nat, NEW q, AreSeqs(q, n, T), NEW k \in 1..n
  PROVE  /\ Follows(q[k], First(q, k - 1), First(q, k))
         /\ Begins(First(q, k), First(q, n))
<1>1. k - 1 \in 0..(n - 1) /\ k - 1 + 1 = k /\ k - 1 \in 0..n /\ k \in 0..n /\ n \in k..n
  OBVIOUS
<1>2. First(q, k) = Glued(First(q, k - 1), q[k])
  BY <1>1, FirstMore
<1>3. First(q, k - 1) \in Seq(T) /\ q[k] \in Seq(T)
  BY <1>1, FirstTyped DEF AreSeqs
<1> QED
  BY <1>1, <1>2, <1>3, Join, FirstStays

----------------------------------------------------------------------------
(***************************************************************************)
(* What a client sends: the content of a request byte by byte, its frame,  *)
(* and where in the stream the frames are.                                 *)
(***************************************************************************)
\* What of the checksum matters is that it is two bytes, whatever they are.
Octets == Int \cup {Crc(m)[i] : m \in Seq(Int), i \in {1, 2}}

LEMMA CrcIs ==
  ASSUME NEW m \in Seq(Int)
  PROVE  Crc(m) \in Seq(Octets) /\ Len(Crc(m)) = 2
<1>1. PICK x, y : Crc(m) = <<x, y>>
  BY DEF Crc
<1>2. x = Crc(m)[1] /\ y = Crc(m)[2]
  BY <1>1
<1>3. x \in Octets /\ y \in Octets
  BY <1>2 DEF Octets
<1> QED
  BY <1>1, <1>3

LEMMA SeqIs ==
  ASSUME NEW T, NEW s \in Seq(T)
  PROVE  Len(s) \in Nat /\ \A i \in 1..Len(s) : s[i] \in T
  BY LenProperties, ElementOfSeq

LEMMA WordsAreInts == Word \subseteq Int
BY DEF Word

LEMMA Halves ==
  ASSUME NEW v \in Int
  PROVE  256 * (v \div 256) + (v % 256) = v
OBVIOUS

Pairs(r) == [i \in 1..Len(r.regs) |-> <<r.regs[i] \div 256, r.regs[i] % 256>>]

LEMMA PairsAre ==
  ASSUME NEW r \in Request
  PROVE  /\ Len(r.regs) \in Nat /\ AreSeqs(Pairs(r), Len(r.regs), Int)
         /\ \A i \in 1..Len(r.regs) :
              /\ Pairs(r)[i] = <<r.regs[i] \div 256, r.regs[i] % 256>>
              /\ Len(Pairs(r)[i]) = 2
<1>1. r.regs \in Seq(Word)
  BY DEF Request
<1>2. Len(r.regs) \in Nat /\ \A i \in 1..Len(r.regs) : r.regs[i] \in Word
  BY <1>1, SeqIs
<1>3. ASSUME NEW i \in 1..Len(r.regs)
      PROVE  /\ Pairs(r)[i] = <<r.regs[i] \div 256, r.regs[i] % 256>>
             /\ Len(Pairs(r)[i]) = 2 /\ Pairs(r)[i] \in Seq(Int)
  <2>1. PICK v \in Word : v = r.regs[i]
    BY <1>2
  <2>2. PICK x, y : x = v \div 256 /\ y = v % 256
    OBVIOUS
  <2>3. Pairs(r)[i] = <<x, y>>
    BY <2>1, <2>2 DEF Pairs
  <2>4. x \in Int /\ y \in Int
    <3>1. v \in Int
      BY WordsAreInts, Zenon
    <3> QED
      BY <2>2, <3>1
  <2>5. <<x, y>> \in Seq(Int) /\ Len(<<x, y>>) = 2
    BY <2>4
  <2> QED
    BY <2>1, <2>2, <2>3, <2>5
<1> QED
  BY <1>2, <1>3 DEF AreSeqs

LEMMA PairsLong ==
  ASSUME NEW r \in Request, NEW k \in 0..Len(r.regs)
  PROVE  Len(First(Pairs(r), k)) = 2 * k
<1> DEFINE bad == {i \in Nat : i \in 0..Len(r.regs) /\ Len(First(Pairs(r), i)) # 2 * i}
<1>0. Len(r.regs) \in Nat
  BY PairsAre
<1>1. SUFFICES ASSUME bad # {} PROVE FALSE
  BY <1>0
<1>2. PICK i \in bad : \A j \in bad : i <= j
  BY <1>1, Smallest
<1>3. i # 0
  BY <1>2, FirstNone
<1>4. i - 1 \in 0..Len(r.regs) /\ i - 1 \in Nat /\ i \in 1..Len(r.regs) /\ ~(i <= i - 1)
  BY <1>0, <1>2, <1>3
<1>5. Len(First(Pairs(r), i - 1)) = 2 * (i - 1)
  BY <1>2, <1>4
<1>6. Follows(Pairs(r)[i], First(Pairs(r), i - 1), First(Pairs(r), i))
  <2>1. AreSeqs(Pairs(r), Len(r.regs), Int)
    BY PairsAre
  <2> QED
    BY <1>0, <1>4, <2>1, FirstHas, Zenon
<1>7. Len(Pairs(r)[i]) = 2
  BY <1>4, PairsAre
<1> QED
  BY <1>2, <1>4, <1>5, <1>6, <1>7 DEF Follows

LEMMA ContentIs ==
  ASSUME NEW r \in Request
  PROVE  /\ Content(r) \in Seq(Int) /\ Len(r.regs) \in Nat
         /\ Len(Content(r)) = 3 + 2 * Len(r.regs)
         /\ Content(r)[1] = r.addr /\ Content(r)[2] = GetRegisters
         /\ Content(r)[3] = Len(r.regs)
         /\ \A i \in 1..Len(r.regs) :
              /\ Content(r)[3 + (2 * i - 1)] = r.regs[i] \div 256
              /\ Content(r)[3 + 2 * i] = r.regs[i] % 256
<1> DEFINE k == Len(r.regs)
           head == <<r.addr, GetRegisters, k>>
           f == First(Pairs(r), k)
<1>1. k \in Nat /\ r.addr \in Int /\ GetRegisters \in Int
  <2>1. r.addr \in Byte
    BY DEF Request
  <2>2. r.addr \in Int /\ GetRegisters \in Int
    BY <2>1 DEF Byte, GetRegisters
  <2> QED
    BY <2>2, PairsAre
<1>2. head \in Seq(Int) /\ Len(head) = 3
  BY <1>1
<1>3. Content(r) = Glued(head, f)
  <2>1. DOMAIN r.regs = 1..k
    BY LenProperties DEF Request
  <2>2. [i \in DOMAIN r.regs |-> <<r.regs[i] \div 256, r.regs[i] % 256>>]
          = [i \in 1..k |-> Pairs(r)[i]]
    BY <2>1 DEF Pairs
  <2> QED
    BY <2>2, Zenon DEF Content, Glued, First
<1>4. f \in Seq(Int) /\ Len(f) = 2 * k
  <2>1. k \in 0..k
    BY <1>1
  <2> QED
    BY <1>1, <2>1, PairsAre, PairsLong, FirstTyped
<1>5. Content(r) \in Seq(Int) /\ Begins(head, Content(r)) /\ Follows(f, head, Content(r))
  BY <1>2, <1>3, <1>4, Join
<1>6. ASSUME NEW i \in 1..k
      PROVE  f[2 * i - 1] = r.regs[i] \div 256 /\ f[2 * i] = r.regs[i] % 256
  <2>1. Follows(Pairs(r)[i], First(Pairs(r), i - 1), First(Pairs(r), i))
        /\ Begins(First(Pairs(r), i), f)
    BY <1>1, PairsAre, FirstHas
  <2>2. /\ Len(First(Pairs(r), i - 1)) = 2 * (i - 1) /\ Len(First(Pairs(r), i)) = 2 * i
    BY <1>1, PairsLong
  <2>3. PICK g, h, p : g = First(Pairs(r), i - 1) /\ h = First(Pairs(r), i) /\ p = Pairs(r)[i]
    OBVIOUS
  <2>4. Len(p) = 2 /\ p = <<r.regs[i] \div 256, r.regs[i] % 256>>
    BY <2>3, PairsAre
  <2>5. h[2 * i - 1] = p[1] /\ h[2 * i] = p[2]
    BY <1>1, <2>1, <2>2, <2>3, <2>4 DEF Follows
  <2>6. f[2 * i - 1] = h[2 * i - 1] /\ f[2 * i] = h[2 * i]
    BY <1>1, <2>1, <2>2, <2>3 DEF Begins
  <2> QED
    BY <2>4, <2>5, <2>6
<1> HIDE DEF f
<1>7. /\ Len(Content(r)) = 3 + 2 * k
      /\ \A i \in 1..(2 * k) : Content(r)[3 + i] = f[i]
      /\ \A i \in 1..3 : Content(r)[i] = head[i]
  BY <1>2, <1>4, <1>5 DEF Begins, Follows
<1>8. \A i \in 1..k : 2 * i - 1 \in 1..(2 * k) /\ 2 * i \in 1..(2 * k)
  BY <1>1
<1>9. head[1] = r.addr /\ head[2] = GetRegisters /\ head[3] = k
  OBVIOUS
<1>10. Content(r)[1] = r.addr /\ Content(r)[2] = GetRegisters /\ Content(r)[3] = k
  <2>1. 1 \in 1..3 /\ 2 \in 1..3 /\ 3 \in 1..3
    OBVIOUS
  <2>2. /\ Content(r)[1] = head[1] /\ Content(r)[2] = head[2] /\ Content(r)[3] = head[3]
    BY <1>7, <2>1, Zenon
  <2> QED
    BY <1>9, <2>2, Zenon
<1>11. ASSUME NEW i \in 1..k
       PROVE  /\ Content(r)[3 + (2 * i - 1)] = r.regs[i] \div 256
              /\ Content(r)[3 + 2 * i] = r.regs[i] % 256
  <2>1. Content(r)[3 + (2 * i - 1)] = f[2 * i - 1] /\ Content(r)[3 + 2 * i] = f[2 * i]
    BY <1>7, <1>8, Zenon
  <2> QED
    BY <1>6, <2>1, Zenon
<1> QED
  BY <1>5, <1>7, <1>1, <1>10, <1>11, Zenon

LEMMA BodyIs ==
  ASSUME NEW r \in Request
  PROVE  /\ Body(r) \in Seq(Octets) /\ Len(Body(r)) = 5 + 2 * Len(r.regs)
         /\ Begins(Content(r), Body(r))
         /\ Follows(Crc(Content(r)), Content(r), Body(r))
<1>1. Content(r) \in Seq(Int) /\ Len(r.regs) \in Nat /\ Len(Content(r)) = 3 + 2 * Len(r.regs)
  BY ContentIs
<1>2. Crc(Content(r)) \in Seq(Octets) /\ Len(Crc(Content(r))) = 2
  BY <1>1, CrcIs
<1>3. Content(r) \in Seq(Octets)
  BY <1>1 DEF Octets
<1>4. Body(r) = Glued(Content(r), Crc(Content(r)))
  BY DEF Body, Glued
<1>5. /\ Body(r) \in Seq(Octets)
      /\ Begins(Content(r), Body(r))
      /\ Follows(Crc(Content(r)), Content(r), Body(r))
  BY <1>2, <1>3, <1>4, Join
<1>6. Len(Body(r)) = 5 + 2 * Len(r.regs)
  BY <1>1, <1>2, <1>5 DEF Follows
<1> QED
  BY <1>5, <1>6

Sent(b) == IF b \in NeedEscape THEN <<Escape, Flip(b)>> ELSE <<b>>

Escapes(m) == [i \in 1..Len(m) |-> Sent(m[i])]

LEMMA SentIs ==
  ASSUME NEW b \in Octets
  PROVE  /\ Sent(b) \in Seq(Octets)
         /\ b \in NeedEscape => Len(Sent(b)) = 2 /\ Sent(b)[1] = Escape /\ Sent(b)[2] = Flip(b)
         /\ b \notin NeedEscape => Len(Sent(b)) = 1 /\ Sent(b)[1] = b
<1>1. CASE b \in NeedEscape
  <2>1. b \in Int
    BY <1>1 DEF NeedEscape, EndOfText, Escape, Magic
  <2>2. PICK x, y : x = Escape /\ y = Flip(b)
    OBVIOUS
  <2>3. x \in Octets /\ y \in Octets
    BY <2>1, <2>2 DEF Octets, Flip, Escape
  <2>4. Sent(b) = <<x, y>>
    BY <1>1, <2>2 DEF Sent
  <2> QED
    BY <1>1, <2>2, <2>3, <2>4
<1>2. CASE b \notin NeedEscape
  <2>1. Sent(b) = <<b>>
    BY <1>2 DEF Sent
  <2> QED
    BY <1>2, <2>1
<1> QED
  BY <1>1, <1>2

(* A frame f of a message m, whose first j bytes are sent as x[j] bytes.   *)
IsFrame(f, m, x) ==
    /\ Len(m) \in Nat /\ x[0] = 0
    /\ \A j \in 0..Len(m) : x[j] \in Nat /\ x[j] <= x[Len(m)]
    /\ Len(f) = x[Len(m)] + 2
    /\ f[1] = Magic /\ f[x[Len(m)] + 2] = EndOfText
    /\ \A j \in 1..Len(m) :
         /\ m[j] \in NeedEscape =>
              x[j] = x[j - 1] + 2 /\ f[x[j - 1] + 2] = Escape /\ f[x[j - 1] + 3] = Flip(m[j])
         /\ m[j] \notin NeedEscape =>
              x[j] = x[j - 1] + 1 /\ f[x[j - 1] + 2] = m[j]

(* A message m escaped, e, whose first j bytes take x[j] bytes in it.      *)
IsEscaped(e, m, x) ==
    /\ e \in Seq(Octets) /\ Len(m) \in Nat
    /\ x[0] = 0 /\ x[Len(m)] = Len(e)
    /\ \A j \in 0..Len(m) : x[j] \in Nat /\ x[j] <= x[Len(m)]
    /\ \A j \in 1..Len(m) :
         /\ x[j] = x[j - 1] + Len(Sent(m[j]))
         /\ \A i \in 1..Len(Sent(m[j])) : e[x[j - 1] + i] = Sent(m[j])[i]

LEMMA EscapedIs ==
  ASSUME NEW m \in Seq(Octets)
  PROVE  \E x : IsEscaped(Escaped(m), m, x)
<1> DEFINE k == Len(m)
           x == [j \in 0..k |-> Len(First(Escapes(m), j))]
<1>1. k \in Nat /\ \A j \in 1..k : m[j] \in Octets
  BY SeqIs
<1>2. AreSeqs(Escapes(m), k, Octets) /\ \A j \in 1..k : Escapes(m)[j] = Sent(m[j])
  BY <1>1, SentIs DEF AreSeqs, Escapes
<1>3. Escaped(m) = First(Escapes(m), k)
  <2>1. DOMAIN m = 1..k
    BY LenProperties
  <2>2. [i \in DOMAIN m |-> IF m[i] \in NeedEscape THEN <<Escape, Flip(m[i])>> ELSE <<m[i]>>]
          = [i \in 1..k |-> Escapes(m)[i]]
    BY <2>1 DEF Escapes, Sent
  <2> QED
    BY <2>2, Zenon DEF Escaped, First
<1>4. 0 \in 0..k /\ k \in 0..k /\ \A j \in 1..k : j \in 0..k /\ j - 1 \in 0..k
  BY <1>1
<1>5. \A j \in 0..k : x[j] = Len(First(Escapes(m), j))
  OBVIOUS
<1> HIDE DEF x
<1>6. \A j \in 0..k : First(Escapes(m), j) \in Seq(Octets) /\ x[j] \in Nat /\ x[j] <= x[k]
  <2> SUFFICES ASSUME NEW j \in 0..k
               PROVE  First(Escapes(m), j) \in Seq(Octets) /\ x[j] \in Nat /\ x[j] <= x[k]
    OBVIOUS
  <2>1. First(Escapes(m), j) \in Seq(Octets)
    BY <1>1, <1>2, FirstTyped
  <2>2. k \in j..k
    BY <1>1
  <2>3. Begins(First(Escapes(m), j), First(Escapes(m), k))
    BY <1>1, <1>2, <2>2, FirstStays
  <2> QED
    BY <1>4, <1>5, <2>1, <2>3 DEF Begins
<1>7. ASSUME NEW j \in 1..k
      PROVE  /\ x[j] = x[j - 1] + Len(Sent(m[j]))
             /\ \A i \in 1..Len(Sent(m[j])) : Escaped(m)[x[j - 1] + i] = Sent(m[j])[i]
  <2>1. PICK g, h, t : g = First(Escapes(m), j - 1) /\ h = First(Escapes(m), j) /\ t = Escaped(m)
    OBVIOUS
  <2>2. Follows(Sent(m[j]), g, h) /\ Begins(h, t)
    BY <1>1, <1>2, <1>3, <2>1, FirstHas
  <2>3. x[j] = Len(h) /\ x[j - 1] = Len(g)
    BY <1>4, <1>5, <2>1
  <2>4. ASSUME NEW i \in 1..Len(Sent(m[j])) PROVE t[x[j - 1] + i] = Sent(m[j])[i]
    <3>1. Len(g) + i \in 1..Len(h) /\ h[Len(g) + i] = Sent(m[j])[i]
      BY <2>2 DEF Follows
    <3> QED
      BY <2>2, <2>3, <3>1 DEF Begins
  <2> QED
    BY <2>1, <2>2, <2>3, <2>4 DEF Follows
<1>8. x[0] = 0
  BY <1>4, <1>5, FirstNone
<1>9. Escaped(m) \in Seq(Octets) /\ x[k] = Len(Escaped(m))
  BY <1>3, <1>4, <1>5, <1>6
<1> QED
  BY <1>1, <1>6, <1>7, <1>8, <1>9, Zenon DEF IsEscaped

LEMMA FrameIs ==
  ASSUME NEW s \in Streams, NEW r \in ToSet(s.requests), r \in Request
  PROVE  Frame[r] \in Seq(Octets) /\ \E x : IsFrame(Frame[r], Body(r), x)
<1> DEFINE m == Body(r)
           e == Escaped(m)
           g == Glued(<<Magic>>, e)
           f == Frame[r]
<1>1. f = Glued(g, <<EndOfText>>)
  <2>1. r \in UNION {ToSet(t.requests) : t \in Streams}
    OBVIOUS
  <2> QED
    BY <2>1, Zenon DEF Frame, Glued
<1>2. m \in Seq(Octets)
  BY BodyIs
<1>3. PICK x : IsEscaped(e, m, x)
  BY <1>2, EscapedIs
<1> HIDE DEF m, e
<1>4. <<Magic>> \in Seq(Octets) /\ <<EndOfText>> \in Seq(Octets)
      /\ Len(<<Magic>>) = 1 /\ Len(<<EndOfText>>) = 1
      /\ <<Magic>>[1] = Magic /\ <<EndOfText>>[1] = EndOfText
  BY DEF Octets, Magic, EndOfText
<1>5. \A j \in 1..Len(m) : m[j] \in Octets
  BY <1>2, SeqIs
<1>6. g \in Seq(Octets) /\ Begins(<<Magic>>, g) /\ Follows(e, <<Magic>>, g)
  BY <1>3, <1>4, Join DEF IsEscaped
<1> HIDE DEF g
<1>7. f \in Seq(Octets) /\ Begins(g, f) /\ Follows(<<EndOfText>>, g, f)
  BY <1>1, <1>4, <1>6, Join
<1> HIDE DEF f
<1>8. Len(g) = x[Len(m)] + 1 /\ Len(f) = x[Len(m)] + 2 /\ Len(e) \in Nat
  BY <1>3, <1>4, <1>6, <1>7 DEF Follows, IsEscaped
<1>9. f[1] = Magic /\ f[x[Len(m)] + 2] = EndOfText
  <2>1. g[1] = Magic
    BY <1>4, <1>6 DEF Begins
  <2>2. 1 \in 1..Len(g) /\ 1 \in 1..1 /\ Len(g) + 1 = x[Len(m)] + 2
    BY <1>3, <1>8 DEF IsEscaped
  <2> QED
    BY <1>4, <1>7, <2>1, <2>2 DEF Begins, Follows
<1>10. \A i \in 1..Len(e) : f[i + 1] = e[i]
  <2> SUFFICES ASSUME NEW i \in 1..Len(e) PROVE f[i + 1] = e[i]
    OBVIOUS
  <2>1. g[1 + i] = e[i]
    BY <1>4, <1>6 DEF Follows
  <2>2. i + 1 \in 1..Len(g) /\ 1 + i = i + 1
    BY <1>3, <1>8 DEF IsEscaped
  <2> QED
    BY <1>7, <2>1, <2>2 DEF Begins
<1>11. ASSUME NEW j \in 1..Len(m)
       PROVE  /\ m[j] \in NeedEscape =>
                   x[j] = x[j - 1] + 2 /\ f[x[j - 1] + 2] = Escape /\ f[x[j - 1] + 3] = Flip(m[j])
              /\ m[j] \notin NeedEscape =>
                   x[j] = x[j - 1] + 1 /\ f[x[j - 1] + 2] = m[j]
  <2>1. j - 1 \in 0..Len(m) /\ j \in 0..Len(m)
    BY <1>3 DEF IsEscaped
  <2>2. x[j - 1] \in Nat /\ x[j] <= Len(e) /\ x[j] = x[j - 1] + Len(Sent(m[j]))
    BY <1>3, <2>1 DEF IsEscaped
  <2>3. CASE m[j] \in NeedEscape
    <3>1. Len(Sent(m[j])) = 2 /\ Sent(m[j])[1] = Escape /\ Sent(m[j])[2] = Flip(m[j])
      BY <1>5, <2>3, SentIs
    <3>2. 1 \in 1..Len(Sent(m[j])) /\ 2 \in 1..Len(Sent(m[j]))
      BY <3>1
    <3>3. e[x[j - 1] + 1] = Sent(m[j])[1] /\ e[x[j - 1] + 2] = Sent(m[j])[2]
      BY <1>3, <3>2 DEF IsEscaped
    <3>4. x[j - 1] + 1 \in 1..Len(e) /\ x[j - 1] + 2 \in 1..Len(e)
          /\ x[j - 1] + 1 + 1 = x[j - 1] + 2 /\ x[j - 1] + 2 + 1 = x[j - 1] + 3
      <4>1. PICK v \in Nat : v = x[j - 1]
        BY <2>2
      <4>2. PICK u \in Nat : u = Len(e)
        BY <1>8
      <4>3. v + 2 <= u
        BY <2>2, <3>1, <4>1, <4>2
      <4>4. v + 1 \in 1..u /\ v + 2 \in 1..u /\ v + 1 + 1 = v + 2 /\ v + 2 + 1 = v + 3
        BY <4>3
      <4> QED
        BY <4>1, <4>2, <4>4, Zenon
    <3> QED
      BY <1>10, <2>2, <2>3, <3>1, <3>3, <3>4
  <2>4. CASE m[j] \notin NeedEscape
    <3>1. Len(Sent(m[j])) = 1 /\ Sent(m[j])[1] = m[j]
      BY <1>5, <2>4, SentIs
    <3>2. 1 \in 1..Len(Sent(m[j]))
      BY <3>1
    <3>3. e[x[j - 1] + 1] = Sent(m[j])[1]
      BY <1>3, <3>2 DEF IsEscaped
    <3>4. x[j - 1] + 1 \in 1..Len(e) /\ x[j - 1] + 1 + 1 = x[j - 1] + 2
      BY <1>8, <2>2, <3>1
    <3> QED
      BY <1>10, <2>2, <2>4, <3>1, <3>3, <3>4
  <2> QED
    BY <2>3, <2>4
<1>12. IsFrame(f, m, x)
  BY <1>3, <1>8, <1>9, <1>11 DEF IsFrame, IsEscaped
<1> QED
  BY <1>7, <1>12 DEF f, m

Frames(s) == [i \in 1..Len(s.requests) |-> Frame[s.requests[i]]]

(* A stream w of what s says: its noise, and then each frame, the i-th of  *)
(* which ends at e[i].                                                     *)
IsStream(w, s, e) ==
    /\ w \in Seq(Octets) /\ Len(s.requests) \in Nat
    /\ e[0] = Len(s.noise) /\ e[Len(s.requests)] = Len(w)
    /\ \A i \in 0..Len(s.requests) : e[i] \in Nat
    /\ \A i \in 1..e[0] : w[i] = s.noise[i]
    /\ \A i \in 1..Len(s.requests) :
         /\ e[i] = e[i - 1] + Len(Frame[s.requests[i]])
         /\ \A p \in 1..Len(Frame[s.requests[i]]) : w[e[i - 1] + p] = Frame[s.requests[i]][p]
    /\ \A i, j \in 0..Len(s.requests) : i < j => e[i] < e[j]

LEMMA RequestsAre ==
  ASSUME NEW s \in Streams
  PROVE  /\ s.noise \in Seq(Octets) /\ Len(s.requests) \in Nat
         /\ \A i \in 1..Len(s.requests) :
              s.requests[i] \in Request /\ s.requests[i] \in ToSet(s.requests)
<1>1. s.noise \in Seq(Byte) /\ s.requests \in Seq(Request)
  BY KamstrupMeterAssumption
<1>2. Byte \subseteq Octets
  BY DEF Byte, Octets
<1>3. s.noise \in Seq(Octets)
  BY <1>1, <1>2
<1>4. Len(s.requests) \in Nat /\ \A i \in 1..Len(s.requests) : s.requests[i] \in Request
  BY <1>1, SeqIs
<1>5. DOMAIN s.requests = 1..Len(s.requests)
  BY <1>1, LenProperties
<1>6. \A i \in 1..Len(s.requests) : s.requests[i] \in ToSet(s.requests)
  BY <1>5 DEF ToSet
<1> QED
  BY <1>3, <1>4, <1>6

LEMMA StreamIs ==
  ASSUME NEW s \in Streams,
         NEW e, e = [i \in 0..Len(s.requests) |-> Len(WireTo(s, i))]
  PROVE  IsStream(Wire(s), s, e)
<1> DEFINE n == Len(s.requests)
           q == Frames(s)
           w == Wire(s)
<1>1. n \in Nat /\ s.noise \in Seq(Octets)
  BY RequestsAre
<1>2. \A i \in 1..n : q[i] = Frame[s.requests[i]]
  BY DEF Frames
<1>3. AreSeqs(q, n, Octets)
  BY <1>2, RequestsAre, FrameIs DEF AreSeqs
<1>4. ASSUME NEW i \in 0..n
      PROVE  WireTo(s, i) = Glued(s.noise, First(q, i))
  <2>1. \A j \in 1..i : q[j] = Frame[s.requests[j]]
    BY <1>1, <1>2
  <2>2. [j \in 1..i |-> Frame[s.requests[j]]] = [j \in 1..i |-> q[j]]
    BY <2>1
  <2> QED
    BY <2>2, Zenon DEF WireTo, Glued, First
<1> HIDE DEF q
<1>5. ASSUME NEW i \in 0..n
      PROVE  /\ WireTo(s, i) \in Seq(Octets) /\ First(q, i) \in Seq(Octets)
             /\ Begins(s.noise, WireTo(s, i)) /\ Follows(First(q, i), s.noise, WireTo(s, i))
  <2>1. First(q, i) \in Seq(Octets)
    BY <1>1, <1>3, FirstTyped
  <2> QED
    BY <1>1, <1>4, <2>1, Join
<1>6. 0 \in 0..n /\ n \in 0..n /\ \A i \in 1..n : i \in 0..n /\ i - 1 \in 0..n
  BY <1>1
<1>7. w \in Seq(Octets) /\ w = WireTo(s, n)
  BY <1>5, <1>6 DEF Wire
<1> HIDE DEF w
<1>8. ASSUME NEW i \in 0..n
      PROVE  e[i] = Len(s.noise) + Len(First(q, i)) /\ e[i] \in Nat
  <2>1. Follows(First(q, i), s.noise, WireTo(s, i))
    BY <1>5
  <2>2. e[i] = Len(WireTo(s, i))
    OBVIOUS
  <2> QED
    BY <2>1, <2>2 DEF Follows
<1>9. e[0] = Len(s.noise) /\ e[n] = Len(w) /\ Len(s.noise) \in Nat
  <2>1. Len(s.noise) \in Nat
    BY <1>5, <1>6 DEF Follows
  <2>2. Len(First(q, 0)) = 0
    BY FirstNone
  <2>3. e[0] = Len(s.noise) + Len(First(q, 0))
    BY <1>6, <1>8
  <2>4. e[n] = Len(w)
    BY <1>6, <1>7
  <2> QED
    BY <2>1, <2>2, <2>3, <2>4
<1>10. \A i \in 1..e[0] : w[i] = s.noise[i]
  BY <1>5, <1>6, <1>7, <1>9 DEF Begins
<1>11. ASSUME NEW i \in 1..n
       PROVE  /\ e[i] = e[i - 1] + Len(q[i]) /\ Len(q[i]) \in Nat
              /\ \A p \in 1..Len(q[i]) : w[e[i - 1] + p] = q[i][p]
  <2>1. PICK g, h, t : g = First(q, i - 1) /\ h = First(q, i) /\ t = First(q, n)
    OBVIOUS
  <2>2. Follows(q[i], g, h) /\ Begins(h, t)
    BY <1>1, <1>3, <2>1, FirstHas
  <2>3. e[i - 1] = Len(s.noise) + Len(g) /\ e[i] = Len(s.noise) + Len(h)
    BY <1>6, <1>8, <2>1
  <2>4. Follows(t, s.noise, w)
    BY <1>5, <1>6, <1>7, <2>1
  <2>5. ASSUME NEW p \in 1..Len(q[i]) PROVE w[e[i - 1] + p] = q[i][p]
    <3>1. Len(g) + p \in 1..Len(h) /\ h[Len(g) + p] = q[i][p]
      BY <2>2 DEF Follows
    <3>2. Len(g) + p \in 1..Len(t) /\ t[Len(g) + p] = q[i][p]
      BY <2>2, <3>1 DEF Begins
    <3>3. w[Len(s.noise) + (Len(g) + p)] = q[i][p]
      BY <2>4, <3>2 DEF Follows
    <3>4. Len(s.noise) + (Len(g) + p) = e[i - 1] + p
      BY <2>2, <2>3, <2>4 DEF Follows
    <3> QED
      BY <3>3, <3>4
  <2>6. Len(h) = Len(g) + Len(q[i]) /\ Len(g) \in Nat /\ Len(q[i]) \in Nat
    BY <2>2 DEF Follows
  <2>7. PICK a \in Nat, b \in Nat, d \in Nat : a = Len(s.noise) /\ b = Len(g) /\ d = Len(q[i])
    BY <1>9, <2>6
  <2>8. e[i] = a + (b + d) /\ e[i - 1] = a + b
    BY <2>3, <2>6, <2>7
  <2> QED
    <3>1. a + (b + d) = (a + b) + d
      OBVIOUS
    <3>2. e[i] = e[i - 1] + Len(q[i])
      BY <2>7, <2>8, <3>1, Zenon
    <3> QED
      BY <2>5, <2>6, <3>2, Zenon
<1>12. ASSUME NEW i \in 0..n, NEW j \in 0..n, i < j
       PROVE  e[i] < e[j]
  <2>1. i + 1 \in 1..n /\ i + 1 - 1 = i /\ i + 1 \in 0..n /\ j \in (i + 1)..n
    BY <1>1, <1>12
  <2>2. e[i + 1] = e[i] + Len(q[i + 1])
    <3>1. PICK j1 : j1 = i + 1
      OBVIOUS
    <3>2. e[j1] = e[j1 - 1] + Len(q[j1])
      BY <1>11, <2>1, <3>1
    <3> QED
      BY <2>1, <3>1, <3>2
  <2>3. Len(q[i + 1]) > 0
    <3>1. /\ s.requests[i + 1] \in Request
          /\ s.requests[i + 1] \in ToSet(s.requests)
      BY <2>1, RequestsAre
    <3>2. PICK x : IsFrame(Frame[s.requests[i + 1]], Body(s.requests[i + 1]), x)
      BY <3>1, FrameIs
    <3>3. PICK k \in Nat : k = Len(Body(s.requests[i + 1]))
      BY <3>2 DEF IsFrame
    <3>4. k \in 0..k
      OBVIOUS
    <3>5. x[k] \in Nat /\ Len(Frame[s.requests[i + 1]]) = x[k] + 2
      BY <3>2, <3>3, <3>4 DEF IsFrame
    <3>6. PICK u : u = x[k]
      OBVIOUS
    <3>7. u \in Nat /\ Len(Frame[s.requests[i + 1]]) = u + 2
      BY <3>5, <3>6, Zenon
    <3>8. q[i + 1] = Frame[s.requests[i + 1]]
      BY <1>2, <2>1, Zenon
    <3> QED
      BY <3>7, <3>8
  <2>4. e[i + 1] <= e[j]
    <3>1. Begins(First(q, i + 1), First(q, j))
      BY <1>1, <1>3, <2>1, FirstStays
    <3>2. e[i + 1] = Len(s.noise) + Len(First(q, i + 1)) /\ e[j] = Len(s.noise) + Len(First(q, j))
      BY <1>8, <2>1
    <3>3. PICK u, v : u = Len(First(q, i + 1)) /\ v = Len(First(q, j))
      OBVIOUS
    <3>4. u \in Nat /\ v \in Nat /\ u <= v
      BY <3>1, <3>3 DEF Begins
    <3>5. PICK b \in Nat : b = Len(s.noise)
      BY <1>9
    <3>6. b + u <= b + v
      BY <3>4
    <3>7. e[i + 1] = b + u /\ e[j] = b + v
      BY <3>2, <3>3, <3>5, Zenon
    <3> QED
      BY <3>6, <3>7, Zenon
  <2>5. e[i] \in Nat /\ e[j] \in Nat
    BY <1>8
  <2> QED
    BY <2>1, <2>2, <2>3, <2>4, <2>5
<1>13. IsStream(w, s, e)
  <2>1. \A i \in 1..n :
          /\ e[i] = e[i - 1] + Len(Frame[s.requests[i]])
          /\ \A p \in 1..Len(Frame[s.requests[i]]) : w[e[i - 1] + p] = Frame[s.requests[i]][p]
    <3> SUFFICES ASSUME NEW i \in 1..n
                 PROVE  /\ e[i] = e[i - 1] + Len(Frame[s.requests[i]])
                        /\ \A p \in 1..Len(Frame[s.requests[i]]) :
                             w[e[i - 1] + p] = Frame[s.requests[i]][p]
      BY Zenon
    <3>1. q[i] = Frame[s.requests[i]]
      BY <1>2, Zenon
    <3>2. e[i] = e[i - 1] + Len(q[i]) /\ \A p \in 1..Len(q[i]) : w[e[i - 1] + p] = q[i][p]
      BY <1>11, Zenon
    <3> QED
      BY <3>1, <3>2, Zenon
  <2>2. \A i \in 0..n : e[i] \in Nat
    BY <1>8, Zenon
  <2> QED
    BY <1>1, <1>7, <1>9, <1>10, <1>12, <2>1, <2>2, Zenon DEF IsStream
<1> QED
  BY <1>13 DEF w

----------------------------------------------------------------------------
(***************************************************************************)
(* get_request over a stream: it passes over the noise, keeps what it has  *)
(* unescaped of the first frame, ends with it and leaves what follows.     *)
(***************************************************************************)
Fresh(q) == [kept |-> <<>>, rest |-> <<>>, ended |-> FALSE, parsing |-> q, escaped |-> FALSE]
Keeps(k) == [kept |-> k, rest |-> <<>>, ended |-> FALSE, parsing |-> TRUE, escaped |-> FALSE]
Ended(k, t) == [kept |-> k, rest |-> t, ended |-> TRUE, parsing |-> TRUE, escaped |-> FALSE]

LEMMA ScannedNoise ==
  ASSUME NEW d, d # Magic
  PROVE  Scanned(Fresh(FALSE), d) = Fresh(FALSE)
  BY DEF Scanned, Fresh

LEMMA ScannedMagic ==
  ASSUME NEW q \in BOOLEAN
  PROVE  Scanned(Fresh(q), Magic) = Keeps(<<Magic>>)
<1>1. Magic # Escape /\ Magic # EndOfText
  BY DEF Magic, Escape, EndOfText
<1>2. Append(<<>>, Magic) = <<Magic>>
  OBVIOUS
<1>3. CASE q = TRUE
  BY <1>1, <1>2, <1>3 DEF Scanned, Fresh, Keeps
<1>4. CASE q = FALSE
  BY <1>1, <1>2, <1>4 DEF Scanned, Fresh, Keeps
<1> QED
  BY <1>3, <1>4

LEMMA ScannedPlain ==
  ASSUME NEW k, NEW d, d \notin NeedEscape
  PROVE  Scanned(Keeps(k), d) = Keeps(Append(k, d))
<1>1. d # Escape /\ d # EndOfText
  BY DEF NeedEscape
<1> QED
  BY <1>1 DEF Scanned, Keeps

LEMMA ScannedEscaped ==
  ASSUME NEW k, NEW b \in NeedEscape
  PROVE  Scanned(Scanned(Keeps(k), Escape), Flip(b)) = Keeps(Append(k, b))
<1> DEFINE mid == [kept |-> k, rest |-> <<>>, ended |-> FALSE, parsing |-> TRUE, escaped |-> TRUE]
<1>0. Escape # EndOfText
  BY DEF Escape, EndOfText
<1>1. Scanned(Keeps(k), Escape) = mid
  BY <1>0 DEF Scanned, Keeps
<1>2. Flip(Flip(b)) = b
  BY DEF NeedEscape, EndOfText, Escape, Magic, Flip
<1>3. Scanned(mid, Flip(b)) = Keeps(Append(k, Flip(Flip(b))))
  BY DEF Scanned, Keeps
<1> QED
  BY <1>1, <1>2, <1>3

LEMMA ScannedEnd ==
  ASSUME NEW k
  PROVE  Scanned(Keeps(k), EndOfText) = Ended(k, <<>>)
<1>1. EndOfText # Escape
  BY DEF Escape, EndOfText
<1> QED
  BY <1>1 DEF Scanned, Keeps, Ended

LEMMA ScannedRest ==
  ASSUME NEW k, NEW t, NEW d
  PROVE  Scanned(Ended(k, t), d) = Ended(k, Append(t, d))
  BY DEF Scanned, Ended

Start(p) == [kept |-> <<>>, rest |-> <<>>, ended |-> FALSE,
             parsing |-> p.parsing, escaped |-> p.escaped]

IsScan(f, p, n) ==
    f = [i \in 0..n |-> IF i = 0 THEN Start(p) ELSE Scanned(f[i - 1], p.bytes[i])]

LEMMA ScanLonger ==
  ASSUME NEW p, NEW n \in Nat, NEW f, IsScan(f, p, n)
  PROVE  \E g : IsScan(g, p, n + 1)
<1> DEFINE g == [i \in 0..(n + 1) |-> IF i <= n THEN f[i] ELSE Scanned(f[n], p.bytes[n + 1])]
<1>1. ASSUME NEW i \in 0..(n + 1)
      PROVE  g[i] = IF i = 0 THEN Start(p) ELSE Scanned(g[i - 1], p.bytes[i])
  <2>1. CASE i <= n
    <3>1. i \in 0..n /\ g[i] = f[i] /\ (i # 0 => i - 1 \in 0..n /\ g[i - 1] = f[i - 1])
      BY <2>1
    <3> QED
      BY <3>1 DEF IsScan
  <2>2. CASE i = n + 1
    <3>1. i # 0 /\ i - 1 = n /\ ~(i <= n) /\ n \in 0..(n + 1)
      BY <2>2
    <3>2. g[i] = Scanned(f[n], p.bytes[n + 1]) /\ g[n] = f[n]
      BY <2>2, <3>1
    <3> QED
      BY <2>2, <3>1, <3>2
  <2> QED
    BY <2>1, <2>2
<1> HIDE DEF g
<1>2. g = [i \in 0..(n + 1) |-> g[i]]
  BY DEF g
<1>3. [i \in 0..(n + 1) |-> g[i]]
        = [i \in 0..(n + 1) |-> IF i = 0 THEN Start(p) ELSE Scanned(g[i - 1], p.bytes[i])]
  BY <1>1
<1>4. IsScan(g, p, n + 1)
  BY <1>2, <1>3 DEF IsScan
<1> QED
  BY <1>4

LEMMA ScanExists ==
  ASSUME NEW p, NEW n \in Nat
  PROVE  \E f : IsScan(f, p, n)
<1> DEFINE bad == {k \in Nat : ~\E f : IsScan(f, p, k)}
<1>1. SUFFICES ASSUME bad # {} PROVE FALSE
  OBVIOUS
<1>2. PICK k \in bad : \A m \in bad : k <= m
  BY <1>1, Smallest
<1>3. k # 0
  <2> DEFINE f == [i \in 0..0 |-> Start(p)]
  <2>1. \A i \in 0..0 : i = 0
    OBVIOUS
  <2>2. IsScan(f, p, 0)
    BY <2>1 DEF IsScan
  <2> QED
    BY <2>2
<1>4. k - 1 \in Nat /\ k - 1 + 1 = k /\ ~(k <= k - 1)
  BY <1>3
<1>5. \E f : IsScan(f, p, k - 1)
  BY <1>2, <1>4
<1>6. \E f : IsScan(f, p, k - 1 + 1)
  BY <1>4, <1>5, ScanLonger
<1> QED
  BY <1>4, <1>6

(* The states of the loop, one after each byte.                            *)
Steps(f, p) ==
    /\ f[0] = Start(p)
    /\ \A i \in 1..Len(p.bytes) : f[i] = Scanned(f[i - 1], p.bytes[i])

LEMMA StepAt ==
  ASSUME NEW f, NEW p, Steps(f, p), NEW i \in 1..Len(p.bytes), NEW i0, i0 = i - 1
  PROVE  f[i] = Scanned(f[i0], p.bytes[i])
  BY DEF Steps

LEMMA ScanSteps ==
  ASSUME NEW p, Len(p.bytes) \in Nat
  PROVE  \E f : Steps(f, p) /\ Scan(p) = f[Len(p.bytes)]
<1> DEFINE n == Len(p.bytes)
<1>1. PICK g : IsScan(g, p, n)
  BY ScanExists
<1>2. Scan(p) = (CHOOSE f : IsScan(f, p, n))[n]
  BY Zenon DEF Scan, IsScan, Start
<1>3. PICK f : IsScan(f, p, n) /\ Scan(p) = f[n]
  BY <1>1, <1>2
<1>4. 0 \in 0..n /\ \A i \in 1..n : i \in 0..n /\ i # 0
  OBVIOUS
<1>5. Steps(f, p)
  BY <1>3, <1>4 DEF IsScan, Steps
<1> QED
  BY <1>3, <1>5

(* What the parser p has received: h bytes of noise, as much of a frame as *)
(* there is, and what follows it.                                          *)
Hears(p, h, fr) ==
    /\ p.bytes \in Seq(Octets) /\ Len(p.bytes) \in Nat /\ h \in Nat
    /\ p.escaped = FALSE /\ p.parsing \in BOOLEAN
    /\ p.parsing => h = 0
    /\ \A i \in 1..Len(p.bytes) : i <= h => p.bytes[i] # Magic
    /\ \A y \in 1..Len(fr) : h + y <= Len(p.bytes) => p.bytes[h + y] = fr[y]

IsKept(k, m, j) ==
    /\ k \in Seq(Octets) /\ Len(k) = j + 1 /\ k[1] = Magic
    /\ \A i \in 1..j : k[i + 1] = m[i]

LEMMA PassNoise ==
  ASSUME NEW p, NEW h, NEW fr, Hears(p, h, fr), NEW f, Steps(f, p),
         NEW n \in 0..Len(p.bytes), n <= h
  PROVE  f[n] = Fresh(p.parsing)
<1> DEFINE bad == {i \in Nat : i \in 0..n /\ f[i] # Fresh(p.parsing)}
<1>0. n \in Nat /\ n <= Len(p.bytes) /\ Len(p.bytes) \in Nat /\ h \in Nat
  BY DEF Hears
<1>1. SUFFICES ASSUME bad # {} PROVE FALSE
  BY <1>0
<1>2. PICK i \in bad : \A j \in bad : i <= j
  BY <1>1, Smallest
<1>3. i # 0
  <2>1. Start(p) = Fresh(p.parsing)
    BY DEF Hears, Start, Fresh
  <2> QED
    BY <1>2, <2>1 DEF Steps
<1>4. i \in 1..Len(p.bytes) /\ i <= h /\ i - 1 \in 0..n /\ i - 1 \in Nat /\ ~(i <= i - 1) /\ h # 0
  BY <1>0, <1>2, <1>3
<1>5. p.parsing = FALSE /\ p.bytes[i] # Magic
  BY <1>4 DEF Hears
<1>6. f[i - 1] = Fresh(p.parsing)
  BY <1>2, <1>4
<1>7. f[i] = Scanned(f[i - 1], p.bytes[i])
  BY <1>4 DEF Steps
<1>8. f[i] = Fresh(p.parsing)
  BY <1>5, <1>6, <1>7, ScannedNoise
<1> QED
  BY <1>2, <1>8

LEMMA KeptMore ==
  ASSUME NEW k, NEW m \in Seq(Octets), NEW j \in 1..Len(m), IsKept(k, m, j - 1)
  PROVE  IsKept(Append(k, m[j]), m, j)
<1>1. m[j] \in Octets /\ Len(m) \in Nat
  BY SeqIs
<1>2. k \in Seq(Octets) /\ Len(k) = j
  BY <1>1 DEF IsKept
<1>3. PICK g : g = Append(k, m[j])
  OBVIOUS
<1>4. g \in Seq(Octets) /\ Len(g) = j + 1 /\ g[j + 1] = m[j] /\ \A i \in 1..j : g[i] = k[i]
  BY <1>1, <1>2, <1>3, AppendProperties
<1>5. g[1] = Magic
  BY <1>1, <1>4 DEF IsKept
<1>6. \A i \in 1..j : g[i + 1] = m[i]
  <2> SUFFICES ASSUME NEW i \in 1..j PROVE g[i + 1] = m[i]
    OBVIOUS
  <2>1. CASE i = j
    BY <1>4, <2>1
  <2>2. CASE i # j
    <3>1. i \in 1..(j - 1) /\ i + 1 \in 1..j
      BY <1>1, <2>2
    <3>2. k[i + 1] = m[i]
      BY <3>1 DEF IsKept
    <3> QED
      BY <1>4, <3>1, <3>2
  <2> QED
    BY <2>1, <2>2
<1> QED
  BY <1>3, <1>4, <1>5, <1>6 DEF IsKept

LEMMA KeepBody ==
  ASSUME NEW m \in Seq(Octets), NEW fr, NEW x, IsFrame(fr, m, x),
         NEW p, NEW h, Hears(p, h, fr), NEW f, Steps(f, p),
         NEW n \in 0..Len(m), h + 1 + x[n] <= Len(p.bytes)
  PROVE  \E k : IsKept(k, m, n) /\ f[h + 1 + x[n]] = Keeps(k)
<1> DEFINE L == Len(p.bytes)
           bad == {j \in Nat : /\ j \in 0..Len(m) /\ h + 1 + x[j] <= L
                               /\ ~\E k : IsKept(k, m, j) /\ f[h + 1 + x[j]] = Keeps(k)}
<1>0. /\ L \in Nat /\ h \in Nat /\ Len(m) \in Nat /\ Len(fr) = x[Len(m)] + 2
      /\ \A j \in 0..Len(m) : x[j] \in Nat /\ x[j] <= x[Len(m)]
      /\ \A y \in 1..Len(fr) : h + y <= L => p.bytes[h + y] = fr[y]
      /\ \A i \in 1..L : f[i] = Scanned(f[i - 1], p.bytes[i])
  BY DEF Hears, IsFrame, Steps
<1>1. SUFFICES ASSUME bad # {} PROVE FALSE
  BY <1>0
<1>2. PICK j \in bad : \A i \in bad : j <= i
  BY <1>1, Smallest
<1>3. j # 0
  <2>1. SUFFICES ASSUME j = 0 PROVE FALSE
    OBVIOUS
  <2>2. x[j] = 0 /\ h + 1 <= L
    BY <1>0, <1>2, <2>1 DEF IsFrame
  <2>3. h \in 0..L /\ h <= h /\ h + 1 \in 1..L /\ 1 \in 1..Len(fr)
    <3>1. L \in Nat /\ h \in Nat
      BY <1>0
    <3>2. PICK v \in Nat : Len(fr) = v + 2
      <4>1. Len(m) \in 0..Len(m)
        BY <1>0
      <4> QED
        BY <1>0, <4>1
    <3>3. 1 \in 1..Len(fr)
      BY <3>2
    <3> HIDE DEF L
    <3> QED
      BY <2>2, <3>1, <3>3
  <2>4. f[h] = Fresh(p.parsing)
    BY <2>3, PassNoise
  <2>5. p.bytes[h + 1] = Magic
    BY <1>0, <2>2, <2>3 DEF IsFrame
  <2>6. f[h + 1] = Scanned(f[h], p.bytes[h + 1])
    BY <1>0, <2>3
  <2>7. f[h + 1] = Keeps(<<Magic>>)
    BY <2>4, <2>5, <2>6, ScannedMagic DEF Hears
  <2>8. IsKept(<<Magic>>, m, 0)
    BY DEF IsKept, Octets, Magic
  <2>9. h + 1 + x[j] = h + 1
    BY <1>0, <2>2
  <2> QED
    BY <1>2, <2>1, <2>7, <2>8, <2>9
<1>4. j \in 1..Len(m) /\ j - 1 \in 0..Len(m) /\ j - 1 \in Nat /\ ~(j <= j - 1) /\ m[j] \in Octets
  BY <1>0, <1>2, <1>3, SeqIs
<1>5. PICK y, z : y = x[j - 1] /\ z = x[j]
  OBVIOUS
<1>6. y \in Nat /\ z \in Nat /\ h + 1 + z <= L /\ z + 2 <= Len(fr)
      /\ L \in Nat /\ h \in Nat /\ Len(fr) \in Nat
  <2>1. PICK v : v = x[Len(m)]
    OBVIOUS
  <2>2. v \in Nat /\ z <= v /\ Len(fr) = v + 2 /\ y \in Nat /\ z \in Nat
    <3>1. Len(m) \in 0..Len(m)
      BY <1>0
    <3> QED
      BY <1>0, <1>2, <1>4, <1>5, <2>1, <3>1
  <2>3. h + 1 + z <= L
    BY <1>2, <1>5
  <2>4. L \in Nat /\ h \in Nat
    BY <1>0
  <2> QED
    BY <2>2, <2>3, <2>4
<1>7. /\ m[j] \in NeedEscape => z = y + 2 /\ fr[y + 2] = Escape /\ fr[y + 3] = Flip(m[j])
      /\ m[j] \notin NeedEscape => z = y + 1 /\ fr[y + 2] = m[j]
  BY <1>4, <1>5 DEF IsFrame
<1>8. h + 1 + y <= L
  <2>1. y <= z
    BY <1>6, <1>7
  <2> HIDE DEF L
  <2> QED
    BY <1>6, <2>1
<1>9. PICK k : IsKept(k, m, j - 1) /\ f[h + 1 + y] = Keeps(k)
  BY <1>2, <1>4, <1>5, <1>8
<1>10. IsKept(Append(k, m[j]), m, j)
  BY <1>4, <1>9, KeptMore
<1>11. PICK i0, i1, i2 : i0 = h + 1 + y /\ i1 = h + 2 + y /\ i2 = h + 3 + y
  OBVIOUS
<1>12. /\ i0 \in Nat /\ i1 \in Nat /\ i2 \in Nat /\ i0 = i1 - 1 /\ i1 = i2 - 1
       /\ i1 = h + (y + 2) /\ i2 = h + (y + 3)
  <2> HIDE DEF L
  <2> QED
    BY <1>6, <1>11
<1>13. f[i0] = Keeps(k)
  BY <1>9, <1>11, Zenon
<1>14. CASE m[j] \in NeedEscape
  <2>1. /\ i1 \in 1..L /\ i2 \in 1..L /\ h + 1 + z = i2
        /\ y + 2 \in 1..Len(fr) /\ y + 3 \in 1..Len(fr) /\ h + (y + 2) <= L /\ h + (y + 3) <= L
    <3>1. z = y + 2
      BY <1>7, <1>14
    <3> HIDE DEF L
    <3> QED
      BY <1>6, <1>11, <3>1
  <2>2. p.bytes[h + (y + 2)] = Escape /\ p.bytes[h + (y + 3)] = Flip(m[j])
    BY <1>0, <1>7, <1>14, <2>1
  <2>3. f[i1] = Scanned(Keeps(k), Escape)
    <3>1. f[i1] = Scanned(f[i0], p.bytes[i1])
      BY <1>12, <2>1, StepAt
    <3> QED
      BY <1>12, <1>13, <2>2, <3>1, Zenon
  <2>4. f[i2] = Scanned(f[i1], Flip(m[j]))
    <3>1. f[i2] = Scanned(f[i1], p.bytes[i2])
      <4>1. i2 \in 1..L /\ i1 = i2 - 1
        BY <1>12, <2>1, Zenon
      <4> QED
        BY <4>1, StepAt
    <3> QED
      BY <1>12, <2>2, <3>1, Zenon
  <2>5. f[i2] = Keeps(Append(k, m[j]))
    BY <1>14, <2>3, <2>4, ScannedEscaped
  <2>6. f[h + 1 + x[j]] = Keeps(Append(k, m[j]))
    BY <1>5, <2>1, <2>5, Zenon
  <2> QED
    BY <1>2, <1>10, <2>6
<1>15. CASE m[j] \notin NeedEscape
  <2>1. /\ i1 \in 1..L /\ h + 1 + z = i1
        /\ y + 2 \in 1..Len(fr) /\ h + (y + 2) <= L
    <3>1. z = y + 1
      BY <1>7, <1>15
    <3> HIDE DEF L
    <3> QED
      BY <1>6, <1>11, <3>1
  <2>2. p.bytes[h + (y + 2)] = m[j]
    BY <1>0, <1>7, <1>15, <2>1
  <2>3. f[i1] = Scanned(Keeps(k), m[j])
    <3>1. f[i1] = Scanned(f[i0], p.bytes[i1])
      BY <1>12, <2>1, StepAt
    <3> QED
      BY <1>12, <1>13, <2>2, <3>1, Zenon
  <2>4. f[i1] = Keeps(Append(k, m[j]))
    BY <1>15, <2>3, ScannedPlain
  <2>5. f[h + 1 + x[j]] = Keeps(Append(k, m[j]))
    BY <1>5, <2>1, <2>4, Zenon
  <2> QED
    BY <1>2, <1>10, <2>5
<1> QED
  BY <1>14, <1>15

(* With the whole frame received, it ends there, and the rest is what      *)
(* follows the frame.                                                      *)
IsRest(t, b, g, i) ==
    /\ t \in Seq(Octets) /\ Len(t) = i
    /\ \A y \in 1..i : t[y] = b[g + y]

LEMMA ScanFrame ==
  ASSUME NEW m \in Seq(Octets), NEW fr, NEW x, IsFrame(fr, m, x),
         NEW p, NEW h, Hears(p, h, fr), h + Len(fr) <= Len(p.bytes)
  PROVE  \E k, t : /\ IsKept(k, m, Len(m)) /\ Scan(p) = Ended(k, t)
                   /\ IsRest(t, p.bytes, h + Len(fr), Len(p.bytes) - (h + Len(fr)))
<1> DEFINE L == Len(p.bytes)
           g == h + Len(fr)
<1>0. /\ L \in Nat /\ h \in Nat /\ Len(m) \in Nat /\ Len(fr) = x[Len(m)] + 2
      /\ x[Len(m)] \in Nat /\ p.bytes \in Seq(Octets)
      /\ \A y \in 1..Len(fr) : h + y <= L => p.bytes[h + y] = fr[y]
      /\ fr[x[Len(m)] + 2] = EndOfText
  <2>1. L \in Nat /\ h \in Nat /\ Len(m) \in Nat /\ Len(fr) = x[Len(m)] + 2
        /\ p.bytes \in Seq(Octets)
    BY DEF Hears, IsFrame
  <2>2. Len(m) \in 0..Len(m)
    BY <2>1
  <2> QED
    BY <2>1, <2>2 DEF Hears, IsFrame
<1>1. PICK f : Steps(f, p) /\ Scan(p) = f[L]
  BY <1>0, ScanSteps
<1>2. PICK z \in Nat : z = x[Len(m)]
  BY <1>0
<1>3. Len(m) \in 0..Len(m) /\ h + 1 + z <= L /\ g = h + 2 + z /\ g \in 1..L
      /\ g - 1 = h + 1 + z /\ Len(fr) \in 1..Len(fr) /\ g <= L /\ Len(fr) = z + 2
  <2>1. L \in Nat /\ h \in Nat /\ Len(m) \in Nat
    BY <1>0
  <2>2. Len(fr) = z + 2
    BY <1>0, <1>2
  <2>3. Len(m) \in 0..Len(m)
    BY <2>1
  <2>4. PICK k : k = Len(fr)
    OBVIOUS
  <2>5. h + k <= L /\ k = z + 2 /\ g = h + k
    BY <2>2, <2>4
  <2> HIDE DEF L, g
  <2>6. /\ h + 1 + z <= L /\ g = h + 2 + z /\ g \in 1..L
        /\ g - 1 = h + 1 + z /\ k \in 1..k /\ g <= L
    BY <2>1, <2>5
  <2> QED
    BY <2>2, <2>3, <2>4, <2>6, Zenon
<1>4. PICK k : IsKept(k, m, Len(m)) /\ f[h + 1 + z] = Keeps(k)
  BY <1>2, <1>1, <1>3, KeepBody
<1>5. f[g] = Ended(k, <<>>)
  <2>1. p.bytes[g] = EndOfText
    BY <1>0, <1>2, <1>3
  <2>2. f[g] = Scanned(f[g - 1], p.bytes[g])
    BY <1>1, <1>3 DEF Steps
  <2> QED
    BY <1>3, <1>4, <2>1, <2>2, ScannedEnd
<1>6. g \in Nat /\ L - g \in Nat
  <2>1. L \in Nat /\ g \in 1..L
    BY <1>0, <1>3
  <2> HIDE DEF g, L
  <2> QED
    BY <2>1
<1> HIDE DEF g
<1>7. \E t : IsRest(t, p.bytes, g, L - g) /\ f[g + (L - g)] = Ended(k, t)
  <2> DEFINE bad == {i \in Nat : /\ i <= L - g
                                 /\ ~\E t : IsRest(t, p.bytes, g, i) /\ f[g + i] = Ended(k, t)}
  <2>1. SUFFICES ASSUME bad # {} PROVE FALSE
    <3>1. L - g \in Nat /\ L - g <= L - g
      BY <1>6
    <3>2. L - g \notin bad
      OBVIOUS
    <3> QED
      BY <3>1, <3>2
  <2>2. PICK i \in bad : \A j \in bad : i <= j
    BY <2>1, Smallest
  <2>3. i # 0
    <3>1. IsRest(<<>>, p.bytes, g, 0)
      BY DEF IsRest
    <3>2. g + 0 = g
      BY <1>6
    <3> QED
      BY <1>5, <2>2, <3>1, <3>2
  <2>4. PICK i0, a0, a1 : i0 = i - 1 /\ a0 = g + i0 /\ a1 = g + i
    OBVIOUS
  <2>5. i0 \in Nat /\ i0 <= L - g /\ ~(i <= i0) /\ a1 \in 1..L /\ a0 = a1 - 1
    BY <1>0, <1>6, <2>2, <2>3, <2>4
  <2>6. PICK t : IsRest(t, p.bytes, g, i0) /\ f[a0] = Ended(k, t)
    <3>1. \E t : IsRest(t, p.bytes, g, i0) /\ f[g + i0] = Ended(k, t)
      BY <2>2, <2>5
    <3> QED
      BY <2>4, <3>1, Zenon
  <2>7. PICK u : u = Append(t, p.bytes[a1])
    OBVIOUS
  <2>8. f[a1] = Ended(k, u)
    <3>1. f[a1] = Scanned(f[a0], p.bytes[a1])
      BY <1>1, <2>5, StepAt
    <3> QED
      BY <2>6, <2>7, <3>1, ScannedRest
  <2>9. IsRest(u, p.bytes, g, i)
    <3>1. t \in Seq(Octets) /\ Len(t) = i0 /\ \A y \in 1..i0 : t[y] = p.bytes[g + y]
      BY <2>6 DEF IsRest
    <3>2. p.bytes[a1] \in Octets
      BY <1>0, <2>5, SeqIs
    <3>3. /\ u \in Seq(Octets) /\ Len(u) = Len(t) + 1 /\ u[Len(t) + 1] = p.bytes[a1]
          /\ \A y \in 1..Len(t) : u[y] = t[y]
      BY <2>7, <3>1, <3>2, AppendProperties
    <3>4. i0 + 1 = i
      BY <2>2, <2>4
    <3>5. Len(u) = i /\ u[i] = p.bytes[g + i] /\ \A y \in 1..i0 : u[y] = p.bytes[g + y]
      BY <2>4, <3>1, <3>3, <3>4, Zenon
    <3>6. \A y \in 1..i : y = i \/ y \in 1..i0
      BY <2>2, <2>4
    <3> QED
      BY <3>3, <3>5, <3>6 DEF IsRest
  <2>10. f[g + i] = Ended(k, u)
    BY <2>4, <2>8, Zenon
  <2> QED
    BY <2>2, <2>9, <2>10
<1>8. g + (L - g) = L
  BY <1>0, <1>6
<1> QED
  BY <1>1, <1>4, <1>7, <1>8 DEF g

LEMMA PlainFrame ==
  ASSUME NEW m, NEW fr, NEW x, IsFrame(fr, m, x),
         \A j \in 1..Len(m) : m[j] \notin NeedEscape,
         NEW n \in 0..Len(m)
  PROVE  x[n] = n
<1> DEFINE bad == {j \in Nat : j \in 0..Len(m) /\ x[j] # j}
<1>0. Len(m) \in Nat /\ x[0] = 0 /\ \A j \in 1..Len(m) : x[j] = x[j - 1] + 1
  BY DEF IsFrame
<1>1. SUFFICES ASSUME bad # {} PROVE FALSE
  BY <1>0
<1>2. PICK j \in bad : \A i \in bad : j <= i
  BY <1>1, Smallest
<1>3. j \in 1..Len(m) /\ j - 1 \in 0..Len(m) /\ j - 1 \in Nat /\ ~(j <= j - 1)
  BY <1>0, <1>2
<1>4. x[j - 1] = j - 1
  BY <1>2, <1>3
<1> QED
  BY <1>0, <1>2, <1>3, <1>4

LEMMA ScanNoise ==
  ASSUME NEW p, NEW h, NEW fr, Hears(p, h, fr), Len(p.bytes) <= h
  PROVE  Scan(p) = Fresh(p.parsing)
<1>1. Len(p.bytes) \in Nat
  BY DEF Hears
<1>2. PICK f : Steps(f, p) /\ Scan(p) = f[Len(p.bytes)]
  BY <1>1, ScanSteps
<1>3. Len(p.bytes) \in 0..Len(p.bytes)
  BY <1>1
<1> QED
  BY <1>2, <1>3, PassNoise

(* With a part of a frame no byte of which is escaped, it has kept that    *)
(* part as it is.                                                          *)
LEMMA ScanPart ==
  ASSUME NEW m \in Seq(Octets), NEW fr, NEW x, IsFrame(fr, m, x),
         \A j \in 1..Len(m) : m[j] \notin NeedEscape,
         NEW p, NEW h, Hears(p, h, fr),
         h < Len(p.bytes), Len(p.bytes) < h + Len(fr)
  PROVE  \E k : /\ Scan(p) = Keeps(k)
                /\ IsRest(k, p.bytes, h, Len(p.bytes) - h)
<1> DEFINE L == Len(p.bytes)
<1>0. L \in Nat /\ h \in Nat /\ Len(m) \in Nat /\ Len(fr) = x[Len(m)] + 2
      /\ fr[1] = Magic /\ p.bytes \in Seq(Octets)
  BY DEF Hears, IsFrame
<1>1. \A n \in 0..Len(m) : x[n] = n
  BY PlainFrame
<1>2. Len(fr) = Len(m) + 2
  <2>1. Len(m) \in 0..Len(m)
    BY <1>0
  <2> QED
    BY <1>0, <1>1, <2>1
<1>3. PICK n : n = L - h - 1
  OBVIOUS
<1>4. n \in 0..Len(m) /\ h + 1 + n = L /\ L - h = n + 1
  <2>1. PICK a \in Nat : a = Len(m)
    BY <1>0
  <2>2. L \in Nat /\ h \in Nat /\ h < L /\ L < h + (a + 2)
    BY <1>0, <1>2, <2>1
  <2> HIDE DEF L
  <2> QED
    BY <1>3, <2>1, <2>2
<1>5. PICK f : Steps(f, p) /\ Scan(p) = f[L]
  BY <1>0, ScanSteps
<1>6. x[n] = n /\ h + 1 + x[n] <= L
  BY <1>0, <1>1, <1>4
<1>7. PICK k : IsKept(k, m, n) /\ f[h + 1 + x[n]] = Keeps(k)
  BY <1>4, <1>5, <1>6, KeepBody
<1>8. Scan(p) = Keeps(k)
  BY <1>4, <1>5, <1>6, <1>7, Zenon
<1>9. ASSUME NEW y \in 1..(n + 1)
      PROVE  k[y] = p.bytes[h + y]
  <2>1. y \in 1..Len(fr) /\ h + y <= L /\ n \in Nat
    BY <1>0, <1>2, <1>4
  <2>2. p.bytes[h + y] = fr[y]
    BY <2>1 DEF Hears
  <2>3. CASE y = 1
    BY <1>0, <1>7, <2>2, <2>3 DEF IsKept
  <2>4. CASE y # 1
    <3>1. PICK j : j = y - 1
      OBVIOUS
    <3>2. j \in 1..n /\ j + 1 = y /\ j \in 1..Len(m) /\ j - 1 \in 0..Len(m) /\ j - 1 + 2 = y
      BY <1>0, <1>4, <2>1, <2>4, <3>1
    <3>3. k[j + 1] = m[j]
      BY <1>7, <3>2 DEF IsKept
    <3>4. fr[x[j - 1] + 2] = m[j] /\ x[j - 1] = j - 1
      BY <1>1, <3>2 DEF IsFrame
    <3> QED
      BY <2>2, <3>2, <3>3, <3>4, Zenon
  <2> QED
    BY <2>3, <2>4
<1>10. IsRest(k, p.bytes, h, n + 1)
  BY <1>7, <1>9 DEF IsKept, IsRest
<1> QED
  BY <1>4, <1>8, <1>10, Zenon

LEMMA PieceIs ==
  ASSUME NEW s \in Seq(Octets), NEW a \in Nat, NEW z \in Nat, a <= z, z <= Len(s)
  PROVE  IsRest(SubSeq(s, a + 1, z), s, a, z - a)
<1>1. Len(s) \in Nat /\ \A i \in (a + 1)..z : s[i] \in Octets
  BY SeqIs
<1>2. a + 1 \in Int /\ z \in Int
  OBVIOUS
<1>3. PICK u : u = SubSeq(s, a + 1, z)
  OBVIOUS
<1>4. /\ u \in Seq(Octets)
      /\ Len(u) = IF a + 1 <= z THEN z - (a + 1) + 1 ELSE 0
      /\ \A i \in 1..(z - (a + 1) + 1) : u[i] = s[a + 1 + i - 1]
  BY <1>1, <1>2, <1>3, SubSeqProperties
<1>5. z - (a + 1) + 1 = z - a
  OBVIOUS
<1>6. Len(u) = z - a
  BY <1>4, <1>5
<1>7. \A i \in 1..(z - a) : u[i] = s[a + i]
  <2>1. \A i \in 1..(z - a) : a + 1 + i - 1 = a + i
    OBVIOUS
  <2> QED
    BY <1>4, <1>5, <2>1
<1> QED
  BY <1>3, <1>4, <1>6, <1>7 DEF IsRest

LEMMA RestsAgree ==
  ASSUME NEW t, NEW u, NEW b, NEW g, NEW i, IsRest(t, b, g, i), IsRest(u, b, g, i)
  PROVE  t = u
  BY SeqEqual DEF IsRest

LEMMA SliceIs ==
  ASSUME NEW s \in Seq(Octets), NEW a \in Nat, NEW b \in Nat, a + b <= Len(s)
  PROVE  IsRest(Slice(s, a, b), s, a, Len(s) - a - b)
<1>1. Len(s) \in Nat
  BY SeqIs
<1>2. PICK z : z = Len(s) - b
  OBVIOUS
<1>3. z \in Nat /\ a <= z /\ z <= Len(s) /\ z - a = Len(s) - a - b
  BY <1>1, <1>2
<1>4. IsRest(SubSeq(s, a + 1, z), s, a, z - a)
  BY <1>3, PieceIs
<1>5. Slice(s, a, b) = SubSeq(s, a + 1, z)
  BY <1>2, Zenon DEF Slice
<1> QED
  BY <1>3, <1>4, <1>5, Zenon

(* A frame that get_request has read entirely gives the client's request   *)
(* back, and leaves what follows it.                                       *)
LEMMA FrameRead ==
  ASSUME NEW r \in Request, NEW k, IsKept(k, Body(r), Len(Body(r))), NEW t \in Seq(Octets),
         NEW sc, sc = Ended(k, t)
  PROVE  ~CrcRaises(sc) /\ CrcValid(sc) /\ ~Raises(sc) /\ Parsed(sc) = r /\ Remaining(sc) = t
<1> DEFINE m == Body(r)
           c == Content(r)
           n == Len(r.regs)
<1>1. /\ n \in Nat /\ c \in Seq(Octets) /\ m \in Seq(Octets) /\ Len(t) \in Nat
      /\ Len(c) = 3 + 2 * n /\ Len(m) = 5 + 2 * n
      /\ Begins(c, m) /\ Follows(Crc(c), c, m) /\ Crc(c) \in Seq(Octets) /\ Len(Crc(c)) = 2
  <2>1. n \in Nat /\ c \in Seq(Int) /\ Len(c) = 3 + 2 * n
    BY ContentIs
  <2>2. Int \subseteq Octets
    BY DEF Octets
  <2>3. c \in Seq(Octets)
    BY <2>1, <2>2, SeqMonotonic
  <2>4. Crc(c) \in Seq(Octets) /\ Len(Crc(c)) = 2
    BY <2>1, CrcIs
  <2>5. Len(t) \in Nat
    BY SeqIs
  <2> QED
    BY <2>1, <2>3, <2>4, <2>5, BodyIs
<1>2. sc.kept = k /\ sc.rest = t /\ sc.ended /\ sc.parsing
  BY DEF Ended
<1>3. k \in Seq(Octets) /\ Len(k) = 6 + 2 * n /\ \A i \in 1..(5 + 2 * n) : k[i + 1] = m[i]
  <2>0. IsKept(k, m, Len(m))
    OBVIOUS
  <2> HIDE DEF m
  <2>1. k \in Seq(Octets) /\ Len(k) = Len(m) + 1 /\ \A i \in 1..Len(m) : k[i + 1] = m[i]
    BY <2>0 DEF IsKept
  <2>2. Len(m) = 5 + 2 * n /\ n \in Nat
    BY <1>1
  <2>3. Len(m) + 1 = 6 + 2 * n
    BY <2>2
  <2> QED
    BY <2>1, <2>2, <2>3, Zenon
<1> HIDE DEF m, c
<1>4. ~CrcRaises(sc)
  BY <1>1, <1>2, <1>3 DEF CrcRaises
<1>5. CrcValid(sc)
  <2>1. Slice(k, 1, 0) = m
    <3>0. 0 \in Nat /\ 1 \in Nat /\ 1 + 0 <= Len(k)
      BY <1>1, <1>3
    <3>1. IsRest(Slice(k, 1, 0), k, 1, Len(k) - 1 - 0)
      BY <1>3, <3>0, SliceIs, Zenon
    <3>2. Len(k) - 1 - 0 = 5 + 2 * n
      BY <1>1, <1>3
    <3>3. IsRest(Slice(k, 1, 0), k, 1, 5 + 2 * n)
      BY <3>1, <3>2, Zenon
    <3>4. \A i \in 1..(5 + 2 * n) : i + 1 = 1 + i
      BY <1>1
    <3>5. \A i \in 1..(5 + 2 * n) : m[i] = k[1 + i]
      BY <1>3, <3>4
    <3>6. IsRest(m, k, 1, 5 + 2 * n)
      BY <1>1, <3>5 DEF IsRest
    <3> QED
      BY <3>3, <3>6, RestsAgree
  <2>2. Slice(m, Len(m) - 2, 0) = Crc(c)
    <3>1. PICK a : a = Len(m) - 2
      OBVIOUS
    <3>2. a \in Nat /\ a + 0 <= Len(m) /\ Len(m) - a - 0 = 2 /\ a = Len(c)
      BY <1>1, <3>1
    <3>3. IsRest(Slice(m, a, 0), m, a, Len(m) - a - 0)
      BY <1>1, <3>2, SliceIs
    <3>4. IsRest(Slice(m, a, 0), m, a, 2)
      BY <3>2, <3>3, Zenon
    <3>5. IsRest(Crc(c), m, a, 2)
      BY <1>1, <3>2 DEF IsRest, Follows
    <3> QED
      BY <3>1, <3>4, <3>5, RestsAgree
  <2>3. Slice(m, 0, 2) = c
    <3>0. 0 \in Nat /\ 2 \in Nat /\ 0 + 2 <= Len(m)
      BY <1>1
    <3>1. IsRest(Slice(m, 0, 2), m, 0, Len(m) - 0 - 2)
      BY <1>1, <3>0, SliceIs, Zenon
    <3>2. Len(m) - 0 - 2 = 3 + 2 * n
      BY <1>1
    <3>3. IsRest(Slice(m, 0, 2), m, 0, 3 + 2 * n)
      BY <3>1, <3>2, Zenon
    <3>4. \A i \in 1..(3 + 2 * n) : 0 + i = i
      BY <1>1
    <3>5. IsRest(c, m, 0, 3 + 2 * n)
      BY <1>1, <3>4 DEF IsRest, Begins
    <3> QED
      BY <3>3, <3>5, RestsAgree
  <2> QED
    BY <1>2, <2>1, <2>2, <2>3, Zenon DEF CrcValid
<1>6. PICK b : b = Buffer(sc)
  OBVIOUS
<1>7. /\ b \in Seq(Octets) /\ Len(b) = 7 + 2 * n + Len(t)
      /\ \A i \in 1..(6 + 2 * n) : b[i] = k[i]
      /\ IsRest(t, b, 7 + 2 * n, Len(t))
  <2>1. b = Glued(Glued(k, <<EndOfText>>), t)
    BY <1>2, <1>5, <1>6, Zenon DEF Buffer, Glued
  <2>2. <<EndOfText>> \in Seq(Octets) /\ Len(<<EndOfText>>) = 1
    BY DEF Octets, EndOfText
  <2>3. PICK e : e = Glued(k, <<EndOfText>>)
    OBVIOUS
  <2>4. e \in Seq(Octets) /\ Begins(k, e) /\ Follows(<<EndOfText>>, k, e)
    BY <1>3, <2>2, <2>3, Join
  <2>5. b \in Seq(Octets) /\ Begins(e, b) /\ Follows(t, e, b)
    BY <2>1, <2>3, <2>4, Join
  <2>6. Len(e) = 7 + 2 * n
    BY <1>1, <1>3, <2>2, <2>4 DEF Follows
  <2>7. Len(b) = 7 + 2 * n + Len(t)
    BY <2>5, <2>6 DEF Follows
  <2>8. ASSUME NEW i \in 1..(6 + 2 * n) PROVE b[i] = k[i]
    <3>1. e[i] = k[i]
      BY <1>3, <2>4 DEF Begins
    <3>2. i \in 1..Len(e)
      BY <1>1, <2>6
    <3> QED
      BY <2>5, <3>1, <3>2 DEF Begins
  <2>9. IsRest(t, b, 7 + 2 * n, Len(t))
    BY <2>5, <2>6 DEF Follows, IsRest
  <2> QED
    BY <2>5, <2>7, <2>8, <2>9
<1>8. Remaining(sc) = t
  <2>1. Len(k) < Len(b) /\ Len(k) + 1 = 7 + 2 * n
    BY <1>1, <1>3, <1>7
  <2>2. Remaining(sc) = Slice(b, Len(k) + 1, 0)
    BY <1>2, <1>6, <2>1, Zenon DEF Remaining
  <2>3. PICK a : a = Len(k) + 1
    OBVIOUS
  <2>4. a \in Nat /\ a + 0 <= Len(b) /\ Len(b) - a - 0 = Len(t) /\ a = 7 + 2 * n
    <3>1. a = 7 + 2 * n
      BY <1>1, <1>3, <2>3
    <3>2. Len(b) = a + Len(t) /\ a \in Nat /\ Len(t) \in Nat
      BY <1>1, <1>7, <3>1
    <3> QED
      BY <3>1, <3>2
  <2>5. IsRest(Slice(b, a, 0), b, a, Len(b) - a - 0)
    BY <1>7, <2>4, SliceIs
  <2>6. IsRest(Slice(b, a, 0), b, a, Len(t)) /\ IsRest(t, b, a, Len(t))
    BY <1>7, <2>4, <2>5, Zenon
  <2> QED
    BY <2>2, <2>3, <2>6, RestsAgree
<1>9. /\ b[2] = r.addr /\ b[3] = GetRegisters /\ b[4] = n
      /\ \A i \in 1..n : /\ b[4 + (2 * i - 1)] = r.regs[i] \div 256
                         /\ b[4 + 2 * i] = r.regs[i] % 256
  <2>1. /\ c[1] = r.addr /\ c[2] = GetRegisters /\ c[3] = n
        /\ \A i \in 1..n : /\ c[3 + (2 * i - 1)] = r.regs[i] \div 256
                           /\ c[3 + 2 * i] = r.regs[i] % 256
    BY ContentIs DEF c
  <2>2. ASSUME NEW i \in 1..(3 + 2 * n) PROVE b[i + 1] = c[i]
    <3>1. i \in 1..(5 + 2 * n) /\ i + 1 \in 1..(6 + 2 * n)
      BY <1>1
    <3>2. m[i] = c[i]
      BY <1>1 DEF Begins
    <3> QED
      BY <1>3, <1>7, <3>1, <3>2
  <2>3. b[2] = c[1] /\ b[3] = c[2] /\ b[4] = c[3]
    <3>1. 1 \in 1..(3 + 2 * n) /\ 2 \in 1..(3 + 2 * n) /\ 3 \in 1..(3 + 2 * n)
      BY <1>1
    <3>2. b[1 + 1] = c[1] /\ b[2 + 1] = c[2] /\ b[3 + 1] = c[3]
      BY <2>2, <3>1
    <3> QED
      BY <3>2
  <2>4. ASSUME NEW i \in 1..n
        PROVE  /\ b[4 + (2 * i - 1)] = r.regs[i] \div 256
               /\ b[4 + 2 * i] = r.regs[i] % 256
    <3>1. PICK x, y : x = 3 + (2 * i - 1) /\ y = 3 + 2 * i
      OBVIOUS
    <3>2. x \in 1..(3 + 2 * n) /\ y \in 1..(3 + 2 * n)
          /\ x + 1 = 4 + (2 * i - 1) /\ y + 1 = 4 + 2 * i
      BY <1>1, <3>1
    <3>3. b[x + 1] = c[x] /\ b[y + 1] = c[y]
      BY <2>2, <3>2
    <3>4. c[x] = r.regs[i] \div 256 /\ c[y] = r.regs[i] % 256
      BY <2>1, <3>1
    <3> QED
      BY <3>2, <3>3, <3>4, Zenon
  <2> QED
    BY <2>1, <2>3, <2>4
<1>10. PICK g : g = Message(sc)
  OBVIOUS
<1>11. IsRest(g, b, 3, 1 + 2 * n + Len(t))
  <2>1. Len(b) - 3 - 3 = 1 + 2 * n + Len(t) /\ 3 + 3 <= Len(b)
    BY <1>1, <1>7
  <2>2. IsRest(Slice(b, 3, 3), b, 3, Len(b) - 3 - 3)
    BY <1>7, <2>1, SliceIs
  <2> QED
    BY <1>6, <1>10, <2>1, <2>2, Zenon DEF Message
<1>12. /\ Len(g) = 1 + 2 * n + Len(t) /\ g[1] = n
       /\ \A i \in 1..n : /\ g[2 * i] = r.regs[i] \div 256
                          /\ g[2 * i + 1] = r.regs[i] % 256
  <2>1. Len(g) = 1 + 2 * n + Len(t)
    BY <1>11 DEF IsRest
  <2>2. \A i \in 1..(1 + 2 * n + Len(t)) : g[i] = b[3 + i]
    BY <1>11 DEF IsRest
  <2>3. g[1] = n
    <3>1. 1 \in 1..(1 + 2 * n + Len(t)) /\ 3 + 1 = 4
      BY <1>1
    <3> QED
      BY <1>9, <2>2, <3>1
  <2>4. ASSUME NEW i \in 1..n
        PROVE  g[2 * i] = r.regs[i] \div 256 /\ g[2 * i + 1] = r.regs[i] % 256
    <3>1. PICK x, y : x = 2 * i /\ y = 2 * i + 1
      OBVIOUS
    <3>2. /\ x \in 1..(1 + 2 * n + Len(t)) /\ y \in 1..(1 + 2 * n + Len(t))
          /\ 3 + x = 4 + (2 * i - 1) /\ 3 + y = 4 + 2 * i
      BY <1>1, <3>1
    <3>3. g[x] = b[3 + x] /\ g[y] = b[3 + y]
      BY <2>2, <3>2
    <3>4. /\ b[4 + (2 * i - 1)] = r.regs[i] \div 256
          /\ b[4 + 2 * i] = r.regs[i] % 256
      BY <1>9, Zenon
    <3>5. g[x] = r.regs[i] \div 256 /\ g[y] = r.regs[i] % 256
      BY <3>2, <3>3, <3>4, Zenon
    <3> QED
      BY <3>1, <3>5, Zenon
  <2> QED
    BY <2>1, <2>3, <2>4
<1>13. Registers(g) = r.regs
  <2>1. r.regs \in Seq(Word)
    BY DEF Request
  <2>2. \A i \in 1..n : r.regs[i] \in Word
    BY <2>1, SeqIs
  <2>3. ASSUME NEW i \in 1..n PROVE 256 * g[2 * i] + g[2 * i + 1] = r.regs[i]
    <3>1. PICK v \in Word : v = r.regs[i]
      BY <2>2
    <3>2. v \in Int
      BY WordsAreInts, Zenon
    <3>3. 256 * (v \div 256) + (v % 256) = v
      BY <3>2, Halves, Zenon
    <3>4. g[2 * i] = v \div 256 /\ g[2 * i + 1] = v % 256
      BY <1>12, <3>1, Zenon
    <3> QED
      BY <3>1, <3>3, <3>4, Zenon
  <2>4. Registers(g) = [i \in 1..n |-> r.regs[i]]
    BY <1>12, <2>3, Zenon DEF Registers
  <2>5. r.regs = [i \in 1..n |-> r.regs[i]]
    BY <2>1
  <2> QED
    BY <2>4, <2>5, Zenon
<1>14. ~CountRaises(g)
  <2>1. g # <<>>
    BY <1>1, <1>12
  <2>2. ~(2 * (Len(g) - 1) < n) /\ ~(Len(g) < 1 + 2 * n)
    BY <1>1, <1>12
  <2> QED
    BY <1>12, <2>1, <2>2, Zenon DEF CountRaises
<1>15. ~Raises(sc)
  <2>1. ~(Len(b) < 3)
    BY <1>1, <1>7
  <2> QED
    BY <1>4, <1>6, <1>9, <1>10, <1>14, <2>1, Zenon DEF Raises
<1>16. Parsed(sc) = r
  <2>1. Parsed(sc) = [addr |-> r.addr, regs |-> r.regs]
    BY <1>6, <1>9, <1>10, <1>13, Zenon DEF Parsed
  <2>2. r = [addr |-> r.addr, regs |-> r.regs]
    BY DEF Request
  <2> QED
    BY <2>1, <2>2, Zenon
<1> QED
  BY <1>4, <1>5, <1>8, <1>15, <1>16

LEMMA RestOfRest ==
  ASSUME NEW b, NEW w, NEW a \in Nat, NEW n \in Nat, IsRest(b, w, a, n),
         NEW t, NEW g \in 0..n, IsRest(t, b, g, n - g)
  PROVE  IsRest(t, w, a + g, n - g)
<1>1. ASSUME NEW y \in 1..(n - g) PROVE t[y] = w[a + g + y]
  <2>1. PICK i : i = g + y
    OBVIOUS
  <2>2. i \in 1..n /\ a + i = a + g + y
    BY <2>1
  <2>3. b[i] = w[a + i] /\ t[y] = b[g + y]
    BY <2>2 DEF IsRest
  <2> QED
    BY <2>1, <2>2, <2>3, Zenon
<1>2. t \in Seq(Octets) /\ Len(t) = n - g
  BY DEF IsRest
<1> QED
  BY <1>1, <1>2 DEF IsRest

APart == [bytes : Seq(Octets), parsing : BOOLEAN, escaped : {FALSE}]

(* The parser p has w from the a-th byte to the z-th, of which it has      *)
(* handled the first i frames.                                             *)
Holds(p, w, s, e, i, a, z) ==
    /\ p \in APart /\ i \in 0..Len(s.requests)
    /\ a \in Nat /\ z \in a..Len(w) /\ IsRest(p.bytes, w, a, z - a)
    /\ p.parsing => a = e[i]
    /\ ~p.parsing => i = 0 /\ a <= e[0]
    /\ s.whole => \E j \in i..Len(s.requests) : z = e[j]

IsNext(fr, s, i) ==
    \/ fr = <<>>
    \/ i < Len(s.requests) /\ fr = Frame[s.requests[i + 1]]

LEMMA HoldsFrame ==
  ASSUME NEW s \in Streams, Fits(s), NEW w, NEW e, IsStream(w, s, e),
         NEW p, NEW i, NEW a, NEW z, Holds(p, w, s, e, i, a, z),
         NEW fr, IsNext(fr, s, i)
  PROVE  /\ Hears(p, e[i] - a, fr) /\ a \in Nat /\ z \in Nat /\ e[i] \in Nat /\ a <= e[i] /\ a <= z
         /\ Len(p.bytes) = z - a /\ Len(w) \in Nat /\ z <= Len(w)
<1> DEFINE h == e[i] - a
           L == Len(p.bytes)
<1>1. /\ Len(s.requests) \in Nat /\ \A j \in 0..Len(s.requests) : e[j] \in Nat
      /\ e[0] = Len(s.noise) /\ \A y \in 1..e[0] : w[y] = s.noise[y]
      /\ w \in Seq(Octets)
  BY DEF IsStream
<1>2. p.bytes \in Seq(Octets) /\ p.escaped = FALSE /\ p.parsing \in BOOLEAN
  BY DEF Holds, APart
<1>3. Len(w) \in Nat
  BY <1>1, SeqIs
<1>4. a \in Nat /\ z \in Nat /\ a <= z /\ z <= Len(w) /\ i \in 0..Len(s.requests)
  BY <1>3 DEF Holds
<1>5. e[i] \in Nat /\ a <= e[i]
  BY <1>1, <1>4 DEF Holds
<1>6. L = z - a /\ \A y \in 1..L : p.bytes[y] = w[a + y]
  BY <1>4 DEF Holds, IsRest
<1>7. h \in Nat /\ L \in Nat
  BY <1>4, <1>5, <1>6
<1>8. p.parsing => h = 0
  BY <1>4, <1>5 DEF Holds
<1>9. ASSUME NEW y \in 1..L, y <= h PROVE p.bytes[y] # Magic
  <2>1. ~p.parsing /\ i = 0
    BY <1>2, <1>7, <1>8, <1>9 DEF Holds
  <2>2. PICK x : x = a + y
    OBVIOUS
  <2>3. x \in 1..e[0]
    BY <1>4, <1>5, <1>7, <1>9, <2>1, <2>2
  <2>4. p.bytes[y] = w[x] /\ w[x] = s.noise[x]
    BY <1>1, <1>6, <2>2, <2>3
  <2>5. DOMAIN s.noise = 1..Len(s.noise)
    BY RequestsAre, LenProperties
  <2>6. s.noise[x] # Magic
    BY <1>1, <2>3, <2>5 DEF Fits
  <2> QED
    BY <2>4, <2>6
<1>10. ASSUME NEW y \in 1..Len(fr), h + y <= L PROVE p.bytes[h + y] = fr[y]
  <2>1. i < Len(s.requests) /\ fr = Frame[s.requests[i + 1]]
    <3>1. fr # <<>>
      BY <1>10
    <3> QED
      BY <3>1 DEF IsNext
  <2>2. PICK j : j = i + 1
    OBVIOUS
  <2>3. j \in 1..Len(s.requests) /\ j - 1 = i /\ fr = Frame[s.requests[j]]
    <3>1. i \in Nat /\ Len(s.requests) \in Nat
      BY <1>1, <1>4
    <3>2. j \in 1..Len(s.requests) /\ j - 1 = i
      BY <2>1, <2>2, <3>1
    <3> QED
      BY <2>1, <2>2, <3>2, Zenon
  <2>4. w[e[j - 1] + y] = Frame[s.requests[j]][y]
    BY <2>3 DEF IsStream
  <2>5. w[e[i] + y] = fr[y]
    BY <2>3, <2>4, Zenon
  <2>6. PICK x : x = h + y
    OBVIOUS
  <2>7. x \in 1..L /\ a + x = e[i] + y
    <3>1. PICK d \in Nat : d = h
      BY <1>7
    <3>2. y \in Nat /\ y >= 1
      OBVIOUS
    <3>3. x = d + y /\ x <= L /\ e[i] = a + d
      BY <1>4, <1>5, <1>10, <2>6, <3>1
    <3>4. a \in Nat /\ L \in Nat
      BY <1>4, <1>7
    <3> HIDE DEF L
    <3>5. x \in 1..L
      BY <3>2, <3>3, <3>4
    <3>6. a + (d + y) = a + d + y
      BY <3>2, <3>4
    <3> QED
      BY <3>3, <3>5, <3>6, Zenon
  <2>8. p.bytes[x] = w[a + x]
    BY <1>6, <2>7
  <2> QED
    BY <2>5, <2>6, <2>7, <2>8, Zenon
<1>11. Hears(p, h, fr)
  BY <1>2, <1>7, <1>8, <1>9, <1>10 DEF Hears
<1> QED
  BY <1>3, <1>4, <1>5, <1>6, <1>11

(* What get_request makes of it: the next request, if its frame is there,  *)
(* and otherwise it holds the same bytes.                                  *)
ReadsNext(p, w, s, e, i, z) ==
    /\ i < Len(s.requests) /\ e[i + 1] <= z
    /\ Scan(p).ended /\ Scan(p).parsing /\ Scan(p).escaped = FALSE
    /\ ~CrcRaises(Scan(p)) /\ CrcValid(Scan(p)) /\ ~Raises(Scan(p))
    /\ Parsed(Scan(p)) = s.requests[i + 1]
    /\ IsRest(Remaining(Scan(p)), w, e[i + 1], z - e[i + 1])

ReadsOn(p, w, s, e, i, z) ==
    /\ i = Len(s.requests) \/ z < e[i + 1]
    /\ Scan(p).ended = FALSE /\ Scan(p).escaped = FALSE /\ Scan(p).parsing \in BOOLEAN
    /\ Scan(p).parsing => e[i] <= z /\ IsRest(Scan(p).kept, w, e[i], z - e[i])
    /\ ~Scan(p).parsing => i = 0 /\ Scan(p).kept = <<>> /\ z <= e[0]

LEMMA ReadsNoise ==
  ASSUME NEW s \in Streams, Fits(s), NEW w, NEW e, IsStream(w, s, e),
         NEW p, NEW i, NEW a, NEW z, Holds(p, w, s, e, i, a, z),
         z <= e[i], i = Len(s.requests) \/ z < e[i + 1]
  PROVE  ReadsOn(p, w, s, e, i, z)
<1>1. /\ Hears(p, e[i] - a, <<>>) /\ a \in Nat /\ z \in Nat /\ e[i] \in Nat /\ a <= e[i] /\ a <= z
      /\ Len(p.bytes) = z - a
  <2>1. IsNext(<<>>, s, i)
    BY DEF IsNext
  <2> QED
    BY <2>1, HoldsFrame
<1>2. Len(p.bytes) <= e[i] - a
  BY <1>1
<1>3. Scan(p) = Fresh(p.parsing)
  BY <1>1, <1>2, ScanNoise
<1>4. p.parsing \in BOOLEAN
  BY DEF Holds, APart
<1>5. /\ Scan(p).ended = FALSE /\ Scan(p).escaped = FALSE /\ Scan(p).parsing = p.parsing
      /\ Scan(p).kept = <<>>
  BY <1>3 DEF Fresh
<1>6. CASE p.parsing
  <2>1. e[i] <= z /\ z - e[i] = 0
    BY <1>1, <1>6 DEF Holds
  <2>2. IsRest(<<>>, w, e[i], 0)
    BY DEF IsRest
  <2> QED
    BY <1>4, <1>5, <1>6, <2>1, <2>2 DEF ReadsOn
<1>7. CASE ~p.parsing
  BY <1>4, <1>5, <1>7 DEF ReadsOn, Holds
<1> QED
  BY <1>6, <1>7

LEMMA Reads ==
  ASSUME NEW s \in Streams, Fits(s), NEW w, NEW e, IsStream(w, s, e),
         NEW p, NEW i, NEW a, NEW z, Holds(p, w, s, e, i, a, z)
  PROVE  ReadsNext(p, w, s, e, i, z) \/ ReadsOn(p, w, s, e, i, z)
<1> DEFINE n == Len(s.requests)
<1>1. /\ n \in Nat /\ i \in 0..n /\ z \in Nat /\ z <= Len(w) /\ e[n] = Len(w)
  <2>1. IsNext(<<>>, s, i)
    BY DEF IsNext
  <2> QED
    BY <2>1, HoldsFrame DEF IsStream, Holds
<1>2. CASE i = n
  BY <1>1, <1>2, ReadsNoise
<1>3. CASE i # n /\ z < e[i + 1] /\ z <= e[i]
  BY <1>3, ReadsNoise
<1>4. CASE i # n /\ ~(z < e[i + 1] /\ z <= e[i])
  <2>1. PICK j : j = i + 1
    OBVIOUS
  <2>2. j \in 1..n /\ j \in 0..n /\ j - 1 = i /\ i < j /\ i < n
    BY <1>1, <1>4, <2>1
  <2>3. PICK r : r = s.requests[j]
    OBVIOUS
  <2>4. r \in Request /\ r \in ToSet(s.requests)
    BY <2>2, <2>3, RequestsAre
  <2>5. PICK fr, m : fr = Frame[r] /\ m = Body(r)
    OBVIOUS
  <2>6. fr \in Seq(Octets) /\ m \in Seq(Octets) /\ \E x : IsFrame(fr, m, x)
    BY <2>4, <2>5, FrameIs, BodyIs
  <2>7. PICK x : IsFrame(fr, m, x)
    BY <2>6
  <2>8. fr = Frame[s.requests[i + 1]]
    BY <2>1, <2>3, <2>5, Zenon
  <2>9. /\ Hears(p, e[i] - a, fr) /\ a \in Nat /\ e[i] \in Nat /\ a <= e[i] /\ a <= z
        /\ Len(p.bytes) = z - a
    <3>1. i < Len(s.requests) /\ fr = Frame[s.requests[i + 1]]
      BY <2>2, <2>8
    <3>2. IsNext(fr, s, i)
      BY <3>1 DEF IsNext
    <3> QED
      BY <3>2, HoldsFrame
  <2>10. e[j] = e[i] + Len(fr) /\ Len(fr) \in Nat /\ e[j] \in Nat
    <3>1. e[j] = e[j - 1] + Len(Frame[s.requests[j]]) /\ e[j] \in Nat
      BY <2>2 DEF IsStream
    <3>2. Len(fr) \in Nat
      BY <2>6, SeqIs
    <3> QED
      BY <2>2, <2>3, <2>5, <3>1, <3>2, Zenon
  <2>11. PICK h : h = e[i] - a
    OBVIOUS
  <2>12. h \in Nat /\ a + h = e[i] /\ a + (h + Len(fr)) = e[j]
    BY <2>9, <2>10, <2>11
  <2>13. IsRest(p.bytes, w, a, z - a)
    BY DEF Holds
  <2>14. CASE e[j] <= z
    <3>1. PICK g, q : g = h + Len(fr) /\ q = z - a
      OBVIOUS
    <3>2. g \in 0..q /\ q \in Nat /\ a + g = e[j] /\ q - g = z - e[j] /\ h + Len(fr) <= q
      BY <1>1, <2>9, <2>10, <2>12, <2>14, <3>1
    <3>3. PICK k, t : /\ IsKept(k, m, Len(m)) /\ Scan(p) = Ended(k, t)
                      /\ IsRest(t, p.bytes, h + Len(fr), Len(p.bytes) - (h + Len(fr)))
      BY <2>6, <2>7, <2>9, <2>11, <3>1, <3>2, ScanFrame
    <3>4. IsRest(t, p.bytes, g, q - g) /\ IsRest(p.bytes, w, a, q)
      BY <2>9, <2>13, <3>1, <3>3, Zenon
    <3>5. IsRest(t, w, a + g, q - g)
      BY <2>9, <3>2, <3>4, RestOfRest
    <3>6. t \in Seq(Octets)
      BY <3>3 DEF IsRest
    <3>7. PICK sc : sc = Scan(p)
      OBVIOUS
    <3>8. ~CrcRaises(sc) /\ CrcValid(sc) /\ ~Raises(sc) /\ Parsed(sc) = r /\ Remaining(sc) = t
      BY <2>4, <2>5, <3>3, <3>6, <3>7, FrameRead
    <3>9. sc.ended /\ sc.parsing /\ sc.escaped = FALSE
      BY <3>3, <3>7 DEF Ended
    <3>10. IsRest(Remaining(sc), w, e[j], z - e[j])
      BY <3>2, <3>5, <3>8, Zenon
    <3> QED
      BY <2>1, <2>2, <2>3, <2>14, <3>7, <3>8, <3>9, <3>10, Zenon DEF ReadsNext
  <2>15. CASE ~(e[j] <= z)
    <3>1. z < e[j] /\ e[i] < z
      BY <1>1, <1>4, <2>1, <2>9, <2>10, <2>15
    <3>2. ~s.whole
      <4>1. SUFFICES ASSUME s.whole PROVE FALSE
        OBVIOUS
      <4>2. PICK y \in i..n : z = e[y]
        BY <4>1 DEF Holds
      <4>3. y # i /\ y \in 0..n /\ y # j
        BY <1>1, <2>9, <2>10, <3>1, <4>2
      <4>4. j < y
        BY <1>1, <2>1, <4>3
      <4>5. e[j] < e[y]
        BY <2>2, <4>3, <4>4 DEF IsStream
      <4> QED
        BY <1>1, <2>10, <3>1, <4>2, <4>5
    <3>3. \A y \in 1..Len(m) : m[y] \notin NeedEscape
      <4>1. \A y \in DOMAIN Body(r) : Body(r)[y] \notin NeedEscape
        BY <2>4, <3>2 DEF Fits
      <4>2. DOMAIN m = 1..Len(m)
        BY <2>6, LenProperties
      <4> QED
        BY <2>5, <4>1, <4>2
    <3>4. h < Len(p.bytes) /\ Len(p.bytes) < h + Len(fr)
      BY <1>1, <2>9, <2>10, <2>12, <3>1
    <3>5. PICK k : Scan(p) = Keeps(k) /\ IsRest(k, p.bytes, h, Len(p.bytes) - h)
      BY <2>6, <2>7, <2>9, <2>11, <3>3, <3>4, ScanPart
    <3>6. PICK q : q = z - a
      OBVIOUS
    <3>7. h \in 0..q /\ q \in Nat /\ q - h = z - e[i] /\ Len(p.bytes) = q
      BY <1>1, <2>9, <2>12, <3>1, <3>6
    <3>8. IsRest(k, p.bytes, h, q - h) /\ IsRest(p.bytes, w, a, q)
      BY <2>13, <3>5, <3>6, <3>7, Zenon
    <3>9. IsRest(k, w, a + h, q - h)
      BY <2>9, <3>7, <3>8, RestOfRest
    <3>10. IsRest(k, w, e[i], z - e[i])
      BY <2>12, <3>7, <3>9, Zenon
    <3>11. /\ Scan(p).ended = FALSE /\ Scan(p).escaped = FALSE /\ Scan(p).parsing = TRUE
           /\ Scan(p).kept = k
      BY <3>5 DEF Keeps
    <3>12. e[i] <= z /\ z < e[i + 1]
      BY <1>1, <2>1, <2>9, <3>1
    <3> QED
      BY <3>10, <3>11, <3>12 DEF ReadsOn
  <2> QED
    BY <2>14, <2>15
<1> QED
  BY <1>2, <1>3, <1>4

----------------------------------------------------------------------------
(***************************************************************************)
(* The answers: one for each of the client's own requests handled, in      *)
(* their order.                                                            *)
(***************************************************************************)
OwnTo(s, i) == {j \in 1..i : s.requests[j].addr = Address}

AllAnswers == {Answer(r) : r \in Request}

(* an are the answers to the first t requests of s.                        *)
Answered(s, an, t) ==
    /\ an \in Seq(AllAnswers) /\ Len(an) = Cardinality(OwnTo(s, t))
    /\ \A j \in OwnTo(s, t) : an[Cardinality(OwnTo(s, j))] = Answer(s.requests[j])

LEMMA OwnFinite ==
  ASSUME NEW s, NEW i \in Nat
  PROVE  IsFiniteSet(OwnTo(s, i)) /\ Cardinality(OwnTo(s, i)) \in Nat
<1>1. IsFiniteSet(1..i)
  BY FS_Interval
<1>2. OwnTo(s, i) \in SUBSET (1..i)
  BY DEF OwnTo
<1>3. IsFiniteSet(OwnTo(s, i))
  BY <1>1, <1>2, FS_Subset
<1> QED
  BY <1>3, FS_CardinalityType

LEMMA OwnMore ==
  ASSUME NEW s, NEW i \in Nat, NEW j \in Nat, i <= j
  PROVE  /\ OwnTo(s, i) \subseteq OwnTo(s, j)
         /\ Cardinality(OwnTo(s, i)) <= Cardinality(OwnTo(s, j))
<1>1. OwnTo(s, i) \subseteq OwnTo(s, j)
  BY DEF OwnTo
<1>2. IsFiniteSet(OwnTo(s, j))
  BY OwnFinite
<1> QED
  BY <1>1, <1>2, FS_Subset

LEMMA OwnNext ==
  ASSUME NEW s, NEW i \in Nat, NEW j \in Nat, j = i + 1
  PROVE  /\ s.requests[j].addr = Address =>
              /\ OwnTo(s, j) = OwnTo(s, i) \cup {j}
              /\ Cardinality(OwnTo(s, j)) = Cardinality(OwnTo(s, i)) + 1
         /\ s.requests[j].addr # Address => OwnTo(s, j) = OwnTo(s, i)
<1>1. \A k : k \in 1..j <=> k \in 1..i \/ k = j
  OBVIOUS
<1>2. CASE s.requests[j].addr = Address
  <2>1. OwnTo(s, j) = OwnTo(s, i) \cup {j}
    BY <1>1, <1>2 DEF OwnTo
  <2>2. j \notin OwnTo(s, i)
    BY DEF OwnTo
  <2>3. Cardinality(OwnTo(s, j)) = Cardinality(OwnTo(s, i)) + 1
    BY <2>1, <2>2, OwnFinite, FS_AddElement
  <2> QED
    BY <1>2, <2>1, <2>3
<1>3. CASE s.requests[j].addr # Address
  <2>1. OwnTo(s, j) = OwnTo(s, i)
    BY <1>1, <1>3 DEF OwnTo
  <2> QED
    BY <1>3, <2>1
<1> QED
  BY <1>2, <1>3

LEMMA AnsweredNext ==
  ASSUME NEW s, NEW an, NEW t \in Nat, Answered(s, an, t),
         NEW u \in Nat, u = t + 1, s.requests[u].addr = Address, s.requests[u] \in Request
  PROVE  Answered(s, Append(an, Answer(s.requests[u])), u)
<1>1. /\ OwnTo(s, u) = OwnTo(s, t) \cup {u}
      /\ Cardinality(OwnTo(s, u)) = Cardinality(OwnTo(s, t)) + 1
  BY OwnNext
<1>2. PICK x : x = Answer(s.requests[u])
  OBVIOUS
<1>3. x \in AllAnswers
  BY <1>2 DEF AllAnswers
<1>4. PICK g : g = Append(an, x)
  OBVIOUS
<1>5. an \in Seq(AllAnswers) /\ Len(an) = Cardinality(OwnTo(s, t)) /\ Len(an) \in Nat
  BY OwnFinite DEF Answered
<1>6. /\ g \in Seq(AllAnswers) /\ Len(g) = Len(an) + 1 /\ g[Len(an) + 1] = x
      /\ \A k \in 1..Len(an) : g[k] = an[k]
  BY <1>3, <1>4, <1>5, AppendProperties
<1>7. ASSUME NEW j \in OwnTo(s, u)
      PROVE  g[Cardinality(OwnTo(s, j))] = Answer(s.requests[j])
  <2>1. CASE j = u
    <3>1. Cardinality(OwnTo(s, j)) = Len(an) + 1
      BY <1>1, <1>5, <2>1
    <3> QED
      BY <1>2, <1>6, <2>1, <3>1, Zenon
  <2>2. CASE j # u
    <3>1. j \in OwnTo(s, t)
      BY <1>1, <2>2
    <3>2. j \in Nat /\ j <= t /\ j \in OwnTo(s, j)
      BY <3>1 DEF OwnTo
    <3>3. PICK k : k = Cardinality(OwnTo(s, j))
      OBVIOUS
    <3>4. k \in Nat /\ k <= Len(an)
      BY <1>5, <3>2, <3>3, OwnFinite, OwnMore
    <3>5. k # 0
      BY <3>2, <3>3, OwnFinite, FS_EmptySet
    <3>6. k \in 1..Len(an)
      BY <1>5, <3>4, <3>5
    <3>7. an[k] = Answer(s.requests[j])
      BY <3>1, <3>3 DEF Answered
    <3> QED
      BY <1>6, <3>3, <3>6, <3>7
  <2> QED
    BY <2>1, <2>2
<1>8. Len(g) = Cardinality(OwnTo(s, u))
  BY <1>1, <1>5, <1>6
<1>9. Answered(s, g, u)
  BY <1>6, <1>7, <1>8 DEF Answered
<1> QED
  BY <1>2, <1>4, <1>9

LEMMA AnsweredOther ==
  ASSUME NEW s, NEW an, NEW t \in Nat, Answered(s, an, t),
         NEW u \in Nat, u = t + 1, s.requests[u].addr # Address
  PROVE  Answered(s, an, u)
<1>1. OwnTo(s, u) = OwnTo(s, t)
  BY OwnNext
<1> QED
  BY <1>1 DEF Answered

LEMMA AnsweredFirst == ASSUME NEW s PROVE Answered(s, <<>>, 0)
<1>1. OwnTo(s, 0) = {}
  BY DEF OwnTo
<1>2. Cardinality(OwnTo(s, 0)) = 0
  BY <1>1, FS_EmptySet
<1> QED
  BY <1>1, <1>2 DEF Answered

(* What the answers to the first t of n requests say of all n.             *)
LEMMA AnswersAre ==
  ASSUME NEW s, NEW an, NEW n \in Nat, NEW t \in 0..n, Answered(s, an, t)
  PROVE  /\ Len(an) <= Cardinality(OwnTo(s, n))
         /\ \A i \in OwnTo(s, n) :
              Cardinality(OwnTo(s, i)) <= Len(an) =>
                an[Cardinality(OwnTo(s, i))] = Answer(s.requests[i])
<1>1. Len(an) <= Cardinality(OwnTo(s, n))
  BY OwnMore DEF Answered
<1>2. ASSUME NEW i \in OwnTo(s, n), Cardinality(OwnTo(s, i)) <= Len(an)
      PROVE  an[Cardinality(OwnTo(s, i))] = Answer(s.requests[i])
  <2>1. i \in Nat /\ i \in 1..n /\ s.requests[i].addr = Address
    BY DEF OwnTo
  <2>2. CASE i <= t
    <3>1. i \in OwnTo(s, t)
      BY <2>1, <2>2 DEF OwnTo
    <3> QED
      BY <3>1 DEF Answered
  <2>3. CASE ~(i <= t)
    <3>1. PICK j : j = i - 1
      OBVIOUS
    <3>2. j \in Nat /\ t <= j /\ i = j + 1
      BY <2>1, <2>3, <3>1
    <3>3. Cardinality(OwnTo(s, i)) = Cardinality(OwnTo(s, j)) + 1
      BY <2>1, <3>2, OwnNext
    <3>4. Cardinality(OwnTo(s, t)) <= Cardinality(OwnTo(s, j))
      BY <3>2, OwnMore
    <3>5. Cardinality(OwnTo(s, t)) \in Nat /\ Cardinality(OwnTo(s, j)) \in Nat
      BY <3>2, OwnFinite
    <3>6. Len(an) = Cardinality(OwnTo(s, t))
      BY DEF Answered
    <3> QED
      BY <1>2, <3>3, <3>4, <3>5, <3>6
  <2> QED
    BY <2>2, <2>3
<1> QED
  BY <1>1, <1>2

----------------------------------------------------------------------------
(***************************************************************************)
(* What holds of a connection.                                             *)
(***************************************************************************)
Ends(s) == [i \in 0..Len(s.requests) |-> Len(WireTo(s, i))]

(* The parser p has received z bytes of what s says, and get_request has   *)
(* returned the first i requests.                                          *)
Got(p, s, i, z) ==
    /\ p \in APart /\ z \in 0..Len(Wire(s))
    /\ p.parsing => /\ Ends(s)[i] <= z /\ IsRest(p.bytes, Wire(s), Ends(s)[i], z - Ends(s)[i])
                    /\ s.whole => \E j \in i..Len(s.requests) : z = Ends(s)[j]
    /\ ~p.parsing => i = 0 /\ p.bytes = <<>> /\ z <= Ends(s)[0]

LEMMA EndsAre ==
  ASSUME NEW s \in Streams
  PROVE  /\ IsStream(Wire(s), s, Ends(s)) /\ Wire(s) \in Seq(Octets)
         /\ Len(Wire(s)) \in Nat /\ Len(s.requests) \in Nat
         /\ \A i \in 0..Len(s.requests) : Ends(s)[i] \in Nat
<1>1. IsStream(Wire(s), s, Ends(s))
  BY StreamIs DEF Ends
<1>2. Wire(s) \in Seq(Octets)
  BY <1>1 DEF IsStream
<1> QED
  BY <1>1, <1>2, SeqIs DEF IsStream

LEMMA GotHolds ==
  ASSUME NEW s \in Streams, NEW i \in 0..Len(s.requests), NEW p, NEW z, Got(p, s, i, z),
         p.parsing
  PROVE  Holds(p, Wire(s), s, Ends(s), i, Ends(s)[i], z)
<1>1. Len(Wire(s)) \in Nat /\ Ends(s)[i] \in Nat
  BY EndsAre
<1>2. z \in 0..Len(Wire(s)) /\ Ends(s)[i] <= z /\ p \in APart
  BY DEF Got
<1>3. z \in Ends(s)[i]..Len(Wire(s))
  BY <1>1, <1>2
<1> QED
  BY <1>1, <1>2, <1>3 DEF Got, Holds

LEMMA RestGlue ==
  ASSUME NEW b, NEW t, NEW w, NEW a \in Nat, NEW m \in Nat, NEW k \in Nat, NEW z, z = a + m,
         IsRest(b, w, a, m), IsRest(t, w, z, k)
  PROVE  IsRest(Glued(b, t), w, a, m + k)
<1>1. b \in Seq(Octets) /\ t \in Seq(Octets) /\ Len(b) = m /\ Len(t) = k
  BY DEF IsRest
<1>2. PICK g : g = Glued(b, t)
  OBVIOUS
<1>3. g \in Seq(Octets) /\ Begins(b, g) /\ Follows(t, b, g)
  BY <1>1, <1>2, Join
<1>4. Len(g) = m + k
  BY <1>1, <1>3 DEF Follows
<1>5. ASSUME NEW y \in 1..(m + k) PROVE g[y] = w[a + y]
  <2>1. CASE y <= m
    <3>1. y \in 1..m
      BY <2>1
    <3> QED
      BY <1>1, <1>3, <3>1 DEF Begins, IsRest
  <2>2. CASE ~(y <= m)
    <3>1. PICK i : i = y - m
      OBVIOUS
    <3>2. i \in 1..k /\ m + i = y /\ z + i = a + y
      BY <2>2, <3>1
    <3>3. g[m + i] = t[i] /\ t[i] = w[z + i]
      BY <1>1, <1>3, <3>2 DEF Follows, IsRest
    <3> QED
      BY <3>2, <3>3, Zenon
  <2> QED
    BY <2>1, <2>2
<1> QED
  BY <1>2, <1>3, <1>4, <1>5 DEF IsRest

LEMMA Across ==
  ASSUME NEW a \in Nat, NEW z \in Nat, NEW y \in Nat, NEW k \in Nat, a <= z, y - z = k
  PROVE  z - a \in Nat /\ z = a + (z - a) /\ z - a + k = y - a /\ a <= y
OBVIOUS

(* recv returns k more bytes.                                              *)
LEMMA GotMore ==
  ASSUME NEW s \in Streams, NEW i \in 0..Len(s.requests), NEW p, NEW z, Got(p, s, i, z),
         NEW com, IsRest(com, Wire(s), z, Len(Wire(s)) - z), NEW k \in DOMAIN com,
         s.whole => \E j \in DOMAIN s.requests : Len(com) - k = After(s, j),
         NEW q, q = [p EXCEPT !.bytes = p.bytes \o SubSeq(com, 1, k)]
  PROVE  /\ \E a : Holds(q, Wire(s), s, Ends(s), i, a, z + k)
         /\ IsRest(SubSeq(com, k + 1, Len(com)), Wire(s), z + k, Len(Wire(s)) - (z + k))
         /\ z + k \in 0..Len(Wire(s))
<1> DEFINE w == Wire(s)
           e == Ends(s)
           n == Len(s.requests)
<1>1. /\ IsStream(w, s, e) /\ w \in Seq(Octets) /\ Len(w) \in Nat /\ n \in Nat
      /\ \A j \in 0..n : e[j] \in Nat
  BY EndsAre
<1>2. z \in Nat /\ z <= Len(w) /\ p \in APart
  BY <1>1 DEF Got
<1>3. PICK v : v = Len(w) - z
  OBVIOUS
<1>4. v \in Nat /\ IsRest(com, w, z, v) /\ com \in Seq(Octets) /\ Len(com) = v
  BY <1>1, <1>2, <1>3 DEF IsRest
<1>5. k \in 1..v
  BY <1>4, LenProperties
<1>6. PICK y : y = z + k
  OBVIOUS
<1>7. y \in Nat /\ y <= Len(w) /\ v - k = Len(w) - y /\ y - z = k /\ z < y /\ k \in Nat /\ k <= v
  BY <1>1, <1>2, <1>3, <1>5, <1>6
<1> HIDE DEF w, e
<1>8. IsRest(SubSeq(com, 1, k), w, z, k)
  <2>1. IsRest(SubSeq(com, 0 + 1, k), com, 0, k - 0)
    <3>1. 0 \in Nat /\ 0 <= k /\ k <= Len(com)
      BY <1>4, <1>7
    <3> QED
      BY <1>4, <1>7, <3>1, PieceIs, Zenon
  <2>2. 0 + 1 = 1 /\ k - 0 = k
    BY <1>7
  <2>3. IsRest(SubSeq(com, 1, k), com, 0, k)
    BY <2>1, <2>2, Zenon
  <2>4. ASSUME NEW x \in 1..k PROVE SubSeq(com, 1, k)[x] = w[z + x]
    <3>1. x \in 1..v /\ 0 + x = x
      BY <1>4, <1>5
    <3>2. com[x] = w[z + x]
      BY <1>4, <3>1 DEF IsRest
    <3>3. SubSeq(com, 1, k)[x] = com[0 + x]
      BY <2>3 DEF IsRest
    <3> QED
      BY <3>1, <3>2, <3>3, Zenon
  <2> QED
    BY <2>3, <2>4 DEF IsRest
<1>9. IsRest(SubSeq(com, k + 1, Len(com)), w, y, Len(w) - y)
  <2>1. IsRest(SubSeq(com, k + 1, v), com, k, v - k)
    BY <1>4, <1>7, PieceIs
  <2>2. k \in 0..v
    BY <1>7
  <2>3. IsRest(SubSeq(com, k + 1, v), w, z + k, v - k)
    BY <1>2, <1>4, <2>1, <2>2, RestOfRest
  <2> QED
    BY <1>4, <1>6, <1>7, <2>3, Zenon
<1>10. PICK a : a = IF p.parsing THEN e[i] ELSE z
  OBVIOUS
<1>11. p.parsing \in BOOLEAN /\ p.escaped = FALSE /\ p.bytes \in Seq(Octets)
  BY <1>2 DEF APart
<1>12. a \in Nat /\ a <= z /\ IsRest(p.bytes, w, a, z - a)
  <2>1. CASE p.parsing
    <3>1. a = e[i] /\ e[i] <= z /\ IsRest(p.bytes, w, e[i], z - e[i])
      BY <1>10, <2>1 DEF Got, w, e
    <3> QED
      BY <1>1, <3>1
  <2>2. CASE ~p.parsing
    <3>1. a = z /\ p.bytes = <<>> /\ z - z = 0
      BY <1>2, <1>10, <2>2 DEF Got
    <3>2. IsRest(<<>>, w, z, 0)
      BY DEF IsRest
    <3>3. IsRest(p.bytes, w, a, z - a)
      BY <3>1, <3>2, Zenon
    <3>4. a \in Nat /\ a <= z
      BY <1>2, <3>1
    <3> QED
      BY <3>3, <3>4
  <2> QED
    BY <2>1, <2>2
<1>13. PICK x : x = z - a
  OBVIOUS
<1>14. x \in Nat /\ z = a + x /\ x + k = y - a /\ a <= y
  <2>1. z \in Nat /\ a \in Nat /\ a <= z /\ y \in Nat /\ y - z = k /\ z < y /\ k \in Nat
    BY <1>2, <1>7, <1>12
  <2>2. z - a \in Nat /\ z = a + (z - a) /\ z - a + k = y - a /\ a <= y
    BY <2>1, Across
  <2> QED
    BY <1>13, <2>2, Zenon
<1>15. PICK g : g = Glued(p.bytes, SubSeq(com, 1, k))
  OBVIOUS
<1>16. IsRest(g, w, a, y - a)
  <2>1. IsRest(p.bytes, w, a, x)
    BY <1>12, <1>13, Zenon
  <2>2. IsRest(g, w, a, x + k)
    BY <1>7, <1>8, <1>12, <1>14, <1>15, <2>1, RestGlue
  <2> QED
    BY <1>14, <2>2, Zenon
<1>17. q \in APart /\ q.bytes = g /\ q.parsing = p.parsing
  <2>1. g \in Seq(Octets)
    BY <1>16 DEF IsRest
  <2>2. q = [p EXCEPT !.bytes = g]
    BY <1>15, Zenon DEF Glued
  <2> QED
    BY <1>2, <2>1, <2>2 DEF APart
<1>18. p.parsing => a = e[i]
  BY <1>10
<1>19. ~p.parsing => i = 0 /\ a <= e[0]
  BY <1>10 DEF Got, e
<1>20. ASSUME s.whole PROVE \E j \in i..n : y = e[j]
  <2>1. PICK j \in DOMAIN s.requests : Len(com) - k = After(s, j)
    BY <1>20
  <2>2. DOMAIN s.requests = 1..n
    BY LenProperties, KamstrupMeterAssumption
  <2>3. j \in 1..n /\ j \in 0..n
    BY <1>1, <2>1, <2>2
  <2>4. After(s, j) = Len(w) - e[j] /\ e[j] \in Nat
    BY <1>1, <2>3 DEF After, Ends, w, e
  <2>5. y = e[j]
    BY <1>1, <1>4, <1>7, <2>1, <2>4
  <2>6. i <= j
    <3>1. CASE p.parsing
      <4>1. e[i] <= z /\ e[i] \in Nat
        BY <1>1, <3>1 DEF Got, e
      <4>2. SUFFICES ASSUME ~(i <= j) PROVE FALSE
        OBVIOUS
      <4>3. j < i
        BY <1>1, <2>3, <4>2
      <4>4. e[j] < e[i]
        BY <1>1, <2>3, <4>3 DEF IsStream
      <4> QED
        BY <1>2, <1>7, <2>4, <2>5, <4>1, <4>4
    <3>2. CASE ~p.parsing
      <4>1. i = 0
        BY <3>2 DEF Got
      <4> QED
        BY <2>3, <4>1
    <3> QED
      BY <3>1, <3>2
  <2>7. j \in i..n
    BY <1>1, <2>3, <2>6
  <2> QED
    BY <2>5, <2>7
<1>21. y \in a..Len(w)
  BY <1>1, <1>7, <1>12, <1>14
<1>22. Holds(q, w, s, e, i, a, y)
  BY <1>12, <1>16, <1>17, <1>18, <1>19, <1>20, <1>21 DEF Holds
<1>23. y \in 0..Len(w)
  BY <1>1, <1>7
<1> QED
  BY <1>6, <1>9, <1>22, <1>23 DEF w, e

LEMMA GotNext ==
  ASSUME NEW s \in Streams, NEW i, NEW q, NEW a, NEW z, NEW j, j = i + 1,
         Holds(q, Wire(s), s, Ends(s), i, a, z), ReadsNext(q, Wire(s), s, Ends(s), i, z)
  PROVE  /\ Got([bytes |-> Remaining(Scan(q)), parsing |-> TRUE, escaped |-> FALSE], s, j, z)
         /\ Parsed(Scan(q)) = s.requests[j] /\ j \in 1..Len(s.requests)
<1> DEFINE w == Wire(s)
           e == Ends(s)
           n == Len(s.requests)
           t == Remaining(Scan(q))
<1>1. /\ IsStream(w, s, e) /\ Len(w) \in Nat /\ n \in Nat /\ \A k \in 0..n : e[k] \in Nat
  BY EndsAre
<1>2. i \in 0..n /\ a \in Nat /\ z \in a..Len(w)
  BY DEF Holds
<1>3. /\ i < n /\ e[j] <= z /\ IsRest(t, w, e[j], z - e[j])
      /\ Parsed(Scan(q)) = s.requests[j]
  BY DEF ReadsNext
<1>4. j \in 1..n /\ j \in 0..n /\ z \in 0..Len(w) /\ i < j
  BY <1>1, <1>2, <1>3
<1>5. ASSUME s.whole PROVE \E k \in j..n : z = e[k]
  <2>1. PICK k \in i..n : z = e[k]
    BY <1>5 DEF Holds
  <2>2. e[i] < e[j]
    BY <1>1, <1>2, <1>4 DEF IsStream
  <2>3. e[i] \in Nat /\ e[j] \in Nat
    BY <1>1, <1>2, <1>4
  <2>4. k # i
    BY <1>3, <2>1, <2>2, <2>3
  <2>5. k \in j..n
    BY <1>1, <1>2, <2>1, <2>4
  <2> QED
    BY <2>1, <2>5
<1>6. PICK p : p = [bytes |-> t, parsing |-> TRUE, escaped |-> FALSE]
  OBVIOUS
<1>7. p \in APart /\ p.parsing = TRUE /\ p.bytes = t
  <2>1. t \in Seq(Octets)
    BY <1>3 DEF IsRest
  <2> HIDE DEF t
  <2> QED
    BY <1>6, <2>1 DEF APart
<1>8. Got(p, s, j, z)
  BY <1>3, <1>4, <1>5, <1>7 DEF Got
<1> QED
  BY <1>3, <1>4, <1>6, <1>8

LEMMA GotOn ==
  ASSUME NEW s \in Streams, NEW i, NEW q, NEW a, NEW z,
         Holds(q, Wire(s), s, Ends(s), i, a, z), ReadsOn(q, Wire(s), s, Ends(s), i, z),
         NEW p, p = [bytes |-> Scan(q).kept, parsing |-> Scan(q).parsing, escaped |-> FALSE]
  PROVE  Got(p, s, i, z)
<1> DEFINE w == Wire(s)
           e == Ends(s)
           n == Len(s.requests)
<1>1. Len(w) \in Nat
  BY EndsAre
<1>2. a \in Nat /\ z \in a..Len(w)
  BY DEF Holds
<1>3. z \in 0..Len(w)
  BY <1>1, <1>2
<1>4. PICK sc : sc = Scan(q)
  OBVIOUS
<1>5. /\ sc.parsing \in BOOLEAN
      /\ sc.parsing => e[i] <= z /\ IsRest(sc.kept, w, e[i], z - e[i])
      /\ ~sc.parsing => i = 0 /\ sc.kept = <<>> /\ z <= e[0]
  BY <1>4 DEF ReadsOn
<1>6. sc.kept \in Seq(Octets)
  <2>1. CASE sc.parsing
    BY <1>5, <2>1 DEF IsRest
  <2>2. CASE ~sc.parsing
    BY <1>5, <2>2, EmptySeq
  <2> QED
    BY <2>1, <2>2
<1>7. p = [bytes |-> sc.kept, parsing |-> sc.parsing, escaped |-> FALSE]
  BY <1>4
<1>8. p \in APart /\ p.parsing = sc.parsing /\ p.bytes = sc.kept
  BY <1>5, <1>6, <1>7 DEF APart
<1>9. s.whole => \E j \in i..n : z = e[j]
  BY DEF Holds
<1> QED
  BY <1>3, <1>5, <1>8, <1>9 DEF Got

(* The first requests of s are those in h.                                 *)
AreFirst(h, s) ==
    /\ h \in Seq(Request) /\ Len(h) <= Len(s.requests)
    /\ \A j \in 1..Len(h) : h[j] = s.requests[j]

Waits(s, h, z) ==
    \/ Len(h) = Len(s.requests)
    \/ z < Ends(s)[Len(h) + 1]
    \/ h # <<>> /\ Last(h).addr # Address

Unserved(s, com, p, ph, h, an) ==
    /\ s = Nothing /\ com = <<>> /\ p = NoBytes
    /\ ph = "new" /\ h = <<>> /\ an = <<>>

(* A connection that has said s, z bytes of which have been received, and  *)
(* whose first t requests have had their answers.                          *)
Served(s, com, p, ph, h, an, z, t) ==
    /\ s \in Streams /\ AreFirst(h, s)
    /\ Got(p, s, Len(h), z) /\ IsRest(com, Wire(s), z, Len(Wire(s)) - z)
    /\ t \in 0..Len(h) /\ Answered(s, an, t)
    /\ ph \in {"recv", "answering", "closed"}
    /\ ph = "recv" => t = Len(h) /\ Waits(s, h, z)
    /\ ph = "answering" => Len(h) = t + 1

IsMap(f) == f = [c \in Conns |-> f[c]]

Maps == /\ IsMap(sent) /\ IsMap(coming) /\ IsMap(parser)
        /\ IsMap(pc) /\ IsMap(handled) /\ IsMap(answers)

ConnInv(c) ==
    \/ Unserved(sent[c], coming[c], parser[c], pc[c], handled[c], answers[c])
    \/ \E z, t : Served(sent[c], coming[c], parser[c], pc[c], handled[c], answers[c], z, t)

MeterInv == Maps /\ \A c \in Conns : ConnInv(c)

SameConn(d) ==
    /\ sent'[d] = sent[d] /\ coming'[d] = coming[d] /\ parser'[d] = parser[d]
    /\ pc'[d] = pc[d] /\ handled'[d] = handled[d] /\ answers'[d] = answers[d]

LEMMA OtherConn ==
  ASSUME NEW d \in Conns, ConnInv(d), SameConn(d)
  PROVE  ConnInv(d)'
  BY DEF ConnInv, SameConn

(* g is f with v at c.                                                     *)
Sets(g, f, c, v) ==
    /\ IsMap(g) /\ g[c] = v
    /\ \A d \in Conns : d # c => g[d] = f[d]

LEMMA MapExcept ==
  ASSUME NEW f, NEW g, NEW c \in Conns, NEW v, IsMap(f), g = [f EXCEPT ![c] = v]
  PROVE  Sets(g, f, c, v)
<1>1. g = [d \in Conns |-> IF d = c THEN v ELSE f[d]]
  BY DEF IsMap
<1>2. \A d \in Conns : g[d] = IF d = c THEN v ELSE f[d]
  BY <1>1
<1>3. g = [d \in Conns |-> g[d]]
  BY <1>1
<1> QED
  BY <1>2, <1>3 DEF IsMap, Sets

(* The next request is handed out, with the rest of the bytes kept, or     *)
(* there is none and the greenlet waits.                                   *)
LEMMA ParseReads ==
  ASSUME NEW s \in Streams, Fits(s), NEW c \in Conns,
         IsMap(parser), IsMap(pc), IsMap(handled),
         NEW q, NEW i, NEW a, NEW z, Holds(q, Wire(s), s, Ends(s), i, a, z), Parse(c, q)
  PROVE  /\ IsMap(parser') /\ IsMap(pc') /\ IsMap(handled')
         /\ \A d \in Conns : d # c =>
              parser'[d] = parser[d] /\ pc'[d] = pc[d] /\ handled'[d] = handled[d]
         /\ \/ /\ Got(parser'[c], s, i + 1, z) /\ i + 1 \in 1..Len(s.requests)
               /\ handled'[c] = Append(handled[c], s.requests[i + 1])
               /\ pc'[c] = "answering"
            \/ /\ Got(parser'[c], s, i, z) /\ handled'[c] = handled[c]
               /\ i = Len(s.requests) \/ z < Ends(s)[i + 1]
               /\ pc'[c] = Waiting(active)
<1> DEFINE w == Wire(s)
           e == Ends(s)
<1>0. IsStream(w, s, e)
  BY EndsAre
<1>1. PICK sc : sc = Scan(q)
  OBVIOUS
<1>2. /\ parser' = [parser EXCEPT ![c] =
                      [bytes |-> IF ~sc.ended THEN sc.kept
                                 ELSE IF CrcRaises(sc) THEN sc.kept \o <<EndOfText>> \o sc.rest
                                 ELSE Remaining(sc),
                       parsing |-> sc.parsing /\ (sc.ended => CrcRaises(sc) \/ CrcValid(sc)),
                       escaped |-> sc.escaped]]
      /\ IF sc.ended /\ ~Raises(sc)
           THEN /\ handled' = [handled EXCEPT ![c] = Append(@, Parsed(sc))]
                /\ pc' = [pc EXCEPT ![c] = "answering"]
           ELSE /\ pc' = [pc EXCEPT ![c] = IF sc.ended THEN "raised" ELSE Waiting(active)]
                /\ UNCHANGED handled
  BY <1>1, Zenon DEF Parse
<1>3. CASE ReadsNext(q, w, s, e, i, z)
  <2>1. PICK j : j = i + 1
    OBVIOUS
  <2>2. /\ Got([bytes |-> Remaining(sc), parsing |-> TRUE, escaped |-> FALSE], s, j, z)
        /\ Parsed(sc) = s.requests[j] /\ j \in 1..Len(s.requests)
    BY <1>1, <1>3, <2>1, GotNext
  <2>3. /\ sc.ended /\ sc.parsing /\ sc.escaped = FALSE
        /\ ~CrcRaises(sc) /\ CrcValid(sc) /\ ~Raises(sc)
    BY <1>1, <1>3 DEF ReadsNext
  <2>4. (sc.parsing /\ (sc.ended => CrcRaises(sc) \/ CrcValid(sc))) = TRUE
    BY <2>3
  <2>5. (IF ~sc.ended THEN sc.kept
         ELSE IF CrcRaises(sc) THEN sc.kept \o <<EndOfText>> \o sc.rest ELSE Remaining(sc))
          = Remaining(sc)
    BY <2>3, Zenon
  <2>6. PICK p, h : /\ p = [bytes |-> Remaining(sc), parsing |-> TRUE, escaped |-> FALSE]
                    /\ h = Append(handled[c], Parsed(sc))
    OBVIOUS
  <2>7. /\ parser' = [parser EXCEPT ![c] = p] /\ handled' = [handled EXCEPT ![c] = h]
        /\ pc' = [pc EXCEPT ![c] = "answering"]
    BY <1>2, <2>3, <2>4, <2>5, <2>6, Zenon
  <2>8. Sets(parser', parser, c, p)
    BY <2>7, MapExcept
  <2>9. Sets(handled', handled, c, h)
    BY <2>7, MapExcept
  <2>10. Sets(pc', pc, c, "answering")
    BY <2>7, MapExcept
  <2>11. /\ Got(parser'[c], s, i + 1, z) /\ i + 1 \in 1..Len(s.requests)
         /\ handled'[c] = Append(handled[c], s.requests[i + 1])
    BY <2>1, <2>2, <2>6, <2>8, <2>9, Zenon DEF Sets
  <2> QED
    BY <2>8, <2>9, <2>10, <2>11 DEF Sets
<1>4. CASE ReadsOn(q, w, s, e, i, z)
  <2>1. /\ sc.ended = FALSE /\ sc.escaped = FALSE /\ sc.parsing \in BOOLEAN
        /\ i = Len(s.requests) \/ z < e[i + 1]
    BY <1>1, <1>4 DEF ReadsOn
  <2>2. PICK p : p = [bytes |-> sc.kept, parsing |-> sc.parsing, escaped |-> FALSE]
    OBVIOUS
  <2>3. Got(p, s, i, z)
    BY <1>1, <1>4, <2>2, GotOn
  <2>4. (sc.parsing /\ (sc.ended => CrcRaises(sc) \/ CrcValid(sc))) = sc.parsing
    BY <2>1, Zenon
  <2>5. (IF ~sc.ended THEN sc.kept
         ELSE IF CrcRaises(sc) THEN sc.kept \o <<EndOfText>> \o sc.rest ELSE Remaining(sc))
          = sc.kept
    BY <2>1, Zenon
  <2>6. parser' = [parser EXCEPT ![c] = p]
    BY <1>2, <2>1, <2>2, <2>4, <2>5, Zenon
  <2>7. pc' = [pc EXCEPT ![c] = Waiting(active)] /\ handled' = handled
    BY <1>2, <2>1, Zenon
  <2>8. Sets(parser', parser, c, p)
    BY <2>6, MapExcept
  <2>9. Sets(pc', pc, c, Waiting(active))
    <3>1. PICK v : v = Waiting(active)
      OBVIOUS
    <3>2. pc' = [pc EXCEPT ![c] = v]
      BY <2>7, <3>1
    <3>3. Sets(pc', pc, c, v)
      BY <3>2, MapExcept
    <3> QED
      BY <3>1, <3>3
  <2>10. IsMap(handled') /\ \A d \in Conns : handled'[d] = handled[d]
    BY <2>7
  <2> QED
    BY <2>1, <2>3, <2>8, <2>9, <2>10 DEF Sets
<1> QED
  BY <1>0, <1>3, <1>4, Reads

LEMMA FirstMoreOf ==
  ASSUME NEW s \in Streams, NEW h, AreFirst(h, s), NEW j, j = Len(h) + 1, j \in 1..Len(s.requests)
  PROVE  /\ AreFirst(Append(h, s.requests[j]), s) /\ Len(Append(h, s.requests[j])) = j
<1>1. h \in Seq(Request) /\ Len(h) \in Nat /\ \A k \in 1..Len(h) : h[k] = s.requests[k]
  BY SeqIs DEF AreFirst
<1>2. PICK r : r = s.requests[j]
  OBVIOUS
<1>3. r \in Request
  BY <1>2, RequestsAre
<1>4. PICK g : g = Append(h, r)
  OBVIOUS
<1>5. /\ g \in Seq(Request) /\ Len(g) = Len(h) + 1 /\ g[Len(h) + 1] = r
      /\ \A k \in 1..Len(h) : g[k] = h[k]
  BY <1>1, <1>3, <1>4, AppendProperties
<1>6. Len(g) = j /\ g[j] = s.requests[j]
  BY <1>2, <1>5
<1>7. ASSUME NEW k \in 1..j PROVE g[k] = s.requests[k]
  <2>1. CASE k = j
    BY <1>6, <2>1
  <2>2. CASE k # j
    <3>1. k \in 1..Len(h)
      BY <1>1, <2>2
    <3> QED
      BY <1>1, <1>5, <3>1
  <2> QED
    BY <2>1, <2>2
<1>8. j <= Len(s.requests)
  BY RequestsAre
<1> QED
  BY <1>2, <1>4, <1>5, <1>6, <1>7, <1>8 DEF AreFirst

LEMMA ParseServes ==
  ASSUME NEW s \in Streams, Fits(s), NEW c \in Conns,
         IsMap(parser), IsMap(pc), IsMap(handled), AreFirst(handled[c], s),
         NEW i, i = Len(handled[c]),
         NEW q, NEW a, NEW z, Holds(q, Wire(s), s, Ends(s), i, a, z), Parse(c, q),
         NEW com, IsRest(com, Wire(s), z, Len(Wire(s)) - z),
         NEW an, Answered(s, an, i)
  PROVE  /\ IsMap(parser') /\ IsMap(pc') /\ IsMap(handled')
         /\ \A d \in Conns : d # c =>
              parser'[d] = parser[d] /\ pc'[d] = pc[d] /\ handled'[d] = handled[d]
         /\ Served(s, com, parser'[c], pc'[c], handled'[c], an, z, i)
<1>1. /\ IsMap(parser') /\ IsMap(pc') /\ IsMap(handled')
      /\ \A d \in Conns : d # c =>
           parser'[d] = parser[d] /\ pc'[d] = pc[d] /\ handled'[d] = handled[d]
      /\ \/ /\ Got(parser'[c], s, i + 1, z) /\ i + 1 \in 1..Len(s.requests)
            /\ handled'[c] = Append(handled[c], s.requests[i + 1])
            /\ pc'[c] = "answering"
         \/ /\ Got(parser'[c], s, i, z) /\ handled'[c] = handled[c]
            /\ i = Len(s.requests) \/ z < Ends(s)[i + 1]
            /\ pc'[c] = Waiting(active)
  BY ParseReads
<1>2. i \in Nat
  BY SeqIs DEF AreFirst
<1>3. CASE /\ Got(parser'[c], s, i + 1, z) /\ i + 1 \in 1..Len(s.requests)
           /\ handled'[c] = Append(handled[c], s.requests[i + 1])
           /\ pc'[c] = "answering"
  <2>1. PICK j : j = i + 1
    OBVIOUS
  <2>2. PICK h, p, ph : h = handled'[c] /\ p = parser'[c] /\ ph = pc'[c]
    OBVIOUS
  <2>3. Got(p, s, j, z) /\ j \in 1..Len(s.requests) /\ h = Append(handled[c], s.requests[j])
        /\ ph = "answering"
    BY <1>3, <2>1, <2>2
  <2>4. AreFirst(h, s) /\ Len(h) = j
    BY <2>1, <2>3, FirstMoreOf
  <2>5. i \in 0..Len(h) /\ Len(h) = i + 1
    BY <1>2, <2>1, <2>4
  <2>6. Got(p, s, Len(h), z)
    BY <2>3, <2>4
  <2>7. Served(s, com, p, ph, h, an, z, i)
    BY <2>3, <2>4, <2>5, <2>6 DEF Served
  <2> QED
    BY <1>1, <2>2, <2>7
<1>4. CASE /\ Got(parser'[c], s, i, z) /\ handled'[c] = handled[c]
           /\ i = Len(s.requests) \/ z < Ends(s)[i + 1]
           /\ pc'[c] = Waiting(active)
  <2>1. PICK h, p, ph : h = handled'[c] /\ p = parser'[c] /\ ph = pc'[c]
    OBVIOUS
  <2>2. /\ Got(p, s, i, z) /\ h = handled[c] /\ AreFirst(h, s) /\ Len(h) = i
    BY <1>4, <2>1
  <2>3. ph \in {"recv", "closed"}
    BY <1>4, <2>1 DEF Waiting
  <2>4. Waits(s, h, z)
    BY <1>4, <2>2 DEF Waits
  <2>5. i \in 0..i
    BY <1>2
  <2>6. Got(p, s, Len(h), z) /\ i \in 0..Len(h)
    BY <2>2, <2>5
  <2>7. Served(s, com, p, ph, h, an, z, i)
    BY <2>2, <2>3, <2>4, <2>6 DEF Served
  <2> QED
    BY <1>1, <2>1, <2>7
<1> QED
  BY <1>1, <1>3, <1>4

LEMMA MeterInit == Init => MeterInv
<1> SUFFICES ASSUME Init PROVE MeterInv
  OBVIOUS
<1>1. Maps
  BY DEF Init, Maps, IsMap
<1>2. \A c \in Conns : ConnInv(c)
  BY DEF Init, ConnInv, Unserved
<1> QED
  BY <1>1, <1>2 DEF MeterInv

LEMMA ConnectKeeps ==
  ASSUME MeterInv, NEW c \in Conns, NEW s \in Streams, Connect(c, s)
  PROVE  MeterInv'
<1>1. Unserved(sent[c], coming[c], parser[c], pc[c], handled[c], answers[c])
  BY DEF MeterInv, ConnInv, Connect, Served
<1>2. PICK w : w = Wire(s)
  OBVIOUS
<1>3. /\ sent' = [sent EXCEPT ![c] = s] /\ coming' = [coming EXCEPT ![c] = w]
      /\ pc' = [pc EXCEPT ![c] = "recv"]
      /\ parser' = parser /\ handled' = handled /\ answers' = answers
  BY <1>2 DEF Connect
<1>4. Sets(sent', sent, c, s) /\ Sets(coming', coming, c, w) /\ Sets(pc', pc, c, "recv")
  <2>1. IsMap(sent) /\ IsMap(coming) /\ IsMap(pc)
    BY DEF MeterInv, Maps
  <2>2. Sets(sent', sent, c, s)
    BY <1>3, <2>1, MapExcept
  <2>3. Sets(coming', coming, c, w)
    BY <1>3, <2>1, MapExcept
  <2>4. Sets(pc', pc, c, "recv")
    BY <1>3, <2>1, MapExcept
  <2> QED
    BY <2>2, <2>3, <2>4
<1>5. Maps'
  BY <1>3, <1>4 DEF MeterInv, Maps, Sets
<1>6. /\ IsStream(w, s, Ends(s)) /\ w \in Seq(Octets) /\ Len(w) \in Nat /\ Len(s.requests) \in Nat
      /\ \A i \in 0..Len(s.requests) : Ends(s)[i] \in Nat
  BY <1>2, EndsAre
<1>7. Got(NoBytes, s, 0, 0)
  <2>1. NoBytes \in APart /\ ~NoBytes.parsing /\ NoBytes.bytes = <<>>
    BY EmptySeq DEF NoBytes, APart
  <2>2. 0 \in 0..Len(w) /\ 0 <= Ends(s)[0]
    BY <1>6
  <2> QED
    BY <1>2, <2>1, <2>2 DEF Got
<1>8. IsRest(w, w, 0, Len(w) - 0)
  <2>1. Len(w) - 0 = Len(w) /\ \A i \in 1..Len(w) : 0 + i = i
    BY <1>6
  <2> QED
    BY <1>6, <2>1 DEF IsRest
<1>9. Waits(s, <<>>, 0)
  <2>1. CASE Len(s.requests) = 0
    BY <2>1 DEF Waits
  <2>2. CASE Len(s.requests) # 0
    <3>1. 0 \in 0..Len(s.requests) /\ 1 \in 0..Len(s.requests) /\ 0 < 1
      BY <1>6, <2>2
    <3>2. Ends(s)[0] < Ends(s)[1]
      BY <1>6, <3>1 DEF IsStream
    <3>3. 0 < Ends(s)[1]
      BY <1>6, <3>1, <3>2
    <3>4. Len(<<>>) + 1 = 1
      OBVIOUS
    <3> QED
      BY <3>3, <3>4, Zenon DEF Waits
  <2> QED
    BY <2>1, <2>2
<1>10. AreFirst(<<>>, s)
  BY <1>6, EmptySeq DEF AreFirst
<1>11. Len(<<>>) = 0 /\ 0 \in 0..0
  OBVIOUS
<1>12. Served(s, w, NoBytes, "recv", <<>>, <<>>, 0, 0)
  BY <1>2, <1>7, <1>8, <1>9, <1>10, <1>11, AnsweredFirst DEF Served
<1>13. /\ sent'[c] = s /\ coming'[c] = w /\ pc'[c] = "recv" /\ parser'[c] = NoBytes
       /\ handled'[c] = <<>> /\ answers'[c] = <<>>
  BY <1>1, <1>3, <1>4 DEF Sets, Unserved
<1>14. ConnInv(c)'
  BY <1>12, <1>13 DEF ConnInv
<1>15. ASSUME NEW d \in Conns, d # c PROVE ConnInv(d)'
  <2>1. SameConn(d)
    BY <1>3, <1>4, <1>15 DEF SameConn, Sets
  <2> QED
    BY <2>1, OtherConn DEF MeterInv
<1>16. (\A d \in Conns : ConnInv(d))'
  BY <1>14, <1>15
<1> QED
  BY <1>5, <1>16 DEF MeterInv

LEMMA ReceiveKeeps ==
  ASSUME MeterInv, \A s \in Streams : Fits(s),
         NEW c \in Conns, NEW k \in DOMAIN coming[c], Receive(c, k)
  PROVE  MeterInv'
<1>1. pc[c] = "recv"
  BY DEF Receive
<1>2. PICK z, t : Served(sent[c], coming[c], parser[c], pc[c], handled[c], answers[c], z, t)
  BY <1>1 DEF MeterInv, ConnInv, Unserved
<1>3. PICK s, com, p, h, an, i :
        /\ s = sent[c] /\ com = coming[c] /\ p = parser[c]
        /\ h = handled[c] /\ an = answers[c] /\ i = Len(h)
  OBVIOUS
<1>4. /\ s \in Streams /\ AreFirst(h, s) /\ Got(p, s, i, z)
      /\ IsRest(com, Wire(s), z, Len(Wire(s)) - z) /\ Answered(s, an, i) /\ Fits(s)
  BY <1>1, <1>2, <1>3 DEF Served
<1>5. i \in 0..Len(s.requests)
  BY <1>3, <1>4, SeqIs, RequestsAre DEF AreFirst
<1>6. PICK q : q = [p EXCEPT !.bytes = p.bytes \o SubSeq(com, 1, k)]
  OBVIOUS
<1>7. Parse(c, q)
  BY <1>3, <1>6 DEF Receive, Chunk
<1>8. PICK left, y : left = SubSeq(com, k + 1, Len(com)) /\ y = z + k
  OBVIOUS
<1>9. /\ coming' = [coming EXCEPT ![c] = left]
      /\ sent' = sent /\ answers' = answers
  BY <1>3, <1>8 DEF Receive
<1>10. s.whole => \E j \in DOMAIN s.requests : Len(com) - k = After(s, j)
  BY <1>3 DEF Receive
<1>11. /\ \E a : Holds(q, Wire(s), s, Ends(s), i, a, z + k)
       /\ IsRest(SubSeq(com, k + 1, Len(com)), Wire(s), z + k, Len(Wire(s)) - (z + k))
  BY <1>3, <1>4, <1>5, <1>6, <1>10, GotMore
<1>12. /\ \E a : Holds(q, Wire(s), s, Ends(s), i, a, y)
       /\ IsRest(left, Wire(s), y, Len(Wire(s)) - y)
  BY <1>8, <1>11, Zenon
<1>13. PICK a : Holds(q, Wire(s), s, Ends(s), i, a, y)
  BY <1>12
<1>14. /\ IsMap(parser) /\ IsMap(pc) /\ IsMap(handled) /\ IsMap(coming)
       /\ IsMap(sent) /\ IsMap(answers)
  BY DEF MeterInv, Maps
<1>15. /\ IsMap(parser') /\ IsMap(pc') /\ IsMap(handled')
       /\ \A d \in Conns : d # c =>
            parser'[d] = parser[d] /\ pc'[d] = pc[d] /\ handled'[d] = handled[d]
       /\ Served(s, left, parser'[c], pc'[c], handled'[c], an, y, i)
  BY <1>3, <1>4, <1>7, <1>12, <1>13, <1>14, ParseServes
<1>16. Sets(coming', coming, c, left)
  BY <1>9, <1>14, MapExcept
<1>17. Maps'
  BY <1>9, <1>14, <1>15, <1>16 DEF Maps, Sets
<1>18. sent'[c] = s /\ coming'[c] = left /\ answers'[c] = an
  BY <1>3, <1>9, <1>16 DEF Sets
<1>19. ConnInv(c)'
  BY <1>15, <1>18 DEF ConnInv
<1>20. ASSUME NEW d \in Conns, d # c PROVE ConnInv(d)'
  <2>1. SameConn(d)
    BY <1>9, <1>15, <1>16, <1>20 DEF SameConn, Sets
  <2> QED
    BY <2>1, OtherConn DEF MeterInv
<1>21. (\A d \in Conns : ConnInv(d))'
  BY <1>19, <1>20
<1> QED
  BY <1>17, <1>21 DEF MeterInv

LEMMA RespondKeeps ==
  ASSUME MeterInv, \A s \in Streams : Fits(s), NEW c \in Conns, Respond(c)
  PROVE  MeterInv'
<1>1. pc[c] = "answering"
  BY DEF Respond
<1>2. PICK z, t : Served(sent[c], coming[c], parser[c], pc[c], handled[c], answers[c], z, t)
  BY <1>1 DEF MeterInv, ConnInv, Unserved
<1>3. PICK s, com, p, h, an, i :
        /\ s = sent[c] /\ com = coming[c] /\ p = parser[c]
        /\ h = handled[c] /\ an = answers[c] /\ i = Len(h)
  OBVIOUS
<1>4. /\ s \in Streams /\ AreFirst(h, s) /\ Got(p, s, i, z)
      /\ IsRest(com, Wire(s), z, Len(Wire(s)) - z) /\ Answered(s, an, t) /\ Fits(s)
      /\ t \in 0..i /\ i = t + 1
  BY <1>1, <1>2, <1>3 DEF Served
<1>5. i \in 0..Len(s.requests) /\ t \in Nat /\ i \in Nat /\ i \in 1..Len(s.requests) /\ i \in 1..Len(h)
  <2>1. Len(h) \in Nat /\ Len(h) <= Len(s.requests) /\ Len(s.requests) \in Nat
    BY <1>4, SeqIs, RequestsAre DEF AreFirst
  <2> QED
    BY <1>3, <1>4, <2>1
<1>6. PICK r : r = Last(handled[c])
  OBVIOUS
<1>7. r = s.requests[i] /\ r \in Request /\ h # <<>> /\ r = Last(h)
  <2>1. h[i] = s.requests[i]
    BY <1>4, <1>5 DEF AreFirst
  <2>2. r = h[i] /\ r = Last(h)
    BY <1>3, <1>6 DEF Last
  <2>3. h # <<>>
    BY <1>3, <1>5
  <2> QED
    BY <1>4, <1>5, <2>1, <2>2, <2>3, RequestsAre
<1>8. /\ IsMap(parser) /\ IsMap(pc) /\ IsMap(handled) /\ IsMap(coming)
      /\ IsMap(sent) /\ IsMap(answers)
  BY DEF MeterInv, Maps
<1>9. sent' = sent /\ coming' = coming
  BY DEF Respond
<1>10. CASE r.addr = Address
  <2>1. PICK x, g : x = Answer(r) /\ g = Append(an, x)
    OBVIOUS
  <2>2. answers' = [answers EXCEPT ![c] = g] /\ Parse(c, p)
    BY <1>3, <1>6, <1>10, <2>1 DEF Respond
  <2>3. Answered(s, g, i)
    BY <1>4, <1>5, <1>7, <1>10, <2>1, AnsweredNext
  <2>4. p.parsing
    BY <1>4, <1>5 DEF Got
  <2>5. PICK a : Holds(p, Wire(s), s, Ends(s), i, a, z)
    BY <1>4, <1>5, <2>4, GotHolds
  <2>6. /\ IsMap(parser') /\ IsMap(pc') /\ IsMap(handled')
        /\ \A d \in Conns : d # c =>
             parser'[d] = parser[d] /\ pc'[d] = pc[d] /\ handled'[d] = handled[d]
        /\ Served(s, com, parser'[c], pc'[c], handled'[c], g, z, i)
    BY <1>3, <1>4, <1>8, <2>2, <2>3, <2>5, ParseServes
  <2>7. Sets(answers', answers, c, g)
    BY <1>8, <2>2, MapExcept
  <2>8. Maps'
    BY <1>8, <1>9, <2>6, <2>7 DEF Maps, Sets
  <2>9. sent'[c] = s /\ coming'[c] = com /\ answers'[c] = g
    BY <1>3, <1>9, <2>7 DEF Sets
  <2>10. ConnInv(c)'
    BY <2>6, <2>9 DEF ConnInv
  <2>11. ASSUME NEW d \in Conns, d # c PROVE ConnInv(d)'
    <3>1. SameConn(d)
      BY <1>9, <2>6, <2>7, <2>11 DEF SameConn, Sets
    <3> QED
      BY <3>1, OtherConn DEF MeterInv
  <2>12. (\A d \in Conns : ConnInv(d))'
    BY <2>10, <2>11
  <2> QED
    BY <2>8, <2>12 DEF MeterInv
<1>11. CASE r.addr # Address
  <2>1. PICK ph : ph = Waiting(active)
    OBVIOUS
  <2>2. /\ pc' = [pc EXCEPT ![c] = ph]
        /\ parser' = parser /\ handled' = handled /\ answers' = answers
    BY <1>6, <1>11, <2>1 DEF Respond
  <2>3. Answered(s, an, i)
    BY <1>4, <1>5, <1>7, <1>11, AnsweredOther
  <2>4. Waits(s, h, z)
    BY <1>7, <1>11 DEF Waits
  <2>5. ph \in {"recv", "closed"} /\ i \in 0..Len(h)
    BY <1>3, <1>5, <2>1 DEF Waiting
  <2>6. Got(p, s, Len(h), z)
    BY <1>3, <1>4
  <2>7. Served(s, com, p, ph, h, an, z, i)
    BY <1>3, <1>4, <2>3, <2>4, <2>5, <2>6 DEF Served
  <2>8. Sets(pc', pc, c, ph)
    BY <1>8, <2>2, MapExcept
  <2>9. Maps'
    BY <1>8, <1>9, <2>2, <2>8 DEF Maps, Sets
  <2>10. /\ sent'[c] = s /\ coming'[c] = com /\ answers'[c] = an /\ parser'[c] = p
         /\ handled'[c] = h /\ pc'[c] = ph
    BY <1>3, <1>9, <2>2, <2>8 DEF Sets
  <2>11. ConnInv(c)'
    BY <2>7, <2>10 DEF ConnInv
  <2>12. ASSUME NEW d \in Conns, d # c PROVE ConnInv(d)'
    <3>1. SameConn(d)
      BY <1>9, <2>2, <2>8, <2>12 DEF SameConn, Sets
    <3> QED
      BY <3>1, OtherConn DEF MeterInv
  <2>13. (\A d \in Conns : ConnInv(d))'
    BY <2>11, <2>12
  <2> QED
    BY <2>9, <2>13 DEF MeterInv
<1> QED
  BY <1>10, <1>11

LEMMA DisconnectKeeps ==
  ASSUME MeterInv, NEW c \in Conns, Disconnect(c)
  PROVE  MeterInv'
<1>1. pc[c] \in {"recv", "answering"}
  BY DEF Disconnect
<1>2. PICK z, t : Served(sent[c], coming[c], parser[c], pc[c], handled[c], answers[c], z, t)
  BY <1>1 DEF MeterInv, ConnInv, Unserved
<1>3. /\ pc' = [pc EXCEPT ![c] = "closed"]
      /\ sent' = sent /\ coming' = coming /\ parser' = parser
      /\ handled' = handled /\ answers' = answers
  BY DEF Disconnect
<1>4. Sets(pc', pc, c, "closed")
  BY <1>3, MapExcept DEF MeterInv, Maps
<1>5. Maps'
  BY <1>3, <1>4 DEF MeterInv, Maps, Sets
<1>6. Served(sent[c], coming[c], parser[c], "closed", handled[c], answers[c], z, t)
  BY <1>2 DEF Served
<1>7. ConnInv(c)'
  BY <1>3, <1>4, <1>6 DEF ConnInv, Sets
<1>8. ASSUME NEW d \in Conns, d # c PROVE ConnInv(d)'
  <2>1. SameConn(d)
    BY <1>3, <1>4, <1>8 DEF SameConn, Sets
  <2> QED
    BY <2>1, OtherConn DEF MeterInv
<1>9. (\A d \in Conns : ConnInv(d))'
  BY <1>7, <1>8
<1> QED
  BY <1>5, <1>9 DEF MeterInv

LEMMA MeterStep ==
  ASSUME MeterInv, \A s \in Streams : Fits(s), [Next]_vars
  PROVE  MeterInv'
<1>1. ASSUME UNCHANGED conn PROVE MeterInv'
  <2>1. Maps'
    BY <1>1 DEF conn, MeterInv, Maps
  <2>2. ASSUME NEW d \in Conns PROVE ConnInv(d)'
    <3>1. SameConn(d)
      BY <1>1 DEF conn, SameConn
    <3> QED
      BY <3>1, OtherConn DEF MeterInv
  <2>3. (\A d \in Conns : ConnInv(d))'
    BY <2>2
  <2> QED
    BY <2>1, <2>3 DEF MeterInv
<1>2. CASE UNCHANGED vars
  BY <1>1, <1>2 DEF vars
<1>3. CASE RequestRestart \/ Reboot \/ SetRebootDone
  BY <1>1, <1>3 DEF RequestRestart, Reboot, SetRebootDone
<1> QED
  BY <1>2, <1>3, ConnectKeeps, ReceiveKeeps, RespondKeeps, DisconnectKeeps DEF Next

LEMMA MeterInvHandled ==
  ASSUME MeterInv
  PROVE  HandledAsSent
<1> SUFFICES ASSUME NEW c \in Conns
             PROVE  /\ IsPrefix(handled[c], sent[c].requests)
                    /\ Len(answers[c]) <= Cardinality(OwnTo(sent[c], Len(sent[c].requests)))
                    /\ \A i \in OwnTo(sent[c], Len(sent[c].requests)) :
                         Cardinality(OwnTo(sent[c], i)) <= Len(answers[c]) =>
                           answers[c][Cardinality(OwnTo(sent[c], i))]
                             = Answer(sent[c].requests[i])
  BY Zenon DEF HandledAsSent, Own, OwnTo
<1>1. PICK s, h, an : s = sent[c] /\ h = handled[c] /\ an = answers[c]
  OBVIOUS
<1>2. CASE Unserved(sent[c], coming[c], parser[c], pc[c], handled[c], answers[c])
  <2>1. s = Nothing /\ h = <<>> /\ an = <<>>
    BY <1>1, <1>2 DEF Unserved
  <2>2. Len(s.requests) = 0 /\ s.requests = <<>>
    BY <2>1 DEF Nothing
  <2>3. IsPrefix(h, s.requests)
    BY <2>1, <2>2 DEF IsPrefix
  <2>4. OwnTo(s, 0) = {} /\ Cardinality(OwnTo(s, 0)) \in Nat
    BY OwnFinite DEF OwnTo
  <2>5. Len(an) <= Cardinality(OwnTo(s, 0))
    BY <2>1, <2>4
  <2> QED
    BY <1>1, <2>2, <2>3, <2>4, <2>5, Zenon
<1>3. CASE \E z, t : Served(sent[c], coming[c], parser[c], pc[c], handled[c], answers[c], z, t)
  <2>1. PICK t : s \in Streams /\ AreFirst(h, s) /\ t \in 0..Len(h) /\ Answered(s, an, t)
    BY <1>1, <1>3 DEF Served
  <2>2. PICK n : n = Len(s.requests)
    OBVIOUS
  <2>3. /\ n \in Nat /\ Len(h) \in Nat /\ Len(h) <= n /\ h \in Seq(Request)
        /\ \A j \in 1..Len(h) : h[j] = s.requests[j]
    BY <2>1, <2>2, RequestsAre, SeqIs DEF AreFirst
  <2>4. t \in 0..n
    BY <2>1, <2>3
  <2>5. /\ Len(an) <= Cardinality(OwnTo(s, n))
        /\ \A i \in OwnTo(s, n) : Cardinality(OwnTo(s, i)) <= Len(an) =>
             an[Cardinality(OwnTo(s, i))] = Answer(s.requests[i])
    BY <2>1, <2>3, <2>4, AnswersAre
  <2>6. IsPrefix(h, s.requests)
    <3>1. PICK k \in Nat : k = Len(h)
      BY <2>3
    <3>2. \A j \in 1..k : h[j] \in Request /\ s.requests[j] = h[j]
      BY <2>3, <3>1, SeqIs
    <3>3. PICK u, v : u = SubSeq(h, 1, k) /\ v = SubSeq(s.requests, 1, k)
      OBVIOUS
    <3>4. /\ u \in Seq(Request) /\ Len(u) = (IF 1 <= k THEN k - 1 + 1 ELSE 0)
          /\ \A i \in 1..(k - 1 + 1) : u[i] = h[1 + i - 1]
      BY <3>2, <3>3, SubSeqProperties
    <3>5. /\ v \in Seq(Request) /\ Len(v) = (IF 1 <= k THEN k - 1 + 1 ELSE 0)
          /\ \A i \in 1..(k - 1 + 1) : v[i] = s.requests[1 + i - 1]
      BY <3>2, <3>3, SubSeqProperties
    <3>6. k - 1 + 1 = k /\ (IF 1 <= k THEN k - 1 + 1 ELSE 0) = k
          /\ \A i \in 1..k : 1 + i - 1 = i
      OBVIOUS
    <3>7. \A i \in 1..k : u[i] = v[i]
      BY <3>2, <3>4, <3>5, <3>6
    <3>8. u = v
      BY <3>4, <3>5, <3>6, <3>7, SeqEqual
    <3>9. Len(h) <= Len(s.requests)
      BY <2>2, <2>3
    <3> QED
      BY <3>1, <3>3, <3>8, <3>9, Zenon DEF IsPrefix
  <2> QED
    BY <1>1, <2>2, <2>5, <2>6, Zenon
<1> QED
  BY <1>2, <1>3 DEF MeterInv, ConnInv

LEMMA MeterInvNothing ==
  ASSUME MeterInv
  PROVE  NothingLeft
<1> SUFFICES ASSUME NEW c \in Conns, pc[c] \in {"recv", "raised"}
             PROVE  \/ Len(handled[c]) = Complete(c)
                    \/ handled[c] # <<>> /\ Last(handled[c]).addr # Address
  BY DEF NothingLeft
<1>1. PICK z, t : Served(sent[c], coming[c], parser[c], pc[c], handled[c], answers[c], z, t)
  BY DEF MeterInv, ConnInv, Unserved
<1>2. PICK s, h, i, com, p :
        /\ s = sent[c] /\ h = handled[c] /\ i = Len(h)
        /\ com = coming[c] /\ p = parser[c]
  OBVIOUS
<1>3. /\ s \in Streams /\ AreFirst(h, s) /\ Got(p, s, i, z) /\ Waits(s, h, z)
      /\ IsRest(com, Wire(s), z, Len(Wire(s)) - z)
  BY <1>1, <1>2 DEF Served
<1>4. CASE h # <<>> /\ Last(h).addr # Address
  BY <1>2, <1>4
<1>5. CASE ~(h # <<>> /\ Last(h).addr # Address)
  <2> DEFINE w == Wire(s)
             e == Ends(s)
             n == Len(s.requests)
  <2>1. /\ IsStream(w, s, e) /\ Len(w) \in Nat /\ n \in Nat
        /\ \A j \in 0..n : e[j] \in Nat
    BY <1>3, EndsAre
  <2>2. i \in Nat /\ i <= n /\ i \in 0..n /\ z \in Nat /\ z <= Len(w)
    BY <1>2, <1>3, <2>1, SeqIs DEF AreFirst, Got
  <2>3. i = n \/ z < e[i + 1]
    BY <1>2, <1>3, <1>5 DEF Waits
  <2>4. i # 0 => e[i] <= z
    BY <1>3 DEF Got
  <2>5. DOMAIN s.requests = 1..n
    BY <1>3, LenProperties, KamstrupMeterAssumption
  <2>6. Len(com) = Len(w) - z
    BY <1>3 DEF IsRest
  <2>7. ASSUME NEW j \in 1..n
        PROVE  Len(com) <= After(s, j) <=> j \in 1..i
    <3>1. j \in 0..n /\ e[j] \in Nat /\ e[j] = Len(WireTo(s, j))
      BY <2>1 DEF Ends
    <3>2. Len(com) <= After(s, j) <=> e[j] <= z
      <4>1. After(s, j) = Len(w) - e[j]
        BY <3>1 DEF After
      <4> HIDE DEF w, e
      <4> QED
        BY <2>1, <2>2, <2>6, <3>1, <4>1
    <3>3. CASE j = i
      BY <2>2, <2>4, <3>2, <3>3
    <3>4. CASE j < i
      <4>1. e[j] < e[i] /\ e[i] \in Nat
        BY <2>1, <2>2, <3>1, <3>4 DEF IsStream
      <4>2. e[j] <= z /\ j \in 1..i
        BY <2>2, <2>4, <3>1, <3>4, <4>1
      <4> QED
        BY <3>2, <4>2
    <3>5. CASE i < j
      <4>1. PICK k : k = i + 1
        OBVIOUS
      <4>2. k \in 0..n /\ k <= j /\ i # n
        BY <2>1, <2>2, <3>5, <4>1
      <4>3. z < e[k] /\ e[k] \in Nat
        BY <2>1, <2>3, <4>1, <4>2
      <4>4. k = j \/ k < j
        BY <2>1, <4>2
      <4>5. k < j => e[k] < e[j]
        BY <2>1, <3>1, <4>2 DEF IsStream
      <4>6. ~(e[j] <= z)
        BY <2>2, <3>1, <4>3, <4>4, <4>5
      <4> QED
        BY <2>2, <3>2, <3>5, <4>6
    <3> QED
      BY <2>1, <2>2, <3>3, <3>4, <3>5
  <2>8. {j \in DOMAIN s.requests : Len(com) <= After(s, j)} = 1..i
    <3>1. \A j \in 1..i : j \in 1..n
      BY <2>1, <2>2
    <3> QED
      BY <2>5, <2>7, <3>1
  <2>9. Cardinality(1..i) = i
    BY <2>2, FS_Interval
  <2>10. Complete(c) = i
    BY <1>2, <2>8, <2>9 DEF Complete
  <2> QED
    BY <1>2, <2>10
<1> QED
  BY <1>4, <1>5

(* However the streams of any number of clients are cut into chunks, and   *)
(* however the connections and restarts interleave, get_request gives each *)
(* connection its own requests back, unchanged, each once and in order,    *)
(* and the answers are those to the requests for this meter, in their      *)
(* order (request_parser.py get_request, kamstrup_server.py handle).  It   *)
(* is so for every checksum and every request, as long as the streams fit. *)
THEOREM RequestsAreHandled ==
  (\A s \in Streams : Fits(s)) => (Spec => []HandledAsSent)
<1> SUFFICES ASSUME \A s \in Streams : Fits(s)
             PROVE  Spec => []HandledAsSent
  OBVIOUS
<1>1. MeterInv /\ [Next]_vars => MeterInv'
  BY MeterStep
<1>2. MeterInv => HandledAsSent
  BY MeterInvHandled
<1> QED
  BY <1>1, <1>2, MeterInit, PTL DEF Spec

(* Nor does a request that has arrived entirely wait in the parser while   *)
(* the greenlet waits for more, and get_request never raises, unless a     *)
(* request for another meter has ended the loop over what was received.    *)
THEOREM NothingIsLeft ==
  (\A s \in Streams : Fits(s)) => (Spec => []NothingLeft)
<1> SUFFICES ASSUME \A s \in Streams : Fits(s)
             PROVE  Spec => []NothingLeft
  OBVIOUS
<1>1. MeterInv /\ [Next]_vars => MeterInv'
  BY MeterStep
<1>2. MeterInv => NothingLeft
  BY MeterInvNothing
<1> QED
  BY <1>1, <1>2, MeterInit, PTL DEF Spec
=============================================================================
