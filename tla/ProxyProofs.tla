---------------------------- MODULE ProxyProofs ----------------------------
(***************************************************************************)
(* The proxy implements a relay.                                           *)
(***************************************************************************)
EXTENDS Templates, SequenceTheorems, TLAPS

LEMMA ProxySteps == Next => Relays!Next \/ UNCHANGED proxy
  BY DEF Next, Only, proxy

\* The connections that relay no more.
OverNow == {c \in Connections : relay[c] \in {"ended", "refused", "died"}}

LEMMA RelayAtStart == Init => Relays!Abstract!Init
<1> SUFFICES ASSUME Relays!Init PROVE Relays!Abstract!Init
  BY DEF Init
<1> QED
  BY DEF Relays!Init, Relays!Abstract!Init

LEMMA OtherIsPeer ==
  ASSUME NEW e \in Relays!Ends
  PROVE  Relays!Abstract!Other(e) = Relays!Peer(e) /\ Relays!Peer(e) \in Relays!Ends
  BY DEF Relays!Abstract!Other, Relays!Peer, Relays!Ends

States == {"start", "select", "sending", "ended", "refused", "died"}
Streams == [Relays!Ends -> Seq(Bytes)]

\* What is in hand of a connection is the next part of what the first socket
\* of the pass has sent.
Hand(b) ==
    /\ inhand[b] > 0 <=> relay[b] = "sending"
    /\ relay[b] = "sending" => todo[b] # <<>>
    /\ relay[b] = "sending" =>
         \A e \in Relays!Ends :
           e = Head(todo[b]) => read[b][e] + inhand[b] <= Len(sent[b][e])

\* What was read was sent, and a pass of the loop is under way only where the
\* loop still runs.
ProxyInv ==
    /\ sent \in [Connections -> Streams]
    /\ received \in [Connections -> Streams]
    /\ read \in [Connections -> [Relays!Ends -> Nat]]
    /\ \A c \in Connections, e \in Relays!Ends : read[c][e] <= Len(sent[c][e])
    /\ relay \in [Connections -> States]
    /\ todo \in [Connections -> Seq(Relays!Ends)]
    /\ \A c \in Connections : todo[c] # <<>> => relay[c] \in {"select", "sending"}
    /\ inhand \in [Connections -> 0..Chunk]
    /\ \A c \in Connections : Hand(c)

LEMMA HandSame ==
  ASSUME NEW b, Hand(b), inhand'[b] = inhand[b], relay'[b] = relay[b], todo'[b] = todo[b],
         read'[b] = read[b], sent'[b] = sent[b]
  PROVE  Hand(b)'
  BY DEF Hand, Relays!Ends

LEMMA HandEmpty ==
  ASSUME NEW b, relay'[b] # "sending", inhand'[b] = 0
  PROVE  Hand(b)'
  BY DEF Hand

LEMMA ProxyAtStart == Init => ProxyInv
<1> SUFFICES ASSUME Relays!Init PROVE ProxyInv
  BY DEF Init
<1>1. \A S : <<>> \in Seq(S) /\ Len(<<>>) = 0
  BY EmptySeq
<1>2. inhand \in [Connections -> 0..Chunk]
  BY ProxyAssumption DEF Relays!Init
<1>3. \A c \in Connections : Hand(c)
  BY DEF Relays!Init, Hand
<1> QED
  BY <1>1, <1>2, <1>3 DEF Relays!Init, ProxyInv, Streams, States

----------------------------------------------------------------------------
(***************************************************************************)
(* What the ends and the loop do, one connection at a time.                *)
(***************************************************************************)
LEMMA ConnectKeeps ==
  ASSUME ProxyInv, NEW c \in Connections, Relays!Connect(c)
  PROVE  ProxyInv' /\ [Relays!Abstract!Next]_(Relays!Abstract!relayVars)
<1>1. PICK to \in {"select", "refused"} : relay' = [relay EXCEPT ![c] = to]
  BY DEF Relays!Connect
<1>2. relay[c] = "start" /\ UNCHANGED <<sent, received, read, todo, inhand>>
  BY DEF Relays!Connect
<1>3. ASSUME NEW b \in Connections PROVE Hand(b)'
  <2>1. relay'[b] = IF b = c THEN to ELSE relay[b]
    BY <1>1 DEF ProxyInv
  <2>2. Hand(b) /\ inhand[b] \in 0..Chunk
    BY DEF ProxyInv
  <2> QED
    BY <1>1, <1>2, <2>1, <2>2, HandSame DEF Hand
<1>4. ProxyInv'
  BY <1>1, <1>2, <1>3 DEF ProxyInv, States
<1>5. OverNow' = IF to = "refused" THEN OverNow \cup {c} ELSE OverNow
  BY <1>1, <1>2 DEF ProxyInv, OverNow
<1> QED
  BY <1>2, <1>4, <1>5 DEF Relays!Abstract!Next, Relays!Abstract!End,
          Relays!Abstract!relayVars, OverNow

LEMMA SelectKeeps ==
  ASSUME ProxyInv, NEW c \in Connections, Relays!Select(c)
  PROVE  ProxyInv' /\ UNCHANGED Relays!Abstract!relayVars
<1>1. UNCHANGED <<sent, received, read, relay, inhand>> /\ relay[c] = "select"
  BY DEF Relays!Select
<1>2. \A e \in Relays!Ends : Relays!Polled(c, e) \in Seq(Relays!Ends)
  BY IsASeq, EmptySeq DEF Relays!Polled
<1>3. Relays!Polled(c, "service") \o Relays!Polled(c, "client") \in Seq(Relays!Ends)
  BY <1>2, ConcatProperties DEF Relays!Ends
<1>4. ASSUME NEW b \in Connections PROVE Hand(b)'
  <2>1. b # c => todo'[b] = todo[b]
    BY DEF Relays!Select, ProxyInv
  <2>2. Hand(b)
    BY DEF ProxyInv
  <2> QED
    BY <1>1, <2>1, <2>2, HandSame DEF Hand
<1>5. ProxyInv'
  BY <1>1, <1>3, <1>4 DEF Relays!Select, ProxyInv
<1> QED
  BY <1>1, <1>5 DEF Relays!Abstract!relayVars

\* The loop ends, with nothing in hand.
LEMMA LoopEnds ==
  ASSUME ProxyInv, NEW c \in Connections, NEW to \in {"ended", "died"},
         relay' = [relay EXCEPT ![c] = to], todo' = [todo EXCEPT ![c] = <<>>],
         inhand' = [inhand EXCEPT ![c] = 0], sent' = sent,
         \A b \in Connections : b # c => read'[b] = read[b]
  PROVE  /\ relay' \in [Connections -> States]
         /\ todo' \in [Connections -> Seq(Relays!Ends)]
         /\ \A b \in Connections : todo'[b] # <<>> => relay'[b] \in {"select", "sending"}
         /\ inhand' \in [Connections -> 0..Chunk]
         /\ \A b \in Connections : Hand(b)'
         /\ OverNow' = OverNow \cup {c}
<1>1. <<>> \in Seq(Relays!Ends)
  BY EmptySeq
<1>2. OverNow' = OverNow \cup {c}
  BY DEF ProxyInv, OverNow
<1>3. inhand' \in [Connections -> 0..Chunk]
  BY ProxyAssumption DEF ProxyInv
<1>4. ASSUME NEW b \in Connections PROVE Hand(b)'
  <2>1. CASE b = c
    BY <2>1, HandEmpty DEF ProxyInv
  <2>2. CASE b # c
    BY <2>2, HandSame DEF ProxyInv
  <2> QED
    BY <2>1, <2>2
<1> QED
  BY <1>1, <1>2, <1>3, <1>4 DEF ProxyInv, States

LEMMA NothingInHand ==
  ASSUME ProxyInv, NEW c \in Connections, relay[c] # "sending"
  PROVE  inhand = [inhand EXCEPT ![c] = 0]
<1>1. inhand[c] = 0
  BY ProxyAssumption DEF ProxyInv, Hand
<1> QED
  BY <1>1 DEF ProxyInv

LEMMA CloseBothKeeps ==
  ASSUME ProxyInv, NEW c \in Connections, Relays!CloseBoth(c)
  PROVE  ProxyInv' /\ Relays!Abstract!Next
<1>1. /\ UNCHANGED <<sent, received, read, inhand>> /\ relay[c] = "select"
      /\ relay' = [relay EXCEPT ![c] = "ended"] /\ todo' = [todo EXCEPT ![c] = <<>>]
  BY DEF Relays!CloseBoth, Relays!Over
<1>2. ProxyInv' /\ OverNow' = OverNow \cup {c}
  BY <1>1, LoopEnds, NothingInHand DEF ProxyInv
<1> QED
  BY <1>1, <1>2 DEF Relays!Abstract!Next, Relays!Abstract!End, OverNow

LEMMA SendKeeps ==
  ASSUME ProxyInv, NEW c \in Connections, NEW e \in Relays!Ends, Relays!Send(c, e)
  PROVE  ProxyInv' /\ Relays!Abstract!Next
<1>1. PICK b \in Bytes : sent' = [sent EXCEPT ![c][e] = Append(@, b)]
  BY DEF Relays!Send
<1>2. UNCHANGED <<received, read, relay, todo, inhand>>
  BY DEF Relays!Send
<1>3. /\ sent[c] \in Streams /\ sent[c][e] \in Seq(Bytes) /\ Len(sent[c][e]) \in Nat
      /\ Append(sent[c][e], b) \in Seq(Bytes)
      /\ Len(Append(sent[c][e], b)) = Len(sent[c][e]) + 1
  BY AppendProperties, LenProperties DEF ProxyInv, Streams
<1>4. sent' = [sent EXCEPT ![c] = [sent[c] EXCEPT ![e] = Append(sent[c][e], b)]]
  BY <1>1
<1>5. /\ sent' \in [Connections -> Streams]
      /\ \A d \in Connections, f \in Relays!Ends :
           sent'[d][f] = IF d = c /\ f = e THEN Append(sent[c][e], b) ELSE sent[d][f]
  BY <1>3, <1>4 DEF ProxyInv, Streams
<1>6. ASSUME NEW d \in Connections, NEW f \in Relays!Ends
      PROVE  read'[d][f] <= Len(sent'[d][f])
  <2>1. read'[d][f] = read[d][f] /\ read[d][f] \in Nat /\ read[d][f] <= Len(sent[d][f])
    BY <1>2 DEF ProxyInv
  <2>2. CASE d = c /\ f = e
    <3>1. sent'[d][f] = Append(sent[c][e], b)
      BY <1>5, <2>2
    <3> QED
      BY <1>3, <2>1, <2>2, <3>1
  <2>3. CASE ~(d = c /\ f = e)
    <3>1. sent'[d][f] = sent[d][f]
      BY <1>5, <2>3
    <3> QED
      BY <2>1, <3>1
  <2> QED
    BY <2>2, <2>3
<1>7. ASSUME NEW d \in Connections PROVE Hand(d)'
  <2>1. Hand(d) /\ inhand[d] \in 0..Chunk
    BY DEF ProxyInv
  <2>2. ASSUME NEW f \in Relays!Ends PROVE Len(sent[d][f]) <= Len(sent'[d][f])
    <3>1. Len(sent[d][f]) \in Nat
      BY LenProperties DEF ProxyInv, Streams
    <3>2. CASE d = c /\ f = e
      <4>1. sent'[d][f] = Append(sent[c][e], b) /\ sent[d][f] = sent[c][e]
        BY <1>5, <3>2
      <4> QED
        BY <1>3, <3>1, <4>1
    <3>3. CASE ~(d = c /\ f = e)
      BY <1>5, <3>1, <3>3
    <3> QED
      BY <3>2, <3>3
  <2>3. ASSUME NEW f \in Relays!Ends, relay[d] = "sending", f = Head(todo[d])
        PROVE  read[d][f] + inhand[d] <= Len(sent'[d][f])
    <3>1. read[d][f] + inhand[d] <= Len(sent[d][f])
      BY <2>1, <2>3 DEF Hand
    <3>2. read[d][f] \in Nat /\ Len(sent[d][f]) \in Nat /\ Len(sent'[d][f]) \in Nat
      BY <1>5, LenProperties DEF ProxyInv, Streams
    <3> QED
      BY <2>1, <2>2, <3>1, <3>2
  <2> QED
    BY <1>2, <2>1, <2>3, Zenon DEF Hand
<1>8. ProxyInv'
  BY <1>2, <1>5, <1>6, <1>7 DEF ProxyInv
<1>9. OverNow' = OverNow
  BY <1>2 DEF OverNow
<1> QED
  BY <1>1, <1>2, <1>8, <1>9 DEF Relays!Abstract!Next, Relays!Abstract!Send, OverNow

\* Taking what was sent and closing leave alone what the relay is about.
LEMMA ProxySame ==
  ASSUME ProxyInv, UNCHANGED <<sent, received, read, relay, todo, inhand>>
  PROVE  ProxyInv' /\ UNCHANGED Relays!Abstract!relayVars
<1>1. \A c \in Connections : Hand(c)'
  BY HandSame DEF ProxyInv
<1> QED
  BY <1>1 DEF ProxyInv, Relays!Abstract!relayVars

LEMMA EndKeeps ==
  ASSUME ProxyInv, NEW c \in Connections, NEW e \in Relays!Ends,
         Relays!Take(c, e) \/ Relays!Close(c, e)
  PROVE  ProxyInv' /\ UNCHANGED Relays!Abstract!relayVars
  BY ProxySame DEF Relays!Take, Relays!Close

----------------------------------------------------------------------------
(***************************************************************************)
(* A chunk is handled.                                                     *)
(***************************************************************************)
LEMMA PartOf ==
  ASSUME NEW S, NEW s \in Seq(S), NEW i \in 1..Len(s), NEW j \in i..Len(s)
  PROVE  Len(SubSeq(s, i, j)) = j - i + 1
<1>1. Len(s) \in Nat /\ i \in Int /\ j \in Int /\ \A x \in i..j : s[x] \in S
  BY LenProperties, ElementOfSeq
<1>2. Len(SubSeq(s, i, j)) = IF i <= j THEN j - i + 1 ELSE 0
  BY <1>1, SubSeqProperties
<1> QED
  BY <1>1, <1>2

LEMMA StartOfPart ==
  ASSUME NEW S, NEW s \in Seq(S), NEW i \in 1..Len(s), NEW j \in i..Len(s),
         NEW m \in 1..(j - i + 1)
  PROVE  SubSeq(SubSeq(s, i, j), 1, m) = SubSeq(s, i, i + m - 1)
<1>1. Len(s) \in Nat /\ i \in Nat /\ j \in Nat /\ m \in Nat
  BY LenProperties
<1> QED
  BY <1>1

\* A chunk is received: it is the next part of what its sender has sent.
LEMMA ReceiveKeeps ==
  ASSUME ProxyInv, NEW c \in Connections, Relays!Receive(c)
  PROVE  ProxyInv' /\ [Relays!Abstract!Next]_(Relays!Abstract!relayVars)
<1> DEFINE e == Head(todo[c])
           unread == Relays!Unread(c, e)
           n == IF unread < Chunk THEN unread ELSE Chunk
<1>1. /\ todo[c] \in Seq(Relays!Ends) /\ todo[c] # <<>> /\ relay[c] = "select"
      /\ unread > 0 /\ UNCHANGED <<sent, received, read>>
  BY DEF Relays!Receive, ProxyInv
<1>2. e \in Relays!Ends
  BY <1>1, HeadTailProperties
<1>3. sent[c][e] \in Seq(Bytes) /\ Len(sent[c][e]) \in Nat /\ read[c][e] \in Nat
  BY <1>2, LenProperties DEF ProxyInv, Streams
<1>4. /\ n \in 1..Chunk /\ n \in 0..Chunk /\ n > 0
      /\ read[c][e] + n <= Len(sent[c][e])
  BY <1>1, <1>3, ProxyAssumption DEF Relays!Unread
<1>5. CASE /\ relay' = [relay EXCEPT ![c] = "died"]
           /\ todo' = [todo EXCEPT ![c] = <<>>]
           /\ UNCHANGED inhand
  <2>1. inhand' = [inhand EXCEPT ![c] = 0]
    BY <1>1, <1>5, NothingInHand
  <2>2. /\ relay' \in [Connections -> States]
        /\ todo' \in [Connections -> Seq(Relays!Ends)]
        /\ \A b \in Connections : todo'[b] # <<>> => relay'[b] \in {"select", "sending"}
        /\ inhand' \in [Connections -> 0..Chunk]
        /\ \A b \in Connections : Hand(b)'
        /\ OverNow' = OverNow \cup {c}
    BY <1>1, <1>5, <2>1, LoopEnds
  <2>3. ProxyInv'
    BY <1>1, <2>2 DEF ProxyInv
  <2> QED
    BY <1>1, <2>2, <2>3 DEF Relays!Abstract!Next, Relays!Abstract!End, OverNow
<1>6. CASE /\ relay' = [relay EXCEPT ![c] = "sending"]
           /\ inhand' = [inhand EXCEPT ![c] = n]
           /\ UNCHANGED todo
  <2> HIDE DEF n, unread
  <2>1. inhand' \in [Connections -> 0..Chunk] /\ relay' \in [Connections -> States]
    BY <1>4, <1>6 DEF ProxyInv, States
  <2>2. ASSUME NEW b \in Connections PROVE Hand(b)'
    <3>1. CASE b = c
      <4>1. inhand'[b] = n /\ relay'[b] = "sending" /\ todo'[b] = todo[c]
        BY <1>6, <3>1 DEF ProxyInv
      <4> QED
        BY <1>1, <1>4, <3>1, <4>1 DEF Hand
    <3>2. CASE b # c
      BY <1>1, <1>6, <3>2, HandSame DEF ProxyInv
    <3> QED
      BY <3>1, <3>2
  <2>3. ProxyInv'
    <3>1. \A b \in Connections : todo'[b] # <<>> => relay'[b] \in {"select", "sending"}
      BY <1>6 DEF ProxyInv
    <3> QED
      BY <1>1, <1>6, <2>1, <2>2, <3>1 DEF ProxyInv
  <2>4. OverNow' = OverNow
    BY <1>1, <1>6 DEF ProxyInv, OverNow
  <2> QED
    BY <1>1, <2>3, <2>4 DEF Relays!Abstract!relayVars, OverNow
<1> QED
  BY <1>5, <1>6 DEF Relays!Receive

\* What is read, and perhaps sent on, is a step of the relay.
LEMMA PassStep ==
  ASSUME ProxyInv, NEW c \in Connections, NEW e \in Relays!Ends,
         NEW n \in read[c][e]..Len(sent[c][e]), NEW m \in read[c][e]..n,
         relay[c] = "sending", sent' = sent,
         read' = [read EXCEPT ![c][e] = n],
         received' = [received EXCEPT ![c][Relays!Peer(e)] =
                        @ \o SubSeq(sent[c][e], read[c][e] + 1, m)],
         OverNow' \in {OverNow, OverNow \cup {c}}
  PROVE  Relays!Abstract!Next
<1>1. c \notin OverNow
  BY DEF OverNow
<1>2. received' = [received EXCEPT ![c][Relays!Abstract!Other(e)] =
                     @ \o SubSeq(sent[c][e], read[c][e] + 1, m)]
  BY OtherIsPeer
<1>3. OverNow' \in {OverNow, OverNow \cup {c}} /\ UNCHANGED sent
  OBVIOUS
<1>4. Relays!Abstract!Pass(c, e)
  BY <1>1, <1>2, <1>3 DEF Relays!Abstract!Pass, OverNow
<1> QED
  BY <1>4 DEF Relays!Abstract!Next

\* A chunk that is read and goes nowhere.
LEMMA LostStep ==
  ASSUME ProxyInv, NEW c \in Connections, NEW e \in Relays!Ends,
         NEW n \in read[c][e]..Len(sent[c][e]),
         relay[c] = "sending", sent' = sent, received' = received,
         read' = [read EXCEPT ![c][e] = n],
         OverNow' = OverNow \cup {c}
  PROVE  Relays!Abstract!Next
<1> DEFINE p == Relays!Peer(e)
           k == read[c][e]
<1>1. /\ p \in Relays!Ends /\ k \in Nat
      /\ received \in [Connections -> Streams]
      /\ received[c] \in Streams /\ received[c][p] \in Seq(Bytes)
  BY OtherIsPeer DEF ProxyInv, Streams
<1>2. SubSeq(sent[c][e], k + 1, k) = <<>>
  BY <1>1, SubSeqEmpty
<1>3. received[c][p] \o <<>> = received[c][p]
  BY <1>1, ConcatEmptySeq
<1>4. received' = [received EXCEPT ![c][p] = @ \o SubSeq(sent[c][e], k + 1, k)]
  <2>1. [received[c] EXCEPT ![p] = received[c][p]] = received[c]
    BY <1>1 DEF Streams
  <2>2. [received EXCEPT ![c] = received[c]] = received
    BY <1>1
  <2> QED
    BY <1>2, <1>3, <2>1, <2>2
<1>5. k \in k..n
  <2>1. Len(sent[c][e]) \in Nat
    BY LenProperties DEF ProxyInv, Streams
  <2> QED
    BY <1>1, <2>1
<1> QED
  BY <1>4, <1>5, PassStep

LEMMA SendOnKeeps ==
  ASSUME ProxyInv, NEW c \in Connections, Relays!SendOn(c) \/ Relays!SendFails(c)
  PROVE  ProxyInv' /\ Relays!Abstract!Next
<1> DEFINE e == Head(todo[c])
           k == read[c][e]
           n == k + inhand[c]
<1>1. /\ todo[c] \in Seq(Relays!Ends) /\ todo[c] # <<>> /\ relay[c] = "sending"
      /\ sent' = sent /\ inhand[c] \in 0..Chunk /\ inhand[c] > 0
  BY DEF Relays!SendOn, Relays!SendFails, ProxyInv, Hand
<1>2. e \in Relays!Ends /\ Tail(todo[c]) \in Seq(Relays!Ends)
  BY <1>1, HeadTailProperties
<1>3. k \in Nat /\ n <= Len(sent[c][e])
  BY <1>1, <1>2 DEF ProxyInv, Hand
<1>4. sent[c][e] \in Seq(Bytes) /\ Len(sent[c][e]) \in Nat
  BY <1>2, LenProperties DEF ProxyInv, Streams
<1>5. n \in k..Len(sent[c][e]) /\ n \in (k + 1)..Len(sent[c][e]) /\ n - k = inhand[c] /\ n \in Nat
  BY <1>1, <1>3, <1>4, ProxyAssumption
<1>6. /\ read' = [read EXCEPT ![c][e] = n] /\ inhand' = [inhand EXCEPT ![c] = 0]
      /\ Relays!InHand(c, e) = SubSeq(sent[c][e], k + 1, n)
  BY DEF Relays!SendOn, Relays!SendFails, Relays!Done, Relays!InHand
<1> HIDE DEF n
<1>7. /\ sent' \in [Connections -> Streams]
      /\ read' \in [Connections -> [Relays!Ends -> Nat]]
      /\ \A d \in Connections, f \in Relays!Ends : read'[d][f] <= Len(sent'[d][f])
  <2>1. read' = [read EXCEPT ![c] = [read[c] EXCEPT ![e] = n]] /\ n \in Nat
    BY <1>5, <1>6
  <2>2. /\ read' \in [Connections -> [Relays!Ends -> Nat]]
        /\ \A d \in Connections, f \in Relays!Ends :
             read'[d][f] = IF d = c /\ f = e THEN n ELSE read[d][f]
    BY <1>2, <2>1 DEF ProxyInv
  <2>3. ASSUME NEW d \in Connections, NEW f \in Relays!Ends
        PROVE  read'[d][f] <= Len(sent'[d][f])
    <3>1. read[d][f] <= Len(sent[d][f])
      BY DEF ProxyInv
    <3>2. CASE d = c /\ f = e
      BY <1>1, <1>4, <1>5, <2>2, <3>2
    <3>3. CASE ~(d = c /\ f = e)
      <4>1. read'[d][f] = read[d][f]
        BY <2>2, <3>3
      <4> QED
        BY <1>1, <3>1, <4>1
    <3> QED
      BY <3>2, <3>3
  <2> QED
    BY <1>1, <2>2, <2>3 DEF ProxyInv
<1>8. /\ \A b \in Connections : b # c => read'[b] = read[b]
      /\ inhand' \in [Connections -> 0..Chunk]
  BY <1>6, ProxyAssumption DEF ProxyInv
<1> HIDE DEF e, k
<1>9. CASE /\ received' = received
           /\ relay' = [relay EXCEPT ![c] = "ended"]
           /\ todo' = [todo EXCEPT ![c] = <<>>]
  <2>1. /\ relay' \in [Connections -> States]
        /\ todo' \in [Connections -> Seq(Relays!Ends)]
        /\ \A b \in Connections : todo'[b] # <<>> => relay'[b] \in {"select", "sending"}
        /\ \A b \in Connections : Hand(b)'
        /\ OverNow' = OverNow \cup {c}
    BY <1>1, <1>6, <1>8, <1>9, LoopEnds
  <2>2. ProxyInv'
    BY <1>7, <1>8, <1>9, <2>1 DEF ProxyInv
  <2>3. Relays!Abstract!Next
    BY <1>1, <1>2, <1>5, <1>6, <1>9, <2>1, LostStep DEF k
  <2> QED
    BY <2>2, <2>3
<1>10. CASE /\ \E m \in 1..inhand[c] : Relays!Forwarded(c, e, m)
            /\ todo' = [todo EXCEPT ![c] = Tail(@)]
            /\ relay' = [relay EXCEPT ![c] = "select"]
  <2>1. PICK m \in 1..(n - k) :
          received' = [received EXCEPT ![c][Relays!Peer(e)] =
                         @ \o SubSeq(SubSeq(sent[c][e], k + 1, n), 1, m)]
    BY <1>5, <1>6, <1>10 DEF Relays!Forwarded
  <2>2. SubSeq(SubSeq(sent[c][e], k + 1, n), 1, m) = SubSeq(sent[c][e], k + 1, k + m)
    <3> DEFINE i == k + 1
    <3>1. i \in 1..Len(sent[c][e]) /\ n \in i..Len(sent[c][e]) /\ m \in 1..(n - i + 1)
      BY <1>3, <1>4, <1>5, <2>1
    <3>2. i + m - 1 = k + m
      BY <1>3, <2>1
    <3> HIDE DEF i
    <3>3. SubSeq(SubSeq(sent[c][e], i, n), 1, m) = SubSeq(sent[c][e], i, i + m - 1)
      BY <1>4, <3>1, StartOfPart
    <3> QED
      BY <3>2, <3>3 DEF i
  <2>3. received' = [received EXCEPT ![c][Relays!Peer(e)] =
                       @ \o SubSeq(sent[c][e], k + 1, k + m)]
    BY <2>1, <2>2
  <2>4. k + m \in k..n
    BY <1>3, <1>5, <2>1
  <2>5. OverNow' = OverNow
    BY <1>1, <1>10 DEF ProxyInv, OverNow
  <2>6. Relays!Abstract!Next
    BY <1>1, <1>2, <1>5, <1>6, <2>3, <2>4, <2>5, PassStep DEF k
  <2>7. received' \in [Connections -> Streams]
    <3> DEFINE p == Relays!Peer(e)
               piece == SubSeq(sent[c][e], k + 1, k + m)
    <3>1. p \in Relays!Ends /\ received[c] \in Streams /\ received[c][p] \in Seq(Bytes)
      BY <1>2, OtherIsPeer DEF ProxyInv, Streams
    <3>2. \A x \in (k + 1)..(k + m) : x \in 1..Len(sent[c][e])
      BY <1>3, <1>4, <1>5, <2>1
    <3>3. piece \in Seq(Bytes)
      BY <1>3, <1>4, <2>1, <3>2
    <3> HIDE DEF piece
    <3>4. received[c][p] \o piece \in Seq(Bytes)
      BY <3>1, <3>3, ConcatProperties
    <3>5. received' = [received EXCEPT ![c] = [received[c] EXCEPT ![p] = received[c][p] \o piece]]
      BY <2>3 DEF piece
    <3>6. [received[c] EXCEPT ![p] = received[c][p] \o piece] \in Streams
      BY <3>1, <3>4 DEF Streams
    <3> QED
      BY <3>5, <3>6 DEF ProxyInv
  <2>8. ASSUME NEW b \in Connections PROVE Hand(b)'
    <3>1. CASE b = c
      <4>1. relay'[b] = "select" /\ inhand'[b] = 0
        BY <1>6, <1>10, <3>1 DEF ProxyInv
      <4> QED
        BY <4>1, HandEmpty
    <3>2. CASE b # c
      <4>1. /\ relay'[b] = relay[b] /\ todo'[b] = todo[b] /\ inhand'[b] = inhand[b]
            /\ read'[b] = read[b] /\ sent'[b] = sent[b]
        BY <1>1, <1>6, <1>8, <1>10, <3>2
      <4> QED
        BY <4>1, HandSame DEF ProxyInv
    <3> QED
      BY <3>1, <3>2
  <2>9. /\ relay' \in [Connections -> States]
        /\ todo' \in [Connections -> Seq(Relays!Ends)]
        /\ \A b \in Connections : todo'[b] # <<>> => relay'[b] \in {"select", "sending"}
    BY <1>2, <1>10 DEF ProxyInv, States
  <2>10. ProxyInv'
    BY <1>1, <1>7, <1>8, <2>7, <2>8, <2>9 DEF ProxyInv
  <2> QED
    BY <2>6, <2>10
<1> QED
  BY <1>9, <1>10 DEF Relays!SendOn, Relays!SendFails, Relays!Over, e

----------------------------------------------------------------------------
LEMMA ProxyStep ==
  ASSUME ProxyInv, Relays!Next
  PROVE  ProxyInv' /\ [Relays!Abstract!Next]_(Relays!Abstract!relayVars)
<1>1. PICK c \in Connections :
        \/ Relays!Handle(c)
        \/ \E e \in Relays!Ends : Relays!Send(c, e) \/ Relays!Take(c, e) \/ Relays!Close(c, e)
  BY DEF Relays!Next
<1>2. CASE Relays!Connect(c)
  BY <1>2, ConnectKeeps
<1>3. CASE Relays!Select(c)
  BY <1>3, SelectKeeps
<1>4. CASE Relays!CloseBoth(c)
  BY <1>4, CloseBothKeeps
<1>5. CASE Relays!Receive(c)
  BY <1>5, ReceiveKeeps
<1>6. CASE Relays!SendOn(c) \/ Relays!SendFails(c)
  BY <1>6, SendOnKeeps
<1>7. ASSUME NEW e \in Relays!Ends, Relays!Send(c, e)
      PROVE  ProxyInv' /\ [Relays!Abstract!Next]_(Relays!Abstract!relayVars)
  BY <1>7, SendKeeps
<1>8. ASSUME NEW e \in Relays!Ends, Relays!Take(c, e) \/ Relays!Close(c, e)
      PROVE  ProxyInv' /\ [Relays!Abstract!Next]_(Relays!Abstract!relayVars)
  BY <1>8, EndKeeps
<1> QED
  BY <1>1, <1>2, <1>3, <1>4, <1>5, <1>6, <1>7, <1>8 DEF Relays!Handle

LEMMA ProxyStays ==
  ASSUME ProxyInv, UNCHANGED proxy
  PROVE  ProxyInv' /\ UNCHANGED Relays!Abstract!relayVars
  BY ProxySame DEF proxy

----------------------------------------------------------------------------
(***************************************************************************)
(* Types.  What is closed and what is full changes one end at a time.      *)
(***************************************************************************)
Flags == [Connections -> [Relays!Ends -> BOOLEAN]]
FlagsTyped == closed \in Flags /\ full \in Flags

LEMMA FlagSet ==
  ASSUME NEW flags \in Flags, NEW c \in Connections, NEW e \in Relays!Ends, NEW f \in BOOLEAN
  PROVE  [flags EXCEPT ![c][e] = f] \in Flags
<1>1. [flags EXCEPT ![c][e] = f] = [flags EXCEPT ![c] = [flags[c] EXCEPT ![e] = f]]
  OBVIOUS
<1>2. [flags[c] EXCEPT ![e] = f] \in [Relays!Ends -> BOOLEAN]
  BY DEF Flags
<1> HIDE DEF Relays!Ends
<1> QED
  BY <1>1, <1>2 DEF Flags

LEMMA FlagsStep == ProxyInv /\ FlagsTyped /\ Relays!Next => FlagsTyped'
<1> SUFFICES ASSUME ProxyInv, FlagsTyped, Relays!Next PROVE FlagsTyped'
  OBVIOUS
<1>1. ASSUME NEW c \in Connections, NEW e \in Relays!Ends, Relays!Close(c, e) \/ Relays!Take(c, e)
      PROVE  FlagsTyped'
  <2>1. CASE closed' = [closed EXCEPT ![c][e] = TRUE] /\ full' = full
    BY <2>1, FlagSet, Zenon DEF FlagsTyped
  <2>2. CASE full' = [full EXCEPT ![c][e] = FALSE] /\ closed' = closed
    BY <2>2, FlagSet, Zenon DEF FlagsTyped
  <2> QED
    BY <1>1, <2>1, <2>2 DEF Relays!Close, Relays!Take
<1>2. UNCHANGED <<closed, full>> => FlagsTyped'
  BY DEF FlagsTyped
<1>3. ASSUME NEW c \in Connections, Relays!SendOn(c)
      PROVE  FlagsTyped'
  <2>1. todo[c] \in Seq(Relays!Ends) /\ todo[c] # <<>>
    BY <1>3 DEF Relays!SendOn, ProxyInv, Hand
  <2>2. Head(todo[c]) \in Relays!Ends
    BY <2>1, HeadTailProperties
  <2>3. Relays!Peer(Head(todo[c])) \in Relays!Ends
    BY <2>2, OtherIsPeer
  <2> DEFINE p == Relays!Peer(Head(todo[c]))
  <2>4. PICK f \in BOOLEAN : full' = [full EXCEPT ![c][p] = f] /\ closed' = closed
    BY <1>3 DEF Relays!SendOn
  <2> HIDE DEF p
  <2> QED
    BY <2>3, <2>4, FlagSet, Zenon DEF FlagsTyped, p
<1>4. ASSUME NEW c \in Connections, NEW e \in Relays!Ends,
             Relays!Connect(c) \/ Relays!Select(c) \/ Relays!CloseBoth(c) \/ Relays!Receive(c)
               \/ Relays!SendFails(c) \/ Relays!Send(c, e)
      PROVE  UNCHANGED <<closed, full>>
  BY <1>4 DEF Relays!Connect, Relays!Select, Relays!CloseBoth, Relays!Receive,
              Relays!SendFails, Relays!Send
<1> QED
  BY <1>1, <1>2, <1>3, <1>4 DEF Relays!Next, Relays!Handle, Relays!Ends

LEMMA RelaysTyped == Spec => []Relays!TypeOK
<1>1. Init => ProxyInv /\ FlagsTyped
  BY ProxyAtStart DEF Init, Relays!Init, FlagsTyped, Flags
<1>2. ProxyInv /\ FlagsTyped /\ [Next]_vars => (ProxyInv /\ FlagsTyped)'
  <2>1. UNCHANGED vars => UNCHANGED proxy
    BY DEF vars
  <2>2. UNCHANGED proxy /\ FlagsTyped => FlagsTyped'
    BY DEF proxy, FlagsTyped
  <2> QED
    BY <2>1, <2>2, ProxySteps, ProxyStep, ProxyStays, FlagsStep
<1>3. ProxyInv /\ FlagsTyped => Relays!TypeOK
  <2> SUFFICES ASSUME ProxyInv, FlagsTyped, NEW c \in Connections
               PROVE  /\ relay[c] \in States
                      /\ todo[c] \in Seq(Relays!Ends)
                      /\ todo[c] # <<>> => relay[c] \in {"select", "sending"}
                      /\ inhand[c] \in 0..Chunk /\ (inhand[c] > 0 <=> relay[c] = "sending")
                      /\ \A e \in Relays!Ends :
                           /\ sent[c][e] \in Seq(Bytes) /\ received[c][e] \in Seq(Bytes)
                           /\ read[c][e] \in 0..Len(sent[c][e])
                           /\ closed[c][e] \in BOOLEAN /\ full[c][e] \in BOOLEAN
    BY DEF Relays!TypeOK, States
  <2>1. ASSUME NEW e \in Relays!Ends
        PROVE  /\ sent[c][e] \in Seq(Bytes) /\ received[c][e] \in Seq(Bytes)
               /\ read[c][e] \in 0..Len(sent[c][e])
    <3>1. sent[c][e] \in Seq(Bytes) /\ received[c][e] \in Seq(Bytes)
          /\ read[c][e] \in Nat /\ read[c][e] <= Len(sent[c][e])
      BY DEF ProxyInv, Streams
    <3> QED
      BY <3>1, LenProperties
  <2>2. ASSUME NEW e \in Relays!Ends
        PROVE  closed[c][e] \in BOOLEAN /\ full[c][e] \in BOOLEAN
    BY DEF FlagsTyped, Flags
  <2>3. inhand[c] \in 0..Chunk /\ (inhand[c] > 0 <=> relay[c] = "sending")
    BY DEF ProxyInv, Hand
  <2> QED
    BY <2>1, <2>2, <2>3, Zenon DEF ProxyInv
<1> QED
  BY <1>1, <1>2, <1>3, PTL DEF Spec

\* For any connections and any size of the chunks, what an end of a proxied
\* connection receives is a part of what the other end has sent, in its order
\* and at most once, and nothing once the loop has ended, however the sends of
\* both directions, the closing and the pieces interleave (proxy.py:81-154).
THEOREM ProxyIsRelay == Spec => IsRelay
<1>1. Init => ProxyInv /\ Relays!Abstract!Init
  BY ProxyAtStart, RelayAtStart
<1>2. UNCHANGED vars => UNCHANGED proxy
  BY DEF vars
<1>3. ProxyInv /\ [Next]_vars => ProxyInv'
  BY <1>2, ProxySteps, ProxyStep, ProxyStays
<1>4. ProxyInv /\ [Next]_vars => [Relays!Abstract!Next]_(Relays!Abstract!relayVars)
  BY <1>2, ProxySteps, ProxyStep, ProxyStays
<1> QED
  BY <1>1, <1>3, <1>4, PTL DEF Spec, IsRelay, Relays!IsRelay, Relays!Abstract!Spec
=============================================================================
