-------------------------- MODULE TemplatesProofs --------------------------
(***************************************************************************)
(* The servers of a template, one part for each: what holds of them for    *)
(* any configuration, any clients and any number of requests.  The IPMI    *)
(* server and the proxy have modules of their own.                         *)
(***************************************************************************)
EXTENDS IPMIProofs, ProxyProofs, SequenceTheorems, FiniteSetTheorems, WellFoundedInduction, TLAPS

(***************************************************************************)
(* BACnet.  The response that is held was built after the last datagram    *)
(* that should have cleared it.                                            *)
(***************************************************************************)
BacnetInv ==
    /\ datagrams \in Nat /\ forgot \in 0..datagrams
    /\ apdu # Nothing => apdu.for \in (forgot + 1)..datagrams
    /\ NoStaleReply

LEMMA BacnetSteps == Next => Bacnet!Next \/ UNCHANGED bacnet
  BY DEF Next, Only, bacnet

LEMMA BacnetStart == Init => BacnetInv
  BY DEF Init, Bacnet!Init, BacnetInv, NoStaleReply, Bacnet!NoStaleReply,
         Bacnet!DroppedIsNotSent, Bacnet!FoundIsAnswered

(* A datagram about an object that is there always builds a response.      *)
LEMMA FoundBuilds ==
  ASSUME NEW query \in Bacnet!Asked, ~Bacnet!Drops(query), Bacnet!Kind(query) = "none",
         ~Bacnet!Raises(query)
  PROVE  ~Bacnet!Answerable(query)
  BY BacnetAssumption DEF Bacnet!Answerable, Bacnet!Asked, Bacnet!Drops, Bacnet!Kind, Bacnet!Found,
     Bacnet!HasProperty, Bacnet!Odd, Bacnet!Raises

LEMMA BacnetHandles ==
  ASSUME BacnetInv, NEW client \in Clients, Bacnet!Handle(client)
  PROVE  BacnetInv'
<1>1. PICK query \in Bacnet!Asked :
        /\ datagrams' = datagrams + 1
        /\ apdu' = Bacnet!Indication(query, datagrams + 1, client)
        /\ forgot' = IF Bacnet!Clears(query) THEN datagrams + 1 ELSE forgot
        /\ \A r \in replies' : r \notin replies =>
             /\ ~Bacnet!Raises(query) /\ apdu' # Nothing
             /\ r = [to |-> client, at |-> datagrams + 1, asked |-> query,
                     response |-> apdu', forgot |-> forgot']
  BY DEF Bacnet!Handle
<1>2. CASE Bacnet!Drops(query)
  <2>1. apdu' = Nothing
    BY <1>1, <1>2 DEF Bacnet!Indication
  <2> QED
    BY <1>1, <2>1 DEF BacnetInv, NoStaleReply, Bacnet!NoStaleReply,
       Bacnet!DroppedIsNotSent, Bacnet!FoundIsAnswered
<1>3. CASE ~Bacnet!Drops(query)
  <2>1. forgot' = forgot
    BY <1>1, <1>3 DEF Bacnet!Drops, Bacnet!Clears
  <2>2. CASE Bacnet!Kind(query) = "none"
    <3>1. apdu' = apdu
      BY <1>1, <1>3, <2>2 DEF Bacnet!Indication
    <3> QED
      BY <1>1, <1>3, <2>1, <2>2, <3>1, FoundBuilds DEF BacnetInv, NoStaleReply,
         Bacnet!NoStaleReply, Bacnet!DroppedIsNotSent, Bacnet!FoundIsAnswered
  <2>3. CASE Bacnet!Kind(query) # "none"
    <3>1. apdu'.for = datagrams + 1
      BY <1>1, <1>3, <2>3 DEF Bacnet!Indication
    <3> QED
      BY <1>1, <2>1, <3>1 DEF BacnetInv, NoStaleReply,
         Bacnet!NoStaleReply, Bacnet!DroppedIsNotSent, Bacnet!FoundIsAnswered
  <2> QED
    BY <2>2, <2>3
<1> QED
  BY <1>2, <1>3

(* Nobody gets a response that was dropped, and who asks for what exists   *)
(* gets none kept from before (bacnet_app.py:128-321).                     *)
THEOREM RepliesAreFresh == Spec => []NoStaleReply
<1>1. Init => BacnetInv
  BY BacnetStart
<1>2. BacnetInv /\ [Next]_vars => BacnetInv'
  <2>1. ASSUME BacnetInv, UNCHANGED bacnet PROVE BacnetInv'
    BY <2>1 DEF BacnetInv, bacnet, NoStaleReply, Bacnet!NoStaleReply,
       Bacnet!DroppedIsNotSent, Bacnet!FoundIsAnswered
  <2> QED
    BY <2>1, BacnetSteps, BacnetHandles DEF Bacnet!Next, vars
<1>3. BacnetInv => NoStaleReply
  BY DEF BacnetInv
<1> QED
  BY <1>1, <1>2, <1>3, PTL DEF Spec

(* Types: a response that is held is of a datagram, and so is one sent.    *)
LEMMA BacnetTypes ==
  ASSUME Bacnet!TypeOK, NEW client \in Clients, Bacnet!Handle(client)
  PROVE  Bacnet!TypeOK'
<1>1. PICK query \in Bacnet!Asked :
        /\ datagrams + 1 <= MaxDatagrams /\ datagrams' = datagrams + 1
        /\ apdu' = Bacnet!Indication(query, datagrams + 1, client)
        /\ forgot' = IF Bacnet!Clears(query) THEN datagrams + 1 ELSE forgot
        /\ \A r \in replies' : r \notin replies =>
             /\ apdu' # Nothing
             /\ r = [to |-> client, at |-> datagrams + 1, asked |-> query,
                     response |-> apdu', forgot |-> forgot']
  BY DEF Bacnet!Handle
<1>2. datagrams \in Nat /\ datagrams + 1 \in 1..MaxDatagrams /\ forgot' \in 0..datagrams'
  BY <1>1, BacnetAssumption DEF Bacnet!TypeOK
<1>3. apdu' \in Bacnet!Responses \cup {Nothing}
  <2>1. CASE Bacnet!Drops(query) \/ Bacnet!Kind(query) = "none"
    BY <1>1, <2>1 DEF Bacnet!Indication, Bacnet!TypeOK
  <2>2. CASE ~Bacnet!Drops(query) /\ Bacnet!Kind(query) # "none"
    <3>1. Bacnet!Kind(query) \in {"IAm", "IHave", "Ack", "Error", "part"}
      BY <2>2 DEF Bacnet!Kind
    <3>2. query.object \in DOMAIN Objects \cup {Nothing}
      BY <2>2 DEF Bacnet!Kind, Bacnet!Asked, Bacnet!Found, Bacnet!HasProperty, Bacnet!Odd
    <3>3. apdu' = [for |-> datagrams + 1, kind |-> Bacnet!Kind(query),
                   object |-> query.object, client |-> client]
      BY <1>1, <2>2 DEF Bacnet!Indication
    <3> QED
      BY <1>2, <3>1, <3>2, <3>3 DEF Bacnet!Responses
  <2> QED
    BY <2>1, <2>2
<1>4. ASSUME NEW r \in replies'
      PROVE  /\ r.to \in Clients /\ r.at \in 1..datagrams' /\ r.asked \in Bacnet!Asked
             /\ r.response \in Bacnet!Responses /\ r.forgot \in 0..datagrams'
  <2>1. CASE r \in replies
    BY <1>1, <1>2, <2>1 DEF Bacnet!TypeOK
  <2>2. CASE r \notin replies
    <3>1. r = [to |-> client, at |-> datagrams + 1, asked |-> query,
               response |-> apdu', forgot |-> forgot']
          /\ apdu' # Nothing
      BY <1>1, <2>2
    <3>2. /\ r.to = client /\ r.at = datagrams' /\ r.asked = query
          /\ r.response = apdu' /\ r.forgot = forgot'
      BY <1>1, <3>1
    <3>3. datagrams' \in 1..datagrams'
      BY <1>1, <1>2
    <3> QED
      BY <1>2, <1>3, <3>1, <3>2, <3>3
  <2> QED
    BY <2>1, <2>2
<1> QED
  BY <1>1, <1>2, <1>3, <1>4 DEF Bacnet!TypeOK

LEMMA BacnetTyped == Spec => []Bacnet!TypeOK
<1>1. Init => Bacnet!TypeOK
  BY BacnetAssumption DEF Init, Bacnet!Init, Bacnet!TypeOK
<1>2. Bacnet!TypeOK /\ [Next]_vars => Bacnet!TypeOK'
  <2>1. Bacnet!TypeOK /\ UNCHANGED bacnet => Bacnet!TypeOK'
    BY DEF Bacnet!TypeOK, bacnet
  <2> QED
    BY <2>1, BacnetSteps, BacnetTypes DEF Bacnet!Next, vars
<1> QED
  BY <1>1, <1>2, PTL DEF Spec

----------------------------------------------------------------------------
(***************************************************************************)
(* Guardian AST.  Where a name is a part of what its client gave, the line *)
(* of that name is still to be ended, and what ends it is received next    *)
(* and closes the connection.                                              *)
(***************************************************************************)
GaugeLines ==
    /\ lines \in 0..MaxLines
    /\ inbox \in [Clients -> Seq(Gauge!Pieces)]
    /\ open \in [Clients -> BOOLEAN] /\ gone \in [Clients -> BOOLEAN]

GaugeCommands ==
    /\ handler \in [Clients -> {"recv", "more", "spin", "ended"}]
    /\ response \in [Clients -> Seq(Gauge!Pieces)]
    /\ \A c \in Clients : response[c] # <<>> => handler[c] \in {"more", "spin"}

GaugeNames ==
    /\ product \in [Clients -> [Tanks -> Gauge!Labels]]
    /\ report \in [Clients -> [Tanks -> Gauge!Labels]]

GaugeTypes == GaugeLines /\ GaugeCommands /\ GaugeNames

\* Has the last piece that is waiting an end?
Unended(c) == inbox[c] # <<>> => (open[c] <=> ~inbox[c][Len(inbox[c])].ends)

Parted(c) == \E t \in Tanks : product[c][t] = "part"

\* What comes next on this connection has no ^A.
RestNext(c) ==
    /\ response[c] = <<>>
    /\ inbox[c] = <<>> => open[c]
    /\ inbox[c] # <<>> => ~inbox[c][1].begins

GaugeInv ==
    /\ \A c \in Clients : Unended(c)
    /\ \A c \in Clients : Parted(c) => handler[c] = "ended" \/ RestNext(c)
    /\ NamesAreWhole

LEMMA GaugeSteps == Next => Gauge!Next \/ UNCHANGED gauge
  BY DEF Next, Only, gauge

(* The first piece and the last of what a command is made of.              *)
LEMMA GaugeText ==
  ASSUME NEW old \in Seq(Gauge!Pieces), NEW new \in Seq(Gauge!Pieces), new # <<>>
  PROVE  /\ old \o new \in Seq(Gauge!Pieces) /\ old \o new # <<>>
         /\ Len(old \o new) \in DOMAIN (old \o new)
         /\ (old \o new)[Len(old \o new)] = new[Len(new)]
         /\ old = <<>> => (old \o new)[1] = new[1]
         /\ new[1] \in Gauge!Pieces /\ (old \o new)[1] \in Gauge!Pieces
<1>1. /\ Len(old) \in Nat /\ Len(new) \in Nat /\ Len(new) >= 1
      /\ old = <<>> => Len(old) = 0
  BY EmptySeq, LenProperties
<1>2. /\ old \o new \in Seq(Gauge!Pieces) /\ Len(old \o new) = Len(old) + Len(new)
      /\ \A i \in 1..Len(old) + Len(new) :
           (old \o new)[i] = IF i <= Len(old) THEN old[i] ELSE new[i - Len(old)]
  BY ConcatProperties
<1>3. DOMAIN (old \o new) = 1..(Len(old) + Len(new))
  BY <1>2, LenProperties
<1> DEFINE both == old \o new
<1> HIDE DEF both
<1>4. both[Len(both)] = new[Len(new)]
  <2>1. Len(old) + Len(new) \in 1..Len(old) + Len(new) /\ ~(Len(old) + Len(new) <= Len(old))
        /\ (Len(old) + Len(new)) - Len(old) = Len(new)
    BY <1>1
  <2> QED
    BY <1>2, <2>1 DEF both
<1>5. old = <<>> => both[1] = new[1]
  <2>1. 1 \in 1..Len(old) + Len(new) /\ (old = <<>> => ~(1 <= Len(old)) /\ 1 - Len(old) = 1)
    BY <1>1
  <2> QED
    BY <1>2, <2>1 DEF both
<1>6. new[1] \in Gauge!Pieces /\ both[1] \in Gauge!Pieces
  BY <1>1, <1>2, ElementOfSeq DEF both
<1>7. both # <<>> /\ Len(both) \in DOMAIN both
  BY <1>1, <1>2, <1>3 DEF both
<1> QED
  BY <1>2, <1>4, <1>5, <1>6, <1>7 DEF both

LEMMA GaugeExecutes ==
  ASSUME GaugeTypes, GaugeInv, NEW c \in Clients, inbox[c] # <<>>,
         handler[c] \in {"recv", "more"}, Gauge!Execute(c, response[c] \o inbox[c]),
         inbox' = [inbox EXCEPT ![c] = <<>>], UNCHANGED <<open, gone, lines>>
  PROVE  GaugeTypes' /\ GaugeInv'
<1> DEFINE text == response[c] \o inbox[c]
<1>1. /\ text \in Seq(Gauge!Pieces) /\ text # <<>> /\ Len(text) \in DOMAIN text
      /\ text[Len(text)] = inbox[c][Len(inbox[c])]
      /\ response[c] = <<>> => text[1] = inbox[c][1]
  BY GaugeText DEF GaugeTypes, GaugeLines, GaugeCommands
<1>2. Gauge!Execute(c, text)
  OBVIOUS
<1> HIDE DEF text
<1>3. PICK names \in [Tanks -> Gauge!Labels] :
        /\ product' = [product EXCEPT ![c] = names]
        /\ names # product[c] => /\ names = Gauge!Renamed(product[c], text)
                                 /\ text[1].begins
  <2>1. Gauge!Renamed(product[c], text) \in [Tanks -> Gauge!Labels]
    BY DEF Gauge!Renamed, Gauge!Labels, GaugeTypes, GaugeNames
  <2>2. product[c] \in [Tanks -> Gauge!Labels] /\ product = [product EXCEPT ![c] = product[c]]
    BY DEF GaugeTypes, GaugeNames
  <2>3. \/ product' = product
        \/ text[1].begins /\ product' = [product EXCEPT ![c] = Gauge!Renamed(product[c], text)]
    BY <1>2 DEF Gauge!Execute
  <2> QED
    BY <2>1, <2>2, <2>3
<1>4. /\ response' = [response EXCEPT ![c] = <<>>] /\ <<>> \in Seq(Gauge!Pieces)
      /\ \E next \in {"recv", "ended"} : /\ handler' = [handler EXCEPT ![c] = next]
                                         /\ ~text[1].begins => next = "ended"
      /\ \/ report' = report
         \/ text[1].begins /\ report' = [report EXCEPT ![c] = product[c]]
  BY <1>2, EmptySeq DEF Gauge!Execute
<1>5. GaugeLines' /\ GaugeCommands' /\ GaugeNames'
  <2>1. GaugeLines'
    BY <1>4 DEF GaugeTypes, GaugeLines
  <2>2. GaugeCommands'
    BY <1>4 DEF GaugeTypes, GaugeCommands
  <2>3. GaugeNames'
    BY <1>3, <1>4 DEF GaugeTypes, GaugeNames
  <2> QED
    BY <2>1, <2>2, <2>3
<1>6. text[1].begins => ~Parted(c)
  <2> SUFFICES ASSUME text[1].begins, Parted(c) PROVE FALSE
    OBVIOUS
  <2>1. response[c] = <<>> /\ ~inbox[c][1].begins
    BY DEF GaugeInv, RestNext
  <2> QED
    BY <1>1, <2>1
<1>7. NamesAreWhole'
  <2>1. \A d \in Clients, t \in Tanks : report[d][t] # "part"
    BY DEF GaugeInv, NamesAreWhole, Gauge!NamesAreWhole
  <2>2. text[1].begins => \A t \in Tanks : product[c][t] # "part"
    BY <1>6 DEF Parted
  <2>3. \A d \in Clients, t \in Tanks : report'[d][t] # "part"
    BY <1>4, <2>1, <2>2 DEF GaugeTypes, GaugeNames
  <2> QED
    BY <2>3 DEF NamesAreWhole, Gauge!NamesAreWhole
<1>8. ASSUME NEW d \in Clients PROVE Unended(d)'
  BY <1>8 DEF GaugeInv, Unended, GaugeTypes, GaugeLines
<1>9. ASSUME NEW d \in Clients, Parted(d)' PROVE handler'[d] = "ended" \/ RestNext(d)'
  <2>1. CASE d # c
    <3>1. /\ product'[d] = product[d] /\ handler'[d] = handler[d] /\ response'[d] = response[d]
          /\ inbox'[d] = inbox[d] /\ open'[d] = open[d]
      BY <1>3, <1>4, <2>1 DEF GaugeTypes, GaugeLines, GaugeCommands, GaugeNames
    <3> QED
      BY <1>9, <3>1 DEF GaugeInv, Parted, RestNext
  <2>2. CASE d = c /\ ~text[1].begins
    BY <1>4, <2>2 DEF GaugeTypes, GaugeCommands
  <2>3. CASE d = c /\ text[1].begins
    <3>1. PICK t \in Tanks : names[t] = "part"
      BY <1>3, <1>9, <2>3 DEF Parted, GaugeTypes, GaugeNames
    <3>2. product[c][t] # "part"
      BY <1>6, <2>3 DEF Parted
    <3>3. names = Gauge!Renamed(product[c], text)
      BY <1>3, <3>1, <3>2
    <3>4. ~\E i \in DOMAIN text : text[i].ends
      BY <3>1, <3>2, <3>3 DEF Gauge!Renamed
    <3>5. ~inbox[c][Len(inbox[c])].ends
      BY <1>1, <3>4
    <3>6. open[c]
      BY <3>5 DEF GaugeInv, Unended
    <3>7. inbox'[c] = <<>> /\ response'[c] = <<>> /\ open'[c]
      BY <1>4, <3>6 DEF GaugeTypes, GaugeLines, GaugeCommands
    <3> QED
      BY <2>3, <3>7 DEF RestNext
  <2> QED
    BY <2>1, <2>2, <2>3
<1> QED
  BY <1>5, <1>7, <1>8, <1>9 DEF GaugeTypes, GaugeInv

LEMMA GaugeReceives ==
  ASSUME GaugeTypes, GaugeInv, NEW c \in Clients, Gauge!Receive(c)
  PROVE  GaugeTypes' /\ GaugeInv'
<1> DEFINE text == response[c] \o inbox[c]
<1>1. /\ handler[c] \in {"recv", "more"} /\ UNCHANGED <<open, gone, lines>>
      /\ inbox' = [inbox EXCEPT ![c] = <<>>]
  BY DEF Gauge!Receive, Gauge!sending
<1>2. CASE inbox[c] # <<>> /\ Gauge!Execute(c, text)
  BY <1>1, <1>2, GaugeExecutes
<1>3. CASE /\ inbox[c] = <<>>
           /\ handler' = [handler EXCEPT ![c] = IF @ = "recv" THEN "ended" ELSE "spin"]
           /\ UNCHANGED <<response, product, report>>
  <2>1. PICK next \in {"ended", "spin"} :
          handler' = [handler EXCEPT ![c] = next] /\ (handler[c] = "more" => next = "spin")
    BY <1>3 DEF GaugeTypes, GaugeCommands
  <2>2. inbox' = inbox
    BY <1>1, <1>3 DEF GaugeTypes, GaugeLines
  <2>3. GaugeTypes'
    BY <1>1, <1>3, <2>1, <2>2 DEF GaugeTypes, GaugeLines, GaugeCommands, GaugeNames
  <2>4. \A d \in Clients : handler[d] = "ended" => handler'[d] = "ended"
    BY <1>1, <2>1 DEF GaugeTypes, GaugeCommands
  <2> QED
    BY <1>1, <1>3, <2>2, <2>3, <2>4 DEF GaugeInv, Unended, Parted, RestNext, NamesAreWhole,
       Gauge!NamesAreWhole
<1>4. CASE /\ inbox[c] # <<>> /\ ~Gauge!Terminated(text)
           /\ handler' = [handler EXCEPT ![c] = "more"]
           /\ response' = [response EXCEPT ![c] = text]
           /\ UNCHANGED <<product, report>>
  <2>1. /\ text \in Seq(Gauge!Pieces) /\ Len(text) \in DOMAIN text
        /\ text[Len(text)] = inbox[c][Len(inbox[c])]
        /\ response[c] = <<>> => text[1] = inbox[c][1]
        /\ text[1] \in Gauge!Pieces /\ text # <<>>
    BY <1>4, GaugeText DEF GaugeTypes, GaugeLines, GaugeCommands
  <2>2. 1 \in DOMAIN text
    <3> HIDE DEF text
    <3> QED
      BY <2>1, LenProperties
  <2> HIDE DEF text
  <2>3. GaugeTypes'
    <3>1. GaugeLines'
      BY <1>1, EmptySeq DEF GaugeTypes, GaugeLines
    <3>2. GaugeCommands'
      BY <1>4, <2>1 DEF GaugeTypes, GaugeCommands
    <3> QED
      BY <1>4, <3>1, <3>2 DEF GaugeTypes, GaugeNames
  <2>4. ~Parted(c)
    <3> SUFFICES ASSUME Parted(c) PROVE FALSE
      OBVIOUS
    <3>1. ~text[1].begins
      BY <1>1, <1>4, <2>1 DEF GaugeInv, RestNext
    <3>2. text[1].ends
      BY <2>1, <3>1 DEF Gauge!Pieces
    <3> QED
      BY <1>4, <2>2, <3>2 DEF Gauge!Terminated
  <2>5. ASSUME NEW d \in Clients PROVE Unended(d)'
    BY <1>1 DEF GaugeInv, Unended, GaugeTypes, GaugeLines
  <2>6. ASSUME NEW d \in Clients, Parted(d)' PROVE handler'[d] = "ended" \/ RestNext(d)'
    <3>1. d # c /\ Parted(d)
      BY <1>4, <2>4, <2>6 DEF Parted
    <3>2. /\ handler'[d] = handler[d] /\ response'[d] = response[d]
          /\ inbox'[d] = inbox[d] /\ open'[d] = open[d]
      BY <1>1, <1>4, <3>1 DEF GaugeTypes, GaugeLines, GaugeCommands
    <3> QED
      BY <3>1, <3>2 DEF GaugeInv, RestNext
  <2> QED
    BY <1>4, <2>3, <2>5, <2>6 DEF GaugeInv, NamesAreWhole, Gauge!NamesAreWhole
<1> QED
  BY <1>2, <1>3, <1>4 DEF Gauge!Receive

(* A piece is added behind those that wait.                                *)
LEMMA GaugeAppends ==
  ASSUME NEW old \in Seq(Gauge!Pieces), NEW piece \in Gauge!Pieces
  PROVE  LET more == Append(old, piece) IN
         /\ more \in Seq(Gauge!Pieces) /\ more # <<>> /\ more[Len(more)] = piece
         /\ old = <<>> => more[1] = piece
         /\ old # <<>> => more[1] = old[1]
<1> DEFINE more == Append(old, piece)
<1>1. Len(old) \in Nat /\ (old = <<>> => Len(old) = 0) /\ (old # <<>> => Len(old) >= 1)
  BY EmptySeq, LenProperties
<1>2. /\ more \in Seq(Gauge!Pieces) /\ Len(more) = Len(old) + 1
      /\ more[Len(old) + 1] = piece
      /\ \A i \in 1..Len(old) : more[i] = old[i]
  BY AppendProperties
<1> HIDE DEF more
<1>3. more # <<>>
  BY <1>1, <1>2
<1>4. old # <<>> => more[1] = old[1]
  BY <1>1, <1>2
<1>5. old = <<>> => more[1] = piece
  BY <1>1, <1>2
<1> QED
  BY <1>2, <1>3, <1>4, <1>5 DEF more

LEMMA GaugeSends ==
  ASSUME GaugeTypes, GaugeInv, NEW c \in Clients, NEW piece \in Gauge!Pieces,
         Gauge!Send(c, piece) \/ Gauge!SendRest(c, piece)
  PROVE  GaugeTypes' /\ GaugeInv'
<1> DEFINE more == Append(inbox[c], piece)
<1>1. /\ inbox' = [inbox EXCEPT ![c] = more]
      /\ open' = [open EXCEPT ![c] = ~piece.ends]
      /\ UNCHANGED <<gone, handler, response, product, report>>
      /\ open[c] => ~piece.begins
  BY DEF Gauge!Send, Gauge!SendRest, Gauge!Pieces
<1>2. /\ more \in Seq(Gauge!Pieces) /\ more # <<>> /\ more[Len(more)] = piece
      /\ inbox[c] = <<>> => more[1] = piece
      /\ inbox[c] # <<>> => more[1] = inbox[c][1]
  BY GaugeAppends DEF GaugeTypes, GaugeLines
<1>3. piece.ends \in BOOLEAN
  BY DEF Gauge!Pieces
<1> HIDE DEF more
<1>4. lines' \in 0..MaxLines
  BY BoundsAssumption DEF Gauge!Send, Gauge!SendRest, GaugeTypes, GaugeLines
<1>5. GaugeTypes'
  BY <1>1, <1>2, <1>3, <1>4 DEF GaugeTypes, GaugeLines, GaugeCommands, GaugeNames
<1>6. /\ inbox'[c] = more /\ (open'[c] <=> ~piece.ends)
      /\ \A d \in Clients \ {c} : inbox'[d] = inbox[d] /\ open'[d] = open[d]
  BY <1>1 DEF GaugeTypes, GaugeLines
<1>7. ASSUME NEW d \in Clients PROVE Unended(d)'
  <2>1. CASE d = c
    BY <1>2, <1>6, <2>1 DEF Unended
  <2>2. CASE d # c
    BY <1>6, <2>2 DEF Unended, GaugeInv
  <2> QED
    BY <2>1, <2>2
<1>8. ASSUME NEW d \in Clients, Parted(d)' PROVE handler'[d] = "ended" \/ RestNext(d)'
  <2>1. Parted(d)
    BY <1>1, <1>8 DEF Parted
  <2>2. CASE d = c
    <3>1. CASE handler[c] = "ended"
      BY <1>1, <2>2, <3>1
    <3>2. CASE RestNext(c)
      BY <1>1, <1>2, <1>6, <2>2, <3>2 DEF RestNext
    <3> QED
      BY <2>1, <2>2, <3>1, <3>2 DEF GaugeInv
  <2>3. CASE d # c
    BY <1>1, <1>6, <2>1, <2>3 DEF GaugeInv, RestNext
  <2> QED
    BY <2>2, <2>3
<1> QED
  BY <1>1, <1>5, <1>7, <1>8 DEF GaugeInv, NamesAreWhole, Gauge!NamesAreWhole

LEMMA GaugeHolds == Spec => [](GaugeTypes /\ GaugeInv)
<1>1. Init => GaugeTypes /\ GaugeInv
  <2> SUFFICES ASSUME Gauge!Init PROVE GaugeTypes /\ GaugeInv
    BY DEF Init
  <2>1. GaugeTypes
    BY BoundsAssumption, EmptySeq DEF Gauge!Init, Gauge!Labels, GaugeTypes, GaugeLines, GaugeCommands,
       GaugeNames
  <2> QED
    BY <2>1 DEF Gauge!Init, GaugeInv, Unended, Parted, NamesAreWhole, Gauge!NamesAreWhole
<1>2. ASSUME GaugeTypes, GaugeInv, NEW c \in Clients, Gauge!Close(c) PROVE GaugeTypes' /\ GaugeInv'
  BY <1>2 DEF Gauge!Close, GaugeTypes, GaugeLines, GaugeCommands, GaugeNames, GaugeInv, Unended,
     Parted, RestNext, NamesAreWhole, Gauge!NamesAreWhole
<1>3. ASSUME GaugeTypes, GaugeInv, UNCHANGED gauge PROVE GaugeTypes' /\ GaugeInv'
  BY <1>3 DEF gauge, GaugeTypes, GaugeLines, GaugeCommands, GaugeNames, GaugeInv, Unended,
     Parted, RestNext, NamesAreWhole, Gauge!NamesAreWhole
<1>4. GaugeTypes /\ GaugeInv /\ [Next]_vars => (GaugeTypes /\ GaugeInv)'
  BY <1>2, <1>3, GaugeSteps, GaugeReceives, GaugeSends DEF Gauge!Next, vars
<1> QED
  BY <1>1, <1>4, PTL DEF Spec

(* No report shows a part of a name (guardian_ast_server.py:173-179,       *)
(* 249-282).                                                               *)
THEOREM ReportsShowWholeNames == Spec => []NamesAreWhole
<1>1. GaugeInv => NamesAreWhole
  BY DEF GaugeInv
<1> QED
  BY <1>1, GaugeHolds, PTL

LEMMA GaugeTyped == Spec => []Gauge!TypeOK
<1>1. GaugeTypes => Gauge!TypeOK
  BY DEF GaugeTypes, GaugeLines, GaugeCommands, GaugeNames, Gauge!TypeOK
<1> QED
  BY <1>1, GaugeHolds, PTL

----------------------------------------------------------------------------
(***************************************************************************)
(* The usage simulator.  Only the one that is in the databus' data may be  *)
(* at work; a register it answers has the energy it counts.                *)
(***************************************************************************)
Simulators == [at : Usage!Stages, enabled : BOOLEAN, energy : 0..MaxEnergy]

UsageSorts ==
    /\ simulators \in Seq(Simulators)
    /\ present \in 0..Len(simulators)
    /\ register \in Int /\ (register > 0 => register = present)

UsageInv ==
    /\ UsageSorts
    /\ \A s \in 1..Len(simulators) : s # present => simulators[s].at = "stopped"
    /\ caller = "loads" => ~initialized /\ present = 0 /\ register <= 0

LEMMA UsageSteps == Next => Usage!Next \/ UNCHANGED usage
  BY DEF Next, Only, usage

LEMMA UsageStart == Init => UsageInv
  BY DEF Init, Usage!Init, UsageInv, UsageSorts

LEMMA UsageLoads ==
  ASSUME UsageInv, Usage!Load
  PROVE  UsageInv'
<1>1. Usage!Simulator \in Simulators
  BY UsageAssumption DEF Usage!Simulator, Simulators, Usage!Stages
<1>2. CASE UNCHANGED simulators
  BY <1>2 DEF Usage!Load, UsageInv, UsageSorts
<1>3. CASE simulators' = Append(simulators, Usage!Simulator) /\ present' = Len(simulators) + 1
  <2>1. /\ simulators' \in Seq(Simulators)
        /\ Len(simulators') = Len(simulators) + 1
        /\ \A s \in 1..Len(simulators) : simulators'[s] = simulators[s]
    BY <1>1, <1>3, AppendProperties DEF UsageInv, UsageSorts
  <2> QED
    BY <1>3, <2>1 DEF Usage!Load, UsageInv, UsageSorts
<1> QED
  BY <1>2, <1>3 DEF Usage!Load

LEMMA UsageWorks ==
  ASSUME UsageInv, NEW s \in 1..Len(simulators), Usage!Greenlet(s)
  PROVE  /\ UsageInv'
         /\ initialized' = initialized
         /\ Usage!Energy' >= Usage!Energy
<1>1. s = present /\ simulators[s] \in Simulators /\ s \in Nat
  BY ElementOfSeq DEF Usage!Greenlet, Usage!TakeOver, Usage!StartCounter, Usage!Count,
     UsageInv, UsageSorts
<1>2. PICK new \in Simulators :
        /\ UNCHANGED <<initialized, present, caller>>
        /\ simulators' = [simulators EXCEPT ![s] = new]
        /\ \/ register' = register /\ new.energy >= simulators[s].energy
           \/ register' = s /\ initialized /\ new.energy = Usage!Energy
  <2>1. CASE Usage!TakeOver(s)
    <3> DEFINE took == [simulators[s] EXCEPT !.at = "starts", !.energy = Usage!Energy]
    <3>1. Usage!Energy \in 0..MaxEnergy
      BY <1>1, UsageAssumption DEF Usage!Energy, UsageInv, UsageSorts, Simulators
    <3>2. took \in Simulators /\ took.energy = Usage!Energy
      BY <1>1, <3>1 DEF Simulators, Usage!Stages
    <3>3. simulators' = [simulators EXCEPT ![s] = took]
      BY <1>1, <2>1 DEF Usage!TakeOver, Usage!Energy
    <3> QED
      BY <2>1, <3>2, <3>3 DEF Usage!TakeOver
  <2>2. CASE Usage!StartCounter(s)
    <3> DEFINE begun == [simulators[s] EXCEPT !.at = Usage!Round(s)]
    <3>1. begun \in Simulators /\ begun.energy >= simulators[s].energy
      BY <1>1, UsageAssumption DEF Usage!Round, Simulators, Usage!Stages
    <3> QED
      BY <2>2, <3>1 DEF Usage!StartCounter
  <2>3. CASE Usage!Count(s)
    <3> DEFINE old == simulators[s].energy
               more == IF old + Gain > MaxEnergy THEN MaxEnergy ELSE old + Gain
               counted == [simulators[s] EXCEPT !.energy = more, !.at = Usage!Round(s)]
    <3>1. old \in 0..MaxEnergy
      BY <1>1 DEF Simulators
    <3>2. more \in 0..MaxEnergy /\ more >= old
      BY <3>1, UsageAssumption
    <3>3. counted \in Simulators /\ counted.energy >= old
      <4> HIDE DEF more
      <4> QED
        BY <1>1, <3>2 DEF Usage!Round, Simulators, Usage!Stages
    <3>4. simulators' = [simulators EXCEPT ![s] = counted]
      BY <2>3 DEF Usage!Count
    <3> QED
      BY <2>3, <3>3, <3>4 DEF Usage!Count
  <2> QED
    BY <2>1, <2>2, <2>3 DEF Usage!Greenlet
<1>3. /\ simulators' \in Seq(Simulators) /\ Len(simulators') = Len(simulators)
      /\ \A i \in 1..Len(simulators) : simulators'[i] = IF i = s THEN new ELSE simulators[i]
  BY <1>2, ExceptSeq DEF UsageInv, UsageSorts
<1>4. UsageInv'
  BY <1>1, <1>2, <1>3 DEF UsageInv, UsageSorts
<1>5. Usage!Energy' >= Usage!Energy
  <2>1. Usage!Energy \in Int /\ new.energy \in Int
    BY <1>1, UsageAssumption DEF Usage!Energy, UsageInv, UsageSorts, Simulators
  <2>2. Usage!Energy' = IF register' > 0 THEN simulators'[register'].energy ELSE Reading
    BY DEF Usage!Energy
  <2>3. CASE register' = s
    BY <1>1, <1>2, <1>3, <2>1, <2>2, <2>3 DEF Usage!Energy, Simulators, UsageInv, UsageSorts
  <2>4. CASE register' = register /\ register # s
    BY <1>1, <2>1, <2>2, <2>4, UsageAssumption DEF Usage!Energy, UsageInv, UsageSorts
  <2> QED
    BY <1>2, <2>3, <2>4
<1> QED
  BY <1>2, <1>4, <1>5

LEMMA UsageResets ==
  ASSUME UsageInv, (\E next \in {"resets", "reloads"} : Usage!Reset(next)) \/ Usage!Clear
  PROVE  UsageInv' /\ (initialized' => initialized /\ Usage!Energy' = Usage!Energy)
<1>1. ASSUME NEW next \in {"resets", "reloads"}, Usage!Reset(next), present # 0
      PROVE  UsageInv' /\ initialized' = initialized /\ Usage!Energy' = Usage!Energy
  <2> DEFINE new == [simulators[present] EXCEPT !.enabled = FALSE]
  <2>0. simulators[present] \in Simulators
    BY <1>1, ElementOfSeq DEF UsageInv, UsageSorts
  <2>1. new \in Simulators /\ new.at = simulators[present].at
        /\ new.energy = simulators[present].energy
    BY <2>0 DEF Simulators
  <2>2. simulators' = [simulators EXCEPT ![present] = new]
    BY <1>1 DEF Usage!Reset
  <2>3. /\ simulators' \in Seq(Simulators) /\ Len(simulators') = Len(simulators)
        /\ \A i \in 1..Len(simulators) : simulators'[i] = IF i = present THEN new
                                                          ELSE simulators[i]
    BY <1>1, <2>1, <2>2, ExceptSeq DEF UsageInv, UsageSorts
  <2> QED
    BY <1>1, <2>1, <2>3 DEF Usage!Reset, UsageInv, UsageSorts, Usage!Energy
<1>2. ASSUME NEW next \in {"resets", "reloads"}, Usage!Reset(next), present = 0
      PROVE  UsageInv' /\ initialized' = initialized /\ Usage!Energy' = Usage!Energy
  BY <1>2 DEF Usage!Reset, UsageInv, UsageSorts, Usage!Energy
<1>3. CASE Usage!Clear
  BY <1>3 DEF Usage!Clear, Usage!Stopped, UsageInv, UsageSorts
<1> QED
  BY <1>1, <1>2, <1>3

LEMMA UsageMoves ==
  ASSUME UsageInv, Usage!Next
  PROVE  UsageInv' /\ Usage!MeterNeverFalls
<1>1. CASE Usage!Load
  BY <1>1, UsageLoads DEF Usage!Load, UsageInv, Usage!MeterNeverFalls
<1>2. CASE \E s \in 1..Len(simulators) : Usage!Greenlet(s)
  BY <1>2, UsageWorks DEF Usage!MeterNeverFalls
<1>3. CASE Usage!Reset("resets") \/ Usage!Reset("reloads") \/ Usage!Clear
  <2>1. ASSUME register > 0
        PROVE  simulators[register] \in Simulators
    BY <2>1, ElementOfSeq DEF UsageInv, UsageSorts
  <2>2. Usage!Energy \in Int
    BY <2>1, UsageAssumption DEF Usage!Energy, UsageInv, UsageSorts, Simulators
  <2> QED
    BY <2>2, <1>3, UsageResets DEF Usage!MeterNeverFalls
<1> QED
  BY <1>1, <1>2, <1>3 DEF Usage!Next

LEMMA UsageAlone ==
  ASSUME UsageInv
  PROVE  Usage!OneSimulatorRuns
  BY DEF UsageInv, Usage!OneSimulatorRuns

(* The meter has one simulator at a time and never runs backwards, however *)
(* the databus is loaded and reset (databus.py:182-192,                    *)
(* usage_simulator.py:41-64).                                              *)
THEOREM MeterIsOne == Spec => OneMeter
<1>1. Init => UsageInv
  BY UsageStart
<1>2. UsageInv /\ [Next]_vars => UsageInv'
  BY UsageSteps, UsageMoves DEF vars, usage, UsageInv, UsageSorts
<1>3. UsageInv /\ UsageInv' /\ [Next]_vars =>
        [Usage!OneSimulatorRuns' /\ Usage!MeterNeverFalls]_(Usage!vars)
  <2>1. UsageInv' => Usage!OneSimulatorRuns'
    BY UsageAlone, PTL
  <2> QED
    BY <2>1, UsageSteps, UsageMoves DEF vars, usage, Usage!vars
<1> QED
  BY <1>1, <1>2, <1>3, PTL DEF Spec, OneMeter, Usage!OneMeter

(* A simulator is made by a load, so there are no more of them than loads. *)
LEMMA SameLength ==
  ASSUME NEW S, NEW s \in Seq(S), NEW t \in Seq(S), DOMAIN s = DOMAIN t
  PROVE  Len(s) = Len(t)
  BY LenProperties

UsageCounts ==
    /\ register \in -1..MaxLoads /\ (register > 0 => register = present)
    /\ present \in 0..Len(simulators)
    /\ loads \in 0..MaxLoads /\ Len(simulators) <= loads
    /\ caller \in {"reloads", "loads"} => loads < MaxLoads

UsagePhases ==
    /\ initialized \in BOOLEAN
    /\ caller \in {"idle", "resets", "reloads", "loads"}
    /\ caller = "loads" => ~initialized
    /\ initialized => register >= 0 /\ present # 0

UsageTypes == UsageInv /\ UsageCounts /\ UsagePhases

LEMMA UsageTyped == Spec => []Usage!TypeOK
<1>1. Init => UsageTypes
  <2> SUFFICES ASSUME Usage!Init PROVE UsageCounts /\ UsagePhases
    BY UsageStart DEF Init, UsageTypes
  <2>1. UsageCounts
    BY BoundsAssumption, EmptySeq DEF Usage!Init, UsageCounts
  <2>2. UsagePhases
    BY DEF Usage!Init, UsagePhases
  <2> QED
    BY <2>1, <2>2
<1>2. ASSUME UsageTypes, UsageInv', Usage!Load PROVE UsageCounts' /\ UsagePhases'
  <2>1. CASE UNCHANGED <<initialized, present, simulators>> /\ register' \in {-1, 0}
    <3>1. UsageCounts'
      BY <1>2, <2>1, BoundsAssumption DEF Usage!Load, UsageTypes, UsageCounts
    <3>2. UsagePhases'
      BY <1>2, <2>1 DEF Usage!Load, UsageTypes, UsagePhases
    <3> QED
      BY <3>1, <3>2
  <2>2. CASE simulators' = Append(simulators, Usage!Simulator) /\ present' = Len(simulators) + 1
             /\ register' \in {-1, 0} /\ (initialized' => register' = 0)
             /\ initialized' \in BOOLEAN
    <3>1. Len(simulators') = Len(simulators) + 1 /\ Len(simulators) \in Nat
      BY <2>2, <1>2, LenProperties DEF UsageTypes, UsageInv, UsageSorts
    <3>2. UsageCounts'
      <4>1. register' \in -1..MaxLoads /\ ~(register' > 0)
        BY <2>2, BoundsAssumption
      <4>2. present' \in 0..Len(simulators')
        BY <2>2, <3>1
      <4>3. /\ loads' = loads + 1 /\ loads < MaxLoads /\ loads \in Nat /\ Len(simulators) <= loads
            /\ caller' = "idle"
        BY <1>2 DEF Usage!Load, UsageTypes, UsageCounts
      <4>4. loads' \in 0..MaxLoads /\ Len(simulators') <= loads'
        BY <3>1, <4>3, BoundsAssumption
      <4> QED
        BY <4>1, <4>2, <4>3, <4>4 DEF UsageCounts
    <3>3. UsagePhases'
      BY <1>2, <2>2, <3>1 DEF Usage!Load, UsagePhases
    <3> QED
      BY <3>2, <3>3
  <2> QED
    BY <1>2, <2>1, <2>2 DEF Usage!Load
<1>3. ASSUME UsageTypes, UsageInv', NEW s \in 1..Len(simulators), Usage!Greenlet(s)
      PROVE  UsageCounts' /\ UsagePhases'
  <2>1. /\ UNCHANGED <<initialized, present, caller, loads>>
        /\ register' = register \/ register' = s
        /\ DOMAIN simulators' = DOMAIN simulators
        /\ simulators[s].at # "stopped"
    BY <1>3 DEF Usage!Greenlet, Usage!TakeOver, Usage!StartCounter, Usage!Count
  <2>2. s = present
    BY <1>3, <2>1 DEF UsageTypes, UsageInv
  <2>3. Len(simulators') = Len(simulators)
    BY <1>3, <2>1, SameLength DEF UsageTypes, UsageInv, UsageSorts
  <2>4. UsageCounts'
    <3>1. s \in -1..MaxLoads
      BY <1>3, BoundsAssumption DEF UsageTypes, UsageCounts
    <3> QED
      BY <1>3, <2>1, <2>2, <2>3, <3>1 DEF UsageTypes, UsageCounts
  <2>5. UsagePhases'
    <3>1. register' \in Int /\ (register' >= register \/ register' >= 0)
      BY <1>3, <2>1 DEF UsageTypes, UsageCounts
    <3> QED
      BY <1>3, <2>1, <2>2, <3>1 DEF UsageTypes, UsagePhases, UsageCounts
  <2> QED
    BY <2>4, <2>5
<1>4. ASSUME UsageTypes, UsageInv', NEW next \in {"resets", "reloads"}, Usage!Reset(next)
      PROVE  UsageCounts' /\ UsagePhases'
  <2>1. DOMAIN simulators' = DOMAIN simulators
    BY <1>4 DEF Usage!Reset
  <2>2. Len(simulators') = Len(simulators)
    BY <1>4, <2>1, SameLength DEF UsageTypes, UsageInv, UsageSorts
  <2>3. UsageCounts'
    BY <1>4, <2>2 DEF Usage!Reset, UsageTypes, UsageCounts
  <2>4. UsagePhases'
    BY <1>4 DEF Usage!Reset, UsageTypes, UsagePhases
  <2> QED
    BY <2>3, <2>4
<1>5. ASSUME UsageTypes, UsageInv', Usage!Clear
      PROVE  UsageCounts' /\ UsagePhases'
  <2>1. UsageCounts'
    BY <1>5, BoundsAssumption, LenProperties DEF Usage!Clear, UsageTypes, UsageCounts, UsageInv, UsageSorts
  <2>2. UsagePhases'
    BY <1>5 DEF Usage!Clear, UsageTypes, UsagePhases
  <2> QED
    BY <2>1, <2>2
<1>6. ASSUME UsageTypes, UsageInv', UNCHANGED usage
      PROVE  UsageCounts' /\ UsagePhases'
  BY <1>6 DEF usage, UsageTypes, UsageCounts, UsagePhases
<1>7. UsageTypes /\ [Next]_vars => UsageTypes'
  <2> SUFFICES ASSUME UsageTypes, [Next]_vars PROVE UsageTypes'
    OBVIOUS
  <2>1. Usage!Next \/ UNCHANGED usage
    BY UsageSteps DEF vars
  <2>2. UsageInv'
    BY <2>1, UsageMoves DEF UsageTypes, usage, UsageInv, UsageSorts
  <2>3. UsageCounts' /\ UsagePhases'
    BY <1>2, <1>3, <1>4, <1>5, <1>6, <2>1, <2>2 DEF Usage!Next
  <2> QED
    BY <2>2, <2>3 DEF UsageTypes
<1>8. UsageTypes => Usage!TypeOK
  BY DEF UsageTypes, UsageInv, UsageSorts, Simulators, UsageCounts, UsagePhases, Usage!TypeOK
<1> QED
  BY <1>1, <1>7, <1>8, PTL DEF Spec

----------------------------------------------------------------------------
(***************************************************************************)
(* S7comm.  While the client keeps to the protocol at most one packet is   *)
(* on its way: the one that the server, in the phase it is in, expects.    *)
(***************************************************************************)
\* What a client that keeps to the protocol sends as its request after n.
Expected(request, n) ==
    /\ request.kind = CASE n = 0 -> "connect"
                        [] n = 1 -> "negotiate"
                        [] OTHER -> "diagnostics"
    /\ request.kind = "diagnostics" => S7comm!Meant(request.lists) # {}

Phase(n) == CASE n = 0 -> "connect" [] n = 1 -> "negotiate" [] OTHER -> "serve"

S7Inv ==
    /\ asked \in Nat /\ replied \in Nat /\ packets \in Seq(S7comm!Pieces)
    /\ proper => /\ phase \in {"closed", Phase(replied)}
                 /\ \/ packets = <<>> /\ (phase # "closed" => replied = asked)
                    \/ /\ Len(packets) = 1 /\ asked = replied + 1
                       /\ packets[1].part = "whole" /\ Expected(packets[1].job, replied)

LEMMA S7Steps == Next => S7comm!Next \/ UNCHANGED s7comm
  BY DEF Next, Only, s7comm

S7Receive == \E n \in 1..3 : S7comm!First(n) \/ S7comm!Later(n)

\* What ProperClientIsAnswered says of a step.
S7Answered ==
    IF S7comm!Raises(Head(packets).job.lists) THEN replied' = replied /\ phase' = "closed"
    ELSE replied' = replied + 1

LEMMA S7Sends ==
  ASSUME S7Inv, NEW request \in S7comm!Jobs, NEW cut \in BOOLEAN, S7comm!Send(request, cut)
  PROVE  S7Inv' /\ Len(packets') > Len(packets)
<1> DEFINE whole == <<[job |-> request, part |-> "whole"]>>
           split == <<[job |-> request, part |-> "head"], [job |-> request, part |-> "rest"]>>
<1>1. PICK new \in {whole, split} : /\ packets' = packets \o new
                                    /\ ~cut => new = whole
  BY DEF S7comm!Send
<1>2. new \in Seq(S7comm!Pieces) /\ Len(new) \in 1..2
  <2>1. whole \in Seq(S7comm!Pieces) /\ Len(whole) = 1
    BY DEF S7comm!Pieces
  <2>2. split \in Seq(S7comm!Pieces) /\ Len(split) = 2
    BY DEF S7comm!Pieces
  <2>3. new = whole \/ new = split
    BY <1>1
  <2> HIDE DEF whole, split
  <2>4. CASE new = whole
    BY <2>1, <2>4
  <2>5. CASE new = split
    BY <2>2, <2>5
  <2> QED
    BY <2>3, <2>4, <2>5
<1>3. packets' \in Seq(S7comm!Pieces) /\ Len(packets') > Len(packets)
  <2>1. packets \in Seq(S7comm!Pieces) /\ Len(packets) \in Nat
    BY LenProperties DEF S7Inv
  <2> HIDE DEF whole, split
  <2>2. packets' \in Seq(S7comm!Pieces) /\ Len(packets') = Len(packets) + Len(new)
    <3>1. packets' = packets \o new /\ new \in Seq(S7comm!Pieces)
      BY <1>1, <1>2
    <3> QED
      BY <2>1, <3>1, ConcatProperties, Zenon
  <2>3. Len(packets) + Len(new) > Len(packets)
    <3>1. Len(new) \in 1..2 /\ Len(packets) \in Nat
      BY <1>2, <2>1
    <3> QED
      BY <3>1
  <2> QED
    BY <2>2, <2>3, Zenon
<1>4. proper' => proper /\ S7comm!Proper(request, cut)
  BY DEF S7comm!Send
<1>5. ASSUME proper'
      PROVE  /\ packets = <<>> /\ ~cut /\ replied = asked /\ Expected(request, replied)
             /\ phase \in {"closed", Phase(replied)}
  BY <1>4, <1>5, EmptySeq DEF S7Inv, S7comm!Proper, Expected
<1>6. ASSUME proper'
      PROVE  Len(packets') = 1 /\ packets'[1].part = "whole" /\ packets'[1].job = request
  <2>1. packets' = whole
    <3>1. packets' = <<>> \o new /\ new = whole
      BY <1>1, <1>5, <1>6
    <3> HIDE DEF whole, split
    <3> QED
      BY <1>2, <3>1, ConcatEmptySeq
  <2> QED
    BY <2>1
<1>7. asked' = asked + 1 /\ replied' = replied /\ phase' = phase
  BY DEF S7comm!Send
<1>8. ASSUME proper'
      PROVE  /\ phase' \in {"closed", Phase(replied')} /\ asked' = replied' + 1
             /\ Expected(packets'[1].job, replied')
  BY <1>5, <1>6, <1>7, <1>8
<1>9. asked' \in Nat /\ replied' \in Nat
  BY <1>7 DEF S7Inv
<1> HIDE DEF whole, split
<1> QED
  BY <1>3, <1>6, <1>8, <1>9 DEF S7Inv

(* What is left on the connection are pieces of packets.                   *)
LEMMA S7Leaves ==
  ASSUME S7Inv, NEW n \in 1..3, S7comm!First(n) \/ S7comm!Later(n)
  PROVE  /\ packets' \in Seq(S7comm!Pieces) /\ n <= Len(packets) /\ packets # <<>>
         /\ packets' = SubSeq(packets, n + 1, Len(packets)) \/ Head(packets).part = "rest"
<1>1. /\ packets \in Seq(S7comm!Pieces) /\ Len(packets) \in Nat /\ n <= Len(packets)
      /\ DOMAIN packets = 1..Len(packets)
  BY LenProperties DEF S7Inv, S7comm!First, S7comm!Later
<1>2. packets # <<>>
  BY <1>1, EmptySeq
<1>3. SubSeq(packets, n + 1, Len(packets)) \in Seq(S7comm!Pieces)
  BY <1>1, SubSeqProperties
<1>4. <<[packets[n] EXCEPT !.part = "rest"]>> \in Seq(S7comm!Pieces)
  <2>1. packets[n] \in S7comm!Pieces
    BY <1>1, ElementOfSeq
  <2>2. [packets[n] EXCEPT !.part = "rest"] \in S7comm!Pieces
    BY <2>1 DEF S7comm!Pieces
  <2> QED
    BY <2>2
<1>5. <<[packets[n] EXCEPT !.part = "rest"]>> \o SubSeq(packets, n + 1, Len(packets))
        \in Seq(S7comm!Pieces)
  BY <1>3, <1>4, ConcatProperties
<1> QED
  BY <1>1, <1>2, <1>3, <1>5 DEF S7comm!First, S7comm!Later

(* A packet that is received from a client that keeps to the protocol is   *)
(* answered, and the phases go on together, or it raises.                  *)
LEMMA S7Receives ==
  ASSUME S7Inv, S7Receive
  PROVE  S7Inv' /\ (proper => S7Answered)
<1>1. PICK n \in 1..3 : S7comm!First(n) \/ S7comm!Later(n)
  BY DEF S7Receive
<1>2. /\ packets' \in Seq(S7comm!Pieces) /\ n <= Len(packets) /\ packets # <<>>
      /\ packets' = SubSeq(packets, n + 1, Len(packets)) \/ Head(packets).part = "rest"
  BY <1>1, S7Leaves
<1>3. /\ UNCHANGED <<asked, proper>> /\ replied' \in {replied, replied + 1}
      /\ phase # "closed" /\ S7comm!Taken(n)
  <2>1. UNCHANGED <<asked, proper>> /\ phase # "closed" /\ S7comm!Taken(n)
    BY <1>1 DEF S7comm!First, S7comm!Later
  <2> QED
    BY <2>1 DEF S7comm!Taken, S7comm!Handle, S7comm!Connect, S7comm!Negotiate, S7comm!Diagnose,
       S7comm!Answer, S7comm!Ignore
<1> DEFINE request == Head(packets).job
<1>4. ASSUME proper
      PROVE  /\ packets' = <<>> /\ asked = replied + 1 /\ S7comm!Handle(request)
             /\ request \in S7comm!Jobs /\ Expected(request, replied) /\ phase = Phase(replied)
  <2>1. packets[1] = Head(packets) /\ Head(packets) \in S7comm!Pieces
    BY <1>2, HeadTailProperties DEF S7Inv
  <2>2. /\ Len(packets) = 1 /\ asked = replied + 1 /\ Head(packets).part = "whole"
        /\ Expected(request, replied) /\ phase = Phase(replied)
    BY <1>2, <1>3, <1>4, <2>1 DEF S7Inv
  <2>3. packets' = SubSeq(packets, n + 1, 1) /\ n = 1
    BY <1>2, <2>2
  <2>4. packets' = <<>>
    <3>1. Len(packets') = 0
      <4>1. packets \in Seq(S7comm!Pieces)
        BY DEF S7Inv
      <4>2. packets' = SubSeq(packets, 2, 1)
        BY <2>3
      <4> QED
        BY <2>2, <4>1, <4>2, SubSeqProperties
    <3> QED
      BY <1>2, <3>1, EmptySeq, LenProperties
  <2>5. S7comm!Handle(request)
    BY <1>3, <2>2 DEF S7comm!Taken
  <2> QED
    BY <2>1, <2>2, <2>4, <2>5 DEF S7comm!Pieces
<1> HIDE DEF request
<1>5. ASSUME proper
      PROVE  /\ phase' \in {"closed", Phase(replied')}
             /\ phase' # "closed" => replied' = replied + 1
             /\ IF S7comm!Raises(request.lists) THEN replied' = replied /\ phase' = "closed"
                ELSE replied' = replied + 1
  <2>1. replied \in Nat
    BY DEF S7Inv
  <2>2. ASSUME replied \in {0, 1} PROVE ~S7comm!Raises(request.lists)
    <3>1. request.kind \in {"connect", "negotiate"}
      BY <1>4, <1>5, <2>2 DEF Expected
    <3>2. request.lists = <<>>
      BY <1>4, <1>5, <3>1 DEF S7comm!Jobs
    <3> QED
      BY <3>2 DEF S7comm!Raises, S7comm!Meant
  <2>3. CASE replied = 0
    <3>1. phase = "connect" /\ request.kind = "connect" /\ Phase(replied + 1) = "negotiate"
      BY <1>4, <1>5, <2>3 DEF Phase, Expected
    <3> QED
      BY <1>4, <1>5, <2>2, <2>3, <3>1 DEF S7comm!Handle, S7comm!Connect, S7comm!Answer
  <2>4. CASE replied = 1
    <3>1. phase = "negotiate" /\ request.kind = "negotiate" /\ Phase(replied + 1) = "serve"
      BY <1>4, <1>5, <2>4 DEF Phase, Expected
    <3> QED
      BY <1>4, <1>5, <2>2, <2>4, <3>1 DEF S7comm!Handle, S7comm!Negotiate, S7comm!Answer
  <2>5. CASE replied \notin {0, 1}
    <3>1. request.kind = "diagnostics" /\ phase = "serve" /\ Phase(replied + 1) = "serve"
      BY <1>4, <1>5, <2>1, <2>5 DEF Expected, Phase
    <3>2. S7comm!Diagnose(request)
      BY <1>4, <1>5, <3>1 DEF S7comm!Handle
    <3>3. PICK list \in S7comm!Meant(request.lists) : TRUE
      BY <1>4, <1>5, <3>1 DEF Expected
    <3>4. \A other \in S7comm!Meant(request.lists) : other = list
      <4>1. DOMAIN request.lists \in {1..1, 1..2}
        BY <1>4, <1>5, <3>1 DEF S7comm!Jobs
      <4> QED
        BY <3>3, <4>1 DEF S7comm!Meant
    <3>5. S7comm!Answers(request.lists) <=> ~S7comm!Raises(request.lists)
      BY <3>3, <3>4 DEF S7comm!Answers, S7comm!Raises
    <3>6. CASE S7comm!Answers(request.lists)
      BY <3>1, <3>2, <3>5, <3>6 DEF S7comm!Diagnose, S7comm!Answer
    <3>7. CASE ~S7comm!Answers(request.lists)
      BY <3>1, <3>2, <3>5, <3>7 DEF S7comm!Diagnose, S7comm!Ignore
    <3> QED
      BY <3>6, <3>7
  <2> QED
    BY <2>3, <2>4, <2>5
<1>6. asked' \in Nat /\ replied' \in Nat
  BY <1>3 DEF S7Inv
<1>7. proper' => /\ phase' \in {"closed", Phase(replied')} /\ packets' = <<>>
                 /\ phase' # "closed" => replied' = asked'
  BY <1>3, <1>4, <1>5
<1>8. S7Inv'
  BY <1>2, <1>6, <1>7 DEF S7Inv
<1> QED
  BY <1>5, <1>8 DEF S7Answered, request

(* A client that keeps to the protocol gets an answer to every request     *)
(* that is received, unless it asks for what cannot be packed              *)
(* (s7_server.py:63-170, s7.py:191-230).                                   *)
THEOREM ProperIsAnswered == Spec => ProperClientIsAnswered
<1>1. Init => S7Inv
  BY EmptySeq DEF Init, S7comm!Init, S7Inv, Phase
<1>2. S7Inv /\ [Next]_vars =>
        S7Inv' /\ [proper /\ Len(packets') < Len(packets) => S7Answered]_(S7comm!vars)
  <2>1. ASSUME S7Inv, UNCHANGED s7comm PROVE S7Inv' /\ UNCHANGED S7comm!vars
    BY <2>1 DEF S7Inv, s7comm, S7comm!vars
  <2>2. ASSUME S7Inv, S7comm!Leave PROVE S7Inv' /\ packets' = packets
    BY <2>2 DEF S7Inv, S7comm!Leave, S7comm!Ignore
  <2>3. ASSUME S7Inv, NEW request \in S7comm!Jobs, NEW cut \in BOOLEAN, S7comm!Send(request, cut)
        PROVE  S7Inv' /\ ~(Len(packets') < Len(packets))
    <3>1. S7Inv' /\ Len(packets') > Len(packets)
      BY <2>3, S7Sends
    <3>2. Len(packets) \in Nat /\ Len(packets') \in Nat
      BY <2>3, <3>1, LenProperties DEF S7Inv
    <3> QED
      BY <3>1, <3>2
  <2>4. ~(Len(packets) < Len(packets)) \/ ~S7Inv
    BY LenProperties DEF S7Inv
  <2>5. S7comm!Next => \/ S7Receive \/ S7comm!Leave
                       \/ \E request \in S7comm!Jobs, cut \in BOOLEAN : S7comm!Send(request, cut)
    BY DEF S7comm!Next, S7Receive
  <2> QED
    BY <2>1, <2>2, <2>3, <2>4, <2>5, S7Steps, S7Receives DEF vars
<1> QED
  BY <1>1, <1>2, PTL DEF Spec, ProperClientIsAnswered, S7comm!ProperClientIsAnswered, S7Answered

S7Phases ==
    /\ asked \in 0..MaxJobs /\ proper \in BOOLEAN
    /\ phase \in {"connect", "negotiate", "serve", "closed"}

S7Types == S7Inv /\ S7Phases

LEMMA S7Typed == Spec => []S7comm!TypeOK
<1>1. Init => S7Types
  BY BoundsAssumption, EmptySeq DEF Init, S7comm!Init, S7Inv, Phase, S7Phases, S7Types
<1>2. ASSUME S7Types, NEW request \in S7comm!Jobs, NEW cut \in BOOLEAN, S7comm!Send(request, cut)
      PROVE  S7Types'
  <2>1. S7Inv'
    BY <1>2, S7Sends DEF S7Types
  <2>2. S7Phases'
    BY <1>2, BoundsAssumption DEF S7Types, S7Phases, S7comm!Send
  <2> QED
    BY <2>1, <2>2 DEF S7Types
<1>3. ASSUME S7Types, S7Receive PROVE S7Types'
  <2>1. PICK n \in 1..3 : S7comm!First(n) \/ S7comm!Later(n)
    BY <1>3 DEF S7Receive
  <2>2. UNCHANGED <<asked, proper>> /\ S7comm!Taken(n)
    BY <2>1 DEF S7comm!First, S7comm!Later
  <2>3. phase' \in {"connect", "negotiate", "serve", "closed"}
    BY <2>2 DEF S7comm!Taken, S7comm!Handle, S7comm!Connect, S7comm!Negotiate,
       S7comm!Diagnose, S7comm!Answer, S7comm!Ignore
  <2> QED
    BY <1>3, <2>2, <2>3, S7Receives DEF S7Types, S7Phases
<1>4. ASSUME S7Types, S7comm!Leave PROVE S7Types'
  BY <1>4 DEF S7Types, S7Inv, S7Phases, S7comm!Leave, S7comm!Ignore
<1>5. ASSUME S7Types, UNCHANGED s7comm PROVE S7Types'
  BY <1>5 DEF S7Types, S7Inv, S7Phases, s7comm
<1>6. S7Types /\ [Next]_vars => S7Types'
  BY <1>2, <1>3, <1>4, <1>5, S7Steps DEF S7comm!Next, S7Receive, vars
<1>7. S7Types => S7comm!TypeOK
  BY DEF S7Types, S7Inv, S7Phases, S7comm!TypeOK
<1> QED
  BY <1>1, <1>6, <1>7, PTL DEF Spec

----------------------------------------------------------------------------
(***************************************************************************)
(* SNMP.  An object that was set in both places, and that nobody else has  *)
(* written since, has its value in both; a read that waits has read it.    *)
(***************************************************************************)
SnmpStore ==
    /\ DOMAIN mib = Snmp!OidNames /\ DOMAIN written = Snmp!OidNames
    /\ DOMAIN bus = Mapped
    /\ \A oid \in Snmp!OidNames : written[oid] # Snmp!Unset =>
         /\ mib[oid] = written[oid]
         /\ oid \in Snmp!Shown => bus[oid] = written[oid]

\* An answer that gives what it owes.
Gives(binds) ==
    \A oid \in DOMAIN binds : binds[oid].owed # Snmp!Unset => binds[oid].value = binds[oid].owed

\* What is in the tarpit.
SnmpWaiting(w) ==
    /\ DOMAIN w = {"id", "command", "first", "asked", "binds"}
    /\ w.asked \in SUBSET Snmp!OidNames /\ w.first \in w.asked
    /\ w.command \in {"get", "next"} => Gives(w.binds)

SnmpReads ==
    /\ SnmpStore
    /\ \A w \in waiting : SnmpWaiting(w)
    /\ Gives(answered)

LEMMA SnmpSteps == Next => Snmp!Next \/ UNCHANGED snmp
  BY DEF Next, Only, snmp

(* The class and the fallback do not matter for what was set.              *)
LEMMA SnmpResponse ==
  ASSUME SnmpStore, NEW first \in Snmp!OidNames, NEW objects \in SUBSET Snmp!OidNames
  PROVE  Gives(Snmp!Response(first, objects))
<1>1. CASE Snmp!OnBus(first)
  <2>1. Snmp!Response(first, objects) = [oid \in {first} |-> Snmp!Bind(oid, bus[oid])]
    BY <1>1 DEF Snmp!Response
  <2>2. written[first] # Snmp!Unset => bus[first] = written[first]
    BY <1>1 DEF SnmpStore, Snmp!OnBus
  <2> QED
    BY <2>1, <2>2 DEF Gives, Snmp!Bind
<1>2. CASE ~Snmp!OnBus(first)
  <2>1. Snmp!Response(first, objects) = [oid \in objects |-> Snmp!Bind(oid, mib[oid])]
    BY <1>2 DEF Snmp!Response
  <2>2. \A oid \in objects : written[oid] # Snmp!Unset => mib[oid] = written[oid]
    BY DEF SnmpStore
  <2> QED
    BY <2>1, <2>2 DEF Gives, Snmp!Bind
<1> QED
  BY <1>1, <1>2

LEMMA NoAnswerGives == Gives(Snmp!NoAnswer)
  BY DEF Gives, Snmp!NoAnswer

LEMMA SnmpArrives ==
  ASSUME SnmpReads, NEW command, NEW client, NEW enter,
         \A w \in enter : SnmpWaiting(w), Snmp!Arrive(command, client, enter)
  PROVE  SnmpReads'
<1>1. /\ UNCHANGED <<mib, bus, written>>
      /\ waiting' \subseteq waiting \cup enter
      /\ answered' = Snmp!NoAnswer
  BY DEF Snmp!Arrive, Snmp!store
<1>2. Gives(answered')
  BY <1>1, NoAnswerGives
<1>3. SnmpStore'
  BY <1>1 DEF SnmpReads, SnmpStore
<1> QED
  BY <1>1, <1>2, <1>3 DEF SnmpReads, SnmpWaiting

LEMMA SnmpEnters ==
  ASSUME SnmpReads, NEW client,
         \/ Snmp!Get(client) \/ Snmp!GetNext(client)
         \/ Snmp!Bulk(client) \/ Snmp!Set(client)
  PROVE  SnmpReads'
<1>1. ASSUME NEW command \in {"get", "next"}, NEW objects \in SUBSET Snmp!OidNames,
             NEW first \in objects
      PROVE  SnmpWaiting(Snmp!Read(command, first, objects))
  <2>1. Gives(Snmp!Response(first, objects))
    BY SnmpResponse DEF SnmpReads
  <2> QED
    BY <2>1 DEF SnmpWaiting, Snmp!Read
<1>2. CASE Snmp!Get(client)
  <2>1. PICK objects \in SUBSET Snmp!OidNames : \E first \in objects :
          Snmp!Arrive("get", client, {Snmp!Read("get", first, objects)})
    BY <1>2 DEF Snmp!Get
  <2>2. PICK first \in objects : Snmp!Arrive("get", client, {Snmp!Read("get", first, objects)})
    BY <2>1
  <2> QED
    BY <1>1, <2>2, SnmpArrives
<1>3. CASE Snmp!GetNext(client)
  <2>1. PICK objects \in SUBSET Snmp!OidNames : \E first \in objects :
          Snmp!Arrive("next", client, {Snmp!Read("next", first, objects)})
    BY <1>3 DEF Snmp!GetNext, Snmp!OidNames
  <2>2. PICK first \in objects : Snmp!Arrive("next", client, {Snmp!Read("next", first, objects)})
    BY <2>1
  <2> QED
    BY <1>1, <2>2, SnmpArrives
<1>4. CASE Snmp!Bulk(client)
  BY <1>4, SnmpArrives DEF Snmp!Bulk
<1>5. CASE Snmp!Set(client)
  <2>1. PICK objects \in SUBSET Snmp!OidNames : \E first \in objects, values \in [objects -> Numbers] :
          Snmp!Arrive("set", client,
            {[id |-> Snmp!FreeId, command |-> "set", first |-> first, asked |-> objects,
              binds |-> [oid \in objects |-> [value |-> values[oid], owed |-> Snmp!Unset]]]})
    BY <1>5 DEF Snmp!Set
  <2>2. PICK first \in objects, values \in [objects -> Numbers] :
          Snmp!Arrive("set", client,
            {[id |-> Snmp!FreeId, command |-> "set", first |-> first, asked |-> objects,
              binds |-> [oid \in objects |-> [value |-> values[oid], owed |-> Snmp!Unset]]]})
    BY <2>1
  <2> QED
    BY <2>2, SnmpArrives DEF SnmpWaiting
<1> QED
  BY <1>2, <1>3, <1>4, <1>5

\* What SkipNext puts in the place of an answer.
Skipped(w, first, objects) ==
    [w EXCEPT !.first = first, !.asked = objects, !.binds = Snmp!Response(first, objects)]

LEMMA SnmpSkips ==
  ASSUME NEW w, w.asked \in SUBSET Snmp!OidNames, w.first \in w.asked, Snmp!SkipNext(w)
  PROVE  \E objects \in SUBSET Snmp!OidNames : \E first \in objects :
           waiting' = (waiting \ {w}) \cup {Skipped(w, first, objects)}
<1>1. PICK i \in DOMAIN Oids \ {1} :
        LET old == Oids[i - 1]
            first == IF w.first = old THEN Oids[i] ELSE w.first
            objects == (w.asked \ {old}) \cup {Oids[i]}
        IN  waiting' = (waiting \ {w}) \cup {Skipped(w, first, objects)}
  BY DEF Snmp!SkipNext, Skipped
<1> DEFINE old == Oids[i - 1]
           first == IF w.first = old THEN Oids[i] ELSE w.first
           objects == (w.asked \ {old}) \cup {Oids[i]}
<1>2. waiting' = (waiting \ {w}) \cup {Skipped(w, first, objects)}
  BY <1>1
<1>3. Oids[i] \in Snmp!OidNames
  BY DEF Snmp!OidNames
<1>4. objects \in SUBSET Snmp!OidNames /\ first \in objects
  BY <1>3
<1> HIDE DEF old, first, objects
<1> QED
  BY <1>2, <1>4

LEMMA SnmpLeaves ==
  ASSUME SnmpReads, NEW w \in waiting,
         Snmp!SendRsp(w) \/ Snmp!SkipNext(w) \/ Snmp!Write(w)
  PROVE  SnmpReads'
<1>1. SnmpWaiting(w)
  BY DEF SnmpReads
<1>2. CASE Snmp!SendRsp(w)
  <2>1. SnmpStore' /\ waiting' \subseteq waiting /\ answered' = w.binds
    BY <1>2 DEF SnmpReads, SnmpStore, Snmp!SendRsp, Snmp!store
  <2>2. Gives(answered')
    BY <1>1, <1>2, <2>1 DEF SnmpWaiting, Snmp!SendRsp
  <2> QED
    BY <2>1, <2>2 DEF SnmpReads, SnmpWaiting
<1>3. CASE Snmp!SkipNext(w)
  <2>0. PICK objects \in SUBSET Snmp!OidNames : \E first \in objects :
          waiting' = (waiting \ {w}) \cup {Skipped(w, first, objects)}
    BY <1>1, <1>3, SnmpSkips DEF SnmpWaiting
  <2>1. PICK first \in objects : waiting' = (waiting \ {w}) \cup {Skipped(w, first, objects)}
    BY <2>0
  <2>2. SnmpStore' /\ answered' = Snmp!NoAnswer /\ w.command = "next"
    BY <1>3 DEF Snmp!SkipNext, Snmp!store, SnmpReads, SnmpStore
  <2>3. SnmpWaiting(Skipped(w, first, objects))
    <3>1. Gives(Snmp!Response(first, objects))
      BY SnmpResponse DEF SnmpReads
    <3> QED
      BY <1>1, <2>2, <3>1 DEF SnmpWaiting, Skipped
  <2>4. Gives(answered')
    BY <2>2, NoAnswerGives
  <2> HIDE DEF Skipped
  <2> QED
    BY <2>1, <2>2, <2>3, <2>4 DEF SnmpReads, SnmpWaiting
<1>4. CASE Snmp!Write(w)
  <2>1. SnmpStore'
    <3>1. DOMAIN mib' = Snmp!OidNames /\ DOMAIN written' = Snmp!OidNames /\ DOMAIN bus' = Mapped
      BY <1>4 DEF Snmp!Write
    <3>2. ASSUME NEW oid \in Snmp!OidNames, written'[oid] # Snmp!Unset
          PROVE  mib'[oid] = written'[oid] /\ (oid \in Snmp!Shown => bus'[oid] = written'[oid])
      <4>1. CASE oid \in w.asked
        BY <1>4, <3>2, <4>1 DEF Snmp!Write, Snmp!Shown
      <4>2. CASE oid \notin w.asked
        <5>1. oid # w.first
          BY <1>1, <1>4, <4>2 DEF SnmpWaiting, Snmp!Write
        <5> QED
          BY <1>4, <3>2, <4>2, <5>1 DEF Snmp!Write, Snmp!Shown, SnmpReads, SnmpStore
      <4> QED
        BY <4>1, <4>2
    <3> QED
      BY <3>1, <3>2 DEF SnmpStore
  <2>2. waiting' \subseteq waiting /\ Gives(answered')
    BY <1>4, NoAnswerGives DEF Snmp!Write
  <2> QED
    BY <2>1, <2>2 DEF SnmpReads, SnmpWaiting
<1> QED
  BY <1>2, <1>3, <1>4

(* What was set in both places is read back from either, for any objects   *)
(* that requests name together, and whatever reads and writes wait         *)
(* (conpot_cmdrsp.py:112-122, 281-293, databus_mediator.py:36-66).         *)
THEOREM SetsAreReadBack == Spec => []SetIsReadBack
<1>1. Init => SnmpReads
  BY NoAnswerGives DEF Init, Snmp!Init, SnmpReads, SnmpStore
<1>2. SnmpReads /\ [Next]_vars => SnmpReads'
  <2>1. ASSUME SnmpReads, UNCHANGED <<mib, bus, written, waiting>>,
               answered' \in {answered, Snmp!NoAnswer}
        PROVE  SnmpReads'
    <3>1. Gives(answered')
      BY <2>1, NoAnswerGives DEF SnmpReads
    <3>2. SnmpStore'
      BY <2>1 DEF SnmpReads, SnmpStore
    <3> QED
      BY <2>1, <3>1, <3>2 DEF SnmpReads, SnmpWaiting
  <2>2. ASSUME SnmpReads, NEW oid \in Mapped, Snmp!BusWrite(oid) PROVE SnmpReads'
    <3>1. SnmpStore'
      BY <2>2, SnmpAssumption DEF SnmpReads, SnmpStore, Snmp!BusWrite, Snmp!Shown
    <3>2. UNCHANGED waiting /\ Gives(answered')
      BY <2>2, NoAnswerGives DEF Snmp!BusWrite
    <3> QED
      BY <2>2, <3>1, <3>2 DEF SnmpReads, SnmpWaiting
  <2>3. Snmp!Minute => UNCHANGED <<mib, bus, written, waiting>> /\ answered' = Snmp!NoAnswer
    BY DEF Snmp!Minute, Snmp!store
  <2>4. UNCHANGED snmp => UNCHANGED <<mib, bus, written, waiting, answered>>
    BY DEF snmp
  <2> QED
    BY <2>1, <2>2, <2>3, <2>4, SnmpSteps, SnmpEnters, SnmpLeaves DEF Snmp!Next, vars
<1>3. SnmpReads => SetIsReadBack
  BY DEF SnmpReads, Gives, SetIsReadBack, Snmp!SetIsReadBack
<1> QED
  BY <1>1, <1>2, <1>3, PTL DEF Spec

(***************************************************************************)
(* The evasion table counts at least what was admitted in its minute.      *)
(***************************************************************************)
SnmpCounts ==
    /\ now \in Nat /\ minute \in Nat
    /\ table \in [Snmp!Counters -> Nat]
    /\ admitted \in [Snmp!Commands -> [Snmp!Counters -> Nat]]
    /\ \A command \in Snmp!Commands, c \in Snmp!Counters :
         admitted[command][c] <= table[c]
    /\ EvasionHolds

LEMMA SnmpCounted ==
  ASSUME SnmpCounts, NEW command \in Snmp!Commands, NEW client \in Clients, NEW enter,
         Snmp!Arrive(command, client, enter)
  PROVE  SnmpCounts'
<1> DEFINE old(com, c) == IF minute = now THEN admitted[com][c] ELSE 0
           fresh == IF minute = now THEN table ELSE [c \in DOMAIN table |-> 0]
           passes(com, c) == /\ ~Snmp!Evasive(command, client)
                             /\ com = command /\ c \in {client, "overall"}
<1>1. now' = now /\ minute' = now /\ table' = Snmp!Counted(client)
  BY DEF Snmp!Arrive
<1>2. /\ admitted' \in [Snmp!Commands -> [Snmp!Counters -> Nat]]
      /\ \A com \in Snmp!Commands, c \in Snmp!Counters :
           admitted'[com][c] = old(com, c) + IF passes(com, c) THEN 1 ELSE 0
  <2> DEFINE new == [com \in Snmp!Commands |-> [c \in Snmp!Counters |->
                       old(com, c) + IF passes(com, c) THEN 1 ELSE 0]]
  <2>1. admitted' = new
    BY DEF Snmp!Arrive
  <2>2. new \in [Snmp!Commands -> [Snmp!Counters -> Nat]]
    BY DEF SnmpCounts
  <2>3. ASSUME NEW com \in Snmp!Commands, NEW c \in Snmp!Counters
        PROVE  new[com][c] = old(com, c) + IF passes(com, c) THEN 1 ELSE 0
    OBVIOUS
  <2> QED
    BY <2>1, <2>2, <2>3
<1>3. fresh \in [Snmp!Counters -> Nat]
  BY DEF SnmpCounts
<1>4. /\ table' \in [Snmp!Counters -> Nat]
      /\ \A c \in Snmp!Counters : /\ table'[c] >= fresh[c]
                                  /\ c \in {client, "overall"} => table'[c] > fresh[c]
  <2>1. table' = [fresh EXCEPT ![client] = @ + 1, !["overall"] = @ + 1]
    BY <1>1 DEF Snmp!Counted
  <2> HIDE DEF fresh
  <2> QED
    BY <1>3, <2>1 DEF Snmp!Counters
<1>5. \A com \in Snmp!Commands, c \in Snmp!Counters :
        old(com, c) \in Nat /\ old(com, c) <= fresh[c]
  BY DEF SnmpCounts
<1>6. \A com \in Snmp!Commands, c \in Snmp!Counters : admitted'[com][c] <= table'[c]
  <2> HIDE DEF fresh, old, passes
  <2>1. ASSUME NEW com, NEW c, passes(com, c) PROVE c \in {client, "overall"}
    BY <2>1 DEF passes
  <2> QED
    BY <1>2, <1>3, <1>4, <1>5, <2>1
<1>7. ASSUME NEW com \in Snmp!Commands, NEW c \in Snmp!Counters,
             NEW most \in Nat, admitted[com][c] <= most,
             passes(com, c) => table'[c] <= most
      PROVE  admitted'[com][c] <= most
  <2>1. CASE passes(com, c)
    BY <1>2, <1>4, <1>6, <1>7, <2>1
  <2>2. CASE ~passes(com, c)
    BY <1>2, <1>7, <2>2 DEF SnmpCounts
  <2> QED
    BY <2>1, <2>2
<1>8. EvasionHolds'
  <2>1. ASSUME ~Snmp!Evasive(command, client)
        PROVE  /\ Thresholds[command].individual > 0 =>
                    table'[client] <= Thresholds[command].individual
               /\ Thresholds[command].overall > 0 =>
                    table'["overall"] <= Thresholds[command].overall
    <3>1. /\ table'[client] \in Nat /\ table'["overall"] \in Nat
          /\ Thresholds[command] \in [individual : Nat, overall : Nat]
      BY <1>4, SnmpAssumption DEF Snmp!Counters
    <3> QED
      BY <1>1, <3>1, <2>1 DEF Snmp!Evasive, Snmp!Exceeds
  <2>2. ASSUME NEW com \in Snmp!Commands, Thresholds[com].overall > 0
        PROVE  admitted'[com]["overall"] <= Thresholds[com].overall
    BY <1>7, <2>1, <2>2, SnmpAssumption DEF SnmpCounts, EvasionHolds, Snmp!EvasionHolds,
       Snmp!Counters
  <2>3. ASSUME NEW com \in Snmp!Commands, NEW c \in Clients, Thresholds[com].individual > 0
        PROVE  admitted'[com][c] <= Thresholds[com].individual
    BY <1>7, <2>1, <2>3, SnmpAssumption DEF SnmpCounts, EvasionHolds, Snmp!EvasionHolds,
       Snmp!Counters
  <2> QED
    BY <2>2, <2>3 DEF EvasionHolds, Snmp!EvasionHolds
<1> QED
  BY <1>1, <1>2, <1>4, <1>6, <1>8 DEF SnmpCounts

LEMMA SnmpCountsStart == Init => SnmpCounts
  BY SnmpAssumption DEF Init, Snmp!Init, SnmpCounts, EvasionHolds, Snmp!EvasionHolds,
     Snmp!Counters

LEMMA SnmpCountsStay == SnmpCounts /\ [Next]_vars => SnmpCounts'
<1>1. ASSUME SnmpCounts, UNCHANGED <<minute, table, admitted>>, now' \in {now, now + 1}
      PROVE  SnmpCounts'
  BY <1>1 DEF SnmpCounts, EvasionHolds, Snmp!EvasionHolds
<1>2. ASSUME SnmpCounts, NEW client \in Clients,
             \/ Snmp!Get(client) \/ Snmp!GetNext(client)
             \/ Snmp!Bulk(client) \/ Snmp!Set(client)
      PROVE  SnmpCounts'
  BY <1>2, SnmpCounted DEF Snmp!Get, Snmp!GetNext, Snmp!Bulk, Snmp!Set, Snmp!Commands
<1>3. ASSUME \/ \E w \in waiting : Snmp!SendRsp(w) \/ Snmp!SkipNext(w) \/ Snmp!Write(w)
             \/ \E oid \in Mapped : Snmp!BusWrite(oid)
             \/ Snmp!Minute
             \/ UNCHANGED snmp
      PROVE  UNCHANGED <<minute, table, admitted>> /\ now' \in {now, now + 1}
  BY <1>3 DEF Snmp!SendRsp, Snmp!SkipNext, Snmp!Write, Snmp!BusWrite, Snmp!Minute,
     Snmp!count, snmp
<1> QED
  BY <1>1, <1>2, <1>3, SnmpSteps DEF Snmp!Next, vars, snmp

(* No minute sees more requests than the thresholds allow                  *)
(* (databus_mediator.py:68-94).                                            *)
THEOREM EvasionIsKept == Spec => []EvasionHolds
<1>1. SnmpCounts => EvasionHolds
  BY DEF SnmpCounts
<1> QED
  BY <1>1, SnmpCountsStart, SnmpCountsStay, PTL DEF Spec

(* What waits is of its type, and no more of it waits than has arrived, so *)
(* that there is an identifier left for the next request.                  *)
SnmpStored ==
    /\ mib \in [Snmp!OidNames -> Numbers] /\ bus \in [Mapped -> Numbers]
    /\ written \in [Snmp!OidNames -> Numbers \cup {Snmp!Unset}]
    /\ waiting \subseteq Snmp!Request

Ids == {w.id : w \in waiting}

FewWait(n) == IsFiniteSet(Ids) /\ Cardinality(Ids) <= n

SnmpTimes ==
    /\ now \in 1..MaxMinutes /\ minute \in 0..now
    /\ reads \in 0..MaxReads

TableIsSmall == \A c \in Snmp!Counters : table[c] <= reads

SnmpTypes == SnmpCounts /\ SnmpStored /\ FewWait(reads) /\ SnmpTimes /\ TableIsSmall


LEMMA SnmpFree ==
  ASSUME NEW n \in 0..MaxReads, n < MaxReads, FewWait(n)
  PROVE  Snmp!FreeId \in 1..MaxReads
<1>1. MaxReads \in Nat
  BY BoundsAssumption
<1>2. \E i \in 1..MaxReads : i \notin Ids
  <2> SUFFICES ASSUME 1..MaxReads \subseteq Ids PROVE FALSE
    OBVIOUS
  <2>1. Cardinality(1..MaxReads) = MaxReads
    BY <1>1, FS_Interval
  <2>2. Cardinality(1..MaxReads) <= Cardinality(Ids)
    BY FS_Subset DEF FewWait
  <2>3. Cardinality(Ids) \in Nat
    BY FS_CardinalityType DEF FewWait
  <2> QED
    BY <1>1, <2>1, <2>2, <2>3 DEF FewWait
<1>3. \E i \in 1..MaxReads : \A w \in waiting : w.id # i
  BY <1>2 DEF Ids
<1> QED
  BY <1>3 DEF Snmp!FreeId

LEMMA FewStayFew ==
  ASSUME NEW n \in Nat, FewWait(n), Ids' \subseteq Ids
  PROVE  FewWait(n)'
<1>1. IsFiniteSet(Ids') /\ Cardinality(Ids') <= Cardinality(Ids)
  BY FS_Subset DEF FewWait
<1>2. Cardinality(Ids) \in Nat /\ Cardinality(Ids') \in Nat
  BY <1>1, FS_CardinalityType DEF FewWait
<1> QED
  BY <1>1, <1>2 DEF FewWait

LEMMA OneMoreWaits ==
  ASSUME NEW n \in Nat, FewWait(n), NEW id, Ids' \subseteq Ids \cup {id}
  PROVE  IsFiniteSet(Ids') /\ Cardinality(Ids') <= n + 1
<1>1. IsFiniteSet(Ids \cup {id}) /\ Cardinality(Ids \cup {id}) <= Cardinality(Ids) + 1
  <2>1. IsFiniteSet(Ids) /\ Cardinality(Ids) \in Nat
    BY FS_CardinalityType DEF FewWait
  <2> QED
    BY <2>1, FS_AddElement
<1>2. IsFiniteSet(Ids') /\ Cardinality(Ids') <= Cardinality(Ids \cup {id})
  BY <1>1, FS_Subset
<1>3. /\ Cardinality(Ids) \in Nat /\ Cardinality(Ids') \in Nat
      /\ Cardinality(Ids \cup {id}) \in Nat
  BY <1>1, <1>2, FS_CardinalityType DEF FewWait
<1> QED
  BY <1>1, <1>2, <1>3 DEF FewWait

LEMMA SnmpArrivesTyped ==
  ASSUME SnmpTypes, NEW command \in Snmp!Commands, NEW client \in Clients, NEW enter,
         \A w \in enter : w.id = Snmp!FreeId,
         Snmp!FreeId \in 1..MaxReads => enter \subseteq Snmp!Request,
         Snmp!Arrive(command, client, enter)
  PROVE  SnmpTypes'
<1>1. /\ reads < MaxReads /\ reads' = reads + 1 /\ minute' = now /\ now' = now
      /\ table' = Snmp!Counted(client)
      /\ UNCHANGED <<mib, bus, written>>
      /\ waiting' \subseteq waiting \cup enter
  BY DEF Snmp!Arrive, Snmp!store
<1>2. MaxReads \in Nat /\ MaxMinutes \in Nat
  BY BoundsAssumption
<1>3. SnmpCounts'
  BY SnmpCounted DEF SnmpTypes
<1>4. Snmp!FreeId \in 1..MaxReads
  BY <1>1, SnmpFree DEF SnmpTypes, SnmpTimes
<1>5. SnmpStored'
  BY <1>1, <1>4 DEF SnmpTypes, SnmpStored
<1>6. SnmpTimes'
  BY <1>1, <1>2 DEF SnmpTypes, SnmpTimes
<1>7. FewWait(reads)'
  <2>1. Ids' \subseteq Ids \cup {Snmp!FreeId}
    BY <1>1 DEF Ids
  <2>2. IsFiniteSet(Ids') /\ Cardinality(Ids') <= reads + 1
    BY <2>1, OneMoreWaits DEF SnmpTypes, SnmpTimes
  <2> QED
    BY <1>1, <2>2 DEF FewWait
<1>8. TableIsSmall'
  <2>1. table \in [Snmp!Counters -> Nat] /\ reads \in Nat /\ client # "overall"
    BY SnmpAssumption, <1>2 DEF SnmpTypes, SnmpCounts, SnmpTimes
  <2> DEFINE fresh == IF minute = now THEN table ELSE [c \in DOMAIN table |-> 0]
  <2>2. fresh \in [Snmp!Counters -> Nat] /\ \A c \in Snmp!Counters : fresh[c] <= reads
    BY <2>1 DEF SnmpTypes, TableIsSmall
  <2>3. table' = [fresh EXCEPT ![client] = @ + 1, !["overall"] = @ + 1]
    BY <1>1 DEF Snmp!Counted
  <2>4. \A c \in Snmp!Counters : table'[c] \in {fresh[c], fresh[c] + 1}
    <3> HIDE DEF fresh
    <3> QED
      BY <2>1, <2>2, <2>3
  <2>5. ASSUME NEW c \in Snmp!Counters PROVE table'[c] <= reads'
    <3> HIDE DEF fresh
    <3> QED
      BY <1>1, <2>1, <2>2, <2>4
  <2> QED
    BY <2>5 DEF TableIsSmall
<1> QED
  BY <1>3, <1>5, <1>6, <1>7, <1>8 DEF SnmpTypes

LEMMA SnmpReadTyped ==
  ASSUME SnmpStored, NEW first \in Snmp!OidNames, NEW objects \in SUBSET Snmp!OidNames
  PROVE  Snmp!Response(first, objects) \in Snmp!Bindings
<1> DEFINE Told == [value : Numbers, owed : Numbers \cup {Snmp!Unset}]
<1>1. CASE Snmp!OnBus(first)
  <2>1. Snmp!Bind(first, bus[first]) \in Told
    BY <1>1 DEF SnmpStored, Snmp!Bind, Snmp!OnBus, Snmp!Shown
  <2>2. Snmp!Response(first, objects) = [oid \in {first} |-> Snmp!Bind(oid, bus[oid])]
    BY <1>1 DEF Snmp!Response
  <2> HIDE DEF Told
  <2>3. Snmp!Response(first, objects) \in [{first} -> Told]
    BY <2>1, <2>2
  <2>4. {first} \in SUBSET Snmp!OidNames
    OBVIOUS
  <2> QED
    BY <2>3, <2>4 DEF Snmp!Bindings, Told
<1>2. CASE ~Snmp!OnBus(first)
  <2>1. \A oid \in objects : Snmp!Bind(oid, mib[oid]) \in Told
    BY DEF SnmpStored, Snmp!Bind
  <2>2. Snmp!Response(first, objects) = [oid \in objects |-> Snmp!Bind(oid, mib[oid])]
    BY <1>2 DEF Snmp!Response
  <2> HIDE DEF Told
  <2>3. Snmp!Response(first, objects) \in [objects -> Told]
    BY <2>1, <2>2
  <2> QED
    BY <2>3 DEF Snmp!Bindings, Told
<1> QED
  BY <1>1, <1>2

LEMMA SnmpEntersTyped ==
  ASSUME SnmpTypes, NEW client \in Clients,
         \/ Snmp!Get(client) \/ Snmp!GetNext(client)
         \/ Snmp!Bulk(client) \/ Snmp!Set(client)
  PROVE  SnmpTypes'
<1>1. ASSUME NEW command \in {"get", "next"}, NEW objects \in SUBSET Snmp!OidNames,
             NEW first \in objects, Snmp!Arrive(command, client, {Snmp!Read(command, first, objects)})
      PROVE  SnmpTypes'
  <2>1. Snmp!Response(first, objects) \in Snmp!Bindings
    BY SnmpReadTyped DEF SnmpTypes
  <2>2. /\ Snmp!Read(command, first, objects).id = Snmp!FreeId
        /\ Snmp!FreeId \in 1..MaxReads => Snmp!Read(command, first, objects) \in Snmp!Request
    BY <2>1 DEF Snmp!Read, Snmp!Request
  <2> QED
    BY <1>1, <2>2, SnmpArrivesTyped DEF Snmp!Commands
<1>2. CASE Snmp!Get(client)
  BY <1>1, <1>2 DEF Snmp!Get
<1>3. CASE Snmp!GetNext(client)
  <2>1. {Oids[i] : i \in DOMAIN Oids \ {1}} \subseteq Snmp!OidNames
    BY DEF Snmp!OidNames
  <2> QED
    BY <1>1, <1>3, <2>1 DEF Snmp!GetNext
<1>4. CASE Snmp!Bulk(client)
  BY <1>4, SnmpArrivesTyped DEF Snmp!Bulk, Snmp!Commands
<1>5. CASE Snmp!Set(client)
  <2>1. PICK objects \in SUBSET Snmp!OidNames : \E first \in objects, values \in [objects -> Numbers] :
          Snmp!Arrive("set", client,
            {[id |-> Snmp!FreeId, command |-> "set", first |-> first, asked |-> objects,
              binds |-> [oid \in objects |-> [value |-> values[oid], owed |-> Snmp!Unset]]]})
    BY <1>5 DEF Snmp!Set
  <2>2. PICK first \in objects, values \in [objects -> Numbers] :
          Snmp!Arrive("set", client,
            {[id |-> Snmp!FreeId, command |-> "set", first |-> first, asked |-> objects,
              binds |-> [oid \in objects |-> [value |-> values[oid], owed |-> Snmp!Unset]]]})
    BY <2>1
  <2> DEFINE binds == [oid \in objects |-> [value |-> values[oid], owed |-> Snmp!Unset]]
             w == [id |-> Snmp!FreeId, command |-> "set", first |-> first, asked |-> objects,
                   binds |-> binds]
  <2>3. binds \in [objects -> [value : Numbers, owed : Numbers \cup {Snmp!Unset}]]
    OBVIOUS
  <2>4. binds \in Snmp!Bindings /\ DOMAIN binds = objects
    BY <2>3 DEF Snmp!Bindings
  <2> HIDE DEF binds
  <2>5. w.id = Snmp!FreeId /\ (Snmp!FreeId \in 1..MaxReads => w \in Snmp!Request)
    BY <2>4 DEF Snmp!Request
  <2>6. Snmp!Arrive("set", client, {w})
    BY <2>2 DEF binds
  <2> HIDE DEF w
  <2> QED
    BY <2>5, <2>6, SnmpArrivesTyped DEF Snmp!Commands
<1> QED
  BY <1>2, <1>3, <1>4, <1>5

LEMMA SnmpWrites ==
  ASSUME SnmpStored, NEW w \in waiting, w.binds \in Snmp!Bindings, Snmp!Write(w),
         w.asked \subseteq DOMAIN w.binds, w.first \in w.asked
  PROVE  SnmpStored'
<1>1. \A oid \in DOMAIN w.binds : w.binds[oid].value \in Numbers
  BY DEF Snmp!Bindings
<1>2. mib' \in [Snmp!OidNames -> Numbers]
  BY <1>1 DEF SnmpStored, Snmp!Write
<1>3. bus' \in [Mapped -> Numbers]
  BY <1>1 DEF SnmpStored, Snmp!Write
<1>4. written' \in [Snmp!OidNames -> Numbers \cup {Snmp!Unset}]
  BY <1>1 DEF SnmpStored, Snmp!Write
<1>5. waiting' \subseteq Snmp!Request
  BY DEF SnmpStored, Snmp!Write
<1> QED
  BY <1>2, <1>3, <1>4, <1>5 DEF SnmpStored

LEMMA SnmpLeavesTyped ==
  ASSUME SnmpTypes, SnmpCounts', NEW w \in waiting,
         Snmp!SendRsp(w) \/ Snmp!SkipNext(w) \/ Snmp!Write(w)
  PROVE  SnmpTypes'
<1>1. UNCHANGED <<now, minute, table, reads>>
  BY DEF Snmp!SendRsp, Snmp!SkipNext, Snmp!Write, Snmp!count
<1>2. /\ w \in Snmp!Request /\ w.first \in w.asked /\ w.asked \in SUBSET Snmp!OidNames
      /\ w.binds \in Snmp!Bindings /\ (w.command = "set" => DOMAIN w.binds = w.asked)
  BY DEF SnmpTypes, SnmpStored, Snmp!Request
<1>3. SnmpStored' /\ Ids' \subseteq Ids
  <2>1. CASE Snmp!SendRsp(w)
    BY <2>1 DEF SnmpTypes, SnmpStored, Snmp!SendRsp, Snmp!store, Ids
  <2>2. CASE Snmp!Write(w)
    <3>1. waiting' \subseteq waiting
      BY <2>2 DEF Snmp!Write
    <3>2. SnmpStored'
      BY <1>2, <2>2, SnmpWrites DEF SnmpTypes, Snmp!Write
    <3> QED
      BY <3>1, <3>2 DEF Ids
  <2>3. CASE Snmp!SkipNext(w)
    <3>0. PICK objects \in SUBSET Snmp!OidNames : \E first \in objects :
            waiting' = (waiting \ {w}) \cup {Skipped(w, first, objects)}
      BY <1>2, <2>3, SnmpSkips
    <3>1. PICK first \in objects : waiting' = (waiting \ {w}) \cup {Skipped(w, first, objects)}
      BY <3>0
    <3>2. Snmp!Response(first, objects) \in Snmp!Bindings
      BY SnmpReadTyped DEF SnmpTypes
    <3>3. Skipped(w, first, objects) \in Snmp!Request /\ Skipped(w, first, objects).id = w.id
      BY <1>2, <2>3, <3>2 DEF Skipped, Snmp!Request, Snmp!SkipNext
    <3>4. UNCHANGED <<mib, bus, written>>
      BY <2>3 DEF Snmp!SkipNext, Snmp!store
    <3> DEFINE next == Skipped(w, first, objects)
    <3> HIDE DEF next
    <3>5. waiting' \subseteq waiting \cup {next} /\ next \in Snmp!Request /\ next.id = w.id
      BY <3>1, <3>3 DEF next
    <3> QED
      BY <3>4, <3>5 DEF SnmpTypes, SnmpStored, Ids
  <2> QED
    BY <2>1, <2>2, <2>3
<1>4. FewWait(reads)'
  BY <1>1, <1>3, FewStayFew DEF SnmpTypes, SnmpTimes
<1> QED
  BY <1>1, <1>3, <1>4 DEF SnmpTypes, SnmpTimes, TableIsSmall

LEMMA SnmpTyped == Spec => []Snmp!TypeOK
<1>1. Init => SnmpTypes
  <2> SUFFICES ASSUME Init PROVE SnmpTypes
    OBVIOUS
  <2>1. SnmpStored
    BY SnmpAssumption DEF Init, Snmp!Init, SnmpStored
  <2>2. FewWait(reads)
    <3>1. Ids = {}
      BY DEF Init, Snmp!Init, Ids
    <3> QED
      BY <3>1, FS_EmptySet DEF Init, Snmp!Init, FewWait
  <2>3. SnmpTimes /\ TableIsSmall
    BY BoundsAssumption DEF Init, Snmp!Init, SnmpTimes, TableIsSmall
  <2> QED
    BY <2>1, <2>2, <2>3, SnmpCountsStart DEF SnmpTypes
<1>2. ASSUME SnmpTypes, SnmpCounts', NEW oid \in Mapped, Snmp!BusWrite(oid) PROVE SnmpTypes'
  <2>1. SnmpStored'
    BY <1>2, SnmpAssumption DEF Snmp!BusWrite, SnmpTypes, SnmpStored
  <2> QED
    BY <1>2, <2>1 DEF Snmp!BusWrite, Snmp!count, SnmpTypes, FewWait, Ids, SnmpTimes, TableIsSmall
<1>3. ASSUME SnmpTypes, SnmpCounts', Snmp!Minute PROVE SnmpTypes'
  <2>1. SnmpTimes'
    BY <1>3, BoundsAssumption DEF Snmp!Minute, Snmp!count, SnmpTypes, SnmpTimes
  <2> QED
    BY <1>3, <2>1 DEF Snmp!Minute, Snmp!count, Snmp!store, SnmpTypes, SnmpStored, FewWait,
       Ids, TableIsSmall
<1>4. ASSUME SnmpTypes, UNCHANGED snmp PROVE SnmpTypes'
  BY <1>4 DEF snmp, SnmpTypes, SnmpCounts, EvasionHolds, Snmp!EvasionHolds, SnmpStored, FewWait,
     Ids, SnmpTimes, TableIsSmall
<1>5. SnmpTypes /\ [Next]_vars => SnmpTypes'
  <2> SUFFICES ASSUME SnmpTypes, [Next]_vars PROVE SnmpTypes'
    OBVIOUS
  <2>1. SnmpCounts'
    BY SnmpCountsStay DEF SnmpTypes
  <2> QED
    BY <1>2, <1>3, <1>4, <2>1, SnmpSteps, SnmpEntersTyped, SnmpLeavesTyped DEF Snmp!Next, vars
<1>6. SnmpTypes => Snmp!TypeOK
  <2> SUFFICES ASSUME SnmpTypes PROVE Snmp!TypeOK
    OBVIOUS
  <2>1. \A c \in Snmp!Counters : table[c] \in 0..MaxReads
    BY BoundsAssumption DEF SnmpTypes, SnmpTimes, TableIsSmall, SnmpCounts
  <2>2. \A k \in Snmp!Commands, c \in Snmp!Counters : admitted[k][c] \in 0..MaxReads
    <3>1. ASSUME NEW k \in Snmp!Commands, NEW c \in Snmp!Counters
          PROVE  admitted[k][c] \in Nat /\ admitted[k][c] <= table[c]
      BY DEF SnmpTypes, SnmpCounts
    <3> QED
      BY <2>1, <3>1, BoundsAssumption
  <2> QED
    BY <2>1, <2>2 DEF SnmpTypes, SnmpTimes, SnmpStored, Snmp!TypeOK
<1> QED
  BY <1>1, <1>5, <1>6, PTL DEF Spec

----------------------------------------------------------------------------
(***************************************************************************)
(* Modbus.  The blocks of the slaves are blocks of the template, each with *)
(* a list of its own on the databus.                                       *)
(***************************************************************************)
OfTemplate(parts) ==
    /\ template \in Seq(parts)
    /\ DOMAIN last = {b.slave : b \in parts} /\ DOMAIN blocks \subseteq DOMAIN last
    /\ \A s \in DOMAIN blocks : blocks[s] \in Seq({b \in parts : b.slave = s})
    /\ DOMAIN memory = {b.name : b \in parts}
    /\ \A b \in parts : DOMAIN memory[b.name] = 0..(b.size - 1)

IsConfigured == \E whole \in Blocks : OfTemplate(Coils!Range(whole))

Pristine ==
    /\ \A s \in DOMAIN last : \A a \in DOMAIN last[s] : last[s][a] = 0
    /\ \A name \in DOMAIN memory : \A n \in DOMAIN memory[name] : memory[name][n] = 0

ModbusCellsAreInts == \A s \in DOMAIN last : DOMAIN last[s] \subseteq Int

ModbusInv ==
    /\ IsConfigured /\ ModbusCellsAreInts
    /\ template # <<>> => Pristine
    /\ LastWriteIsThere

LEMMA ModbusSteps == Next => Coils!Next \/ UNCHANGED modbus
  BY DEF Next, Only, modbus

LEMMA Smallest ==
  ASSUME NEW set \in SUBSET Nat, set # {}
  PROVE  \E n \in set : \A m \in set : n <= m
<1> DEFINE less == OpToRel(<, Nat)
<1>1. \A m, n \in Nat : <<m, n>> \in less <=> m < n
  BY DEF OpToRel
<1>2. IsWellFoundedOn(less, Nat)
  BY NatLessThanWellFounded
<1> HIDE DEF less
<1>3. PICK n \in set : \A m \in set : <<m, n>> \notin less
  BY <1>2, WFMin
<1>4. ASSUME NEW m \in set PROVE n <= m
  <2>1. m \in Nat /\ n \in Nat /\ ~(m < n)
    BY <1>1, <1>3
  <2> QED
    BY <2>1
<1> QED
  BY <1>4

LEMMA ModbusParts ==
  ASSUME NEW whole \in Blocks
  PROVE  \A b, c \in Coils!Range(whole) :
           /\ b.slave \in Nat /\ b.start \in Int /\ b.size \in Nat
           /\ b.name = c.name => b = c
<1>1. /\ whole \in Seq(Coils!Entries)
      /\ \A i, j \in DOMAIN whole : whole[i].name = whole[j].name => whole[i] = whole[j]
  BY ModbusAssumption
<1>2. \A i \in DOMAIN whole : whole[i] \in Coils!Entries
  BY <1>1, ElementOfSeq, LenProperties
<1>3. ASSUME NEW i \in DOMAIN whole
      PROVE  whole[i].slave \in Nat /\ whole[i].start \in Int /\ whole[i].size \in Nat
  BY <1>2 DEF Coils!Entries
<1> QED
  BY <1>1, <1>3 DEF Coils!Range

LEMMA ModbusStart == Init => ModbusInv
<1> SUFFICES ASSUME Init PROVE ModbusInv
  OBVIOUS
<1>1. /\ template \in Blocks /\ blocks = [s \in {} |-> <<>>]
      /\ memory = [name \in {b.name : b \in Coils!Range(template)} |->
           [n \in 0..(CHOOSE b \in Coils!Range(template) : b.name = name).size - 1 |-> 0]]
      /\ last = [s \in {b.slave : b \in Coils!Range(template)} |-> [a \in Coils!Cells |-> 0]]
  BY DEF Init, Coils!Init
<1> DEFINE parts == Coils!Range(template)
<1>2. template \in Seq(parts)
  <2>1. template \in Seq(Coils!Entries)
    BY <1>1, ModbusAssumption
  <2>2. Len(template) \in Nat /\ template \in [1..Len(template) -> parts]
    BY <2>1, LenProperties DEF Coils!Range
  <2> QED
    BY <2>2, SeqDef
<1>3. \A b \in parts : (CHOOSE c \in parts : c.name = b.name) = b
  BY <1>1, ModbusParts
<1>4. \A b \in parts : DOMAIN memory[b.name] = 0..(b.size - 1)
  BY <1>1, <1>3
<1>5. OfTemplate(parts)
  BY <1>1, <1>2, <1>4 DEF OfTemplate
<1>6. Pristine
  BY <1>1 DEF Pristine
<1>7. ModbusCellsAreInts
  <2>1. Coils!Cells \subseteq Int
    BY ModbusAssumption, BoundsAssumption DEF Coils!Cells
  <2> QED
    BY <1>1, <2>1 DEF ModbusCellsAreInts
<1> QED
  BY <1>1, <1>5, <1>6, <1>7 DEF ModbusInv, IsConfigured, LastWriteIsThere, Coils!LastWriteIsThere

(* The blocks of a slave are among its blocks in the template, and each of *)
(* them has a list of its own.                                             *)
LEMMA ModbusBlocks ==
  ASSUME NEW whole \in Blocks, OfTemplate(Coils!Range(whole)),
         NEW s \in DOMAIN blocks, NEW i \in DOMAIN blocks[s]
  PROVE  /\ blocks[s][i] \in Coils!Range(whole) /\ blocks[s][i].slave = s
         /\ blocks[s][i].start \in Int /\ blocks[s][i].size \in Nat
         /\ blocks[s][i].name \in DOMAIN memory
         /\ DOMAIN memory[blocks[s][i].name] = 0..(blocks[s][i].size - 1)
<1>1. blocks[s][i] \in {b \in Coils!Range(whole) : b.slave = s}
  BY ElementOfSeq, LenProperties DEF OfTemplate
<1> QED
  BY <1>1, ModbusParts DEF OfTemplate

(* A place of a block that holds an address is one of its list.            *)
LEMMA ModbusPlaces ==
  ASSUME NEW whole \in Blocks, OfTemplate(Coils!Range(whole)),
         NEW s \in DOMAIN blocks, NEW i \in DOMAIN blocks[s],
         NEW a \in Int, Coils!Holds(blocks[s][i], a, 1)
  PROVE  a - blocks[s][i].start \in DOMAIN memory[blocks[s][i].name]
BY ModbusBlocks DEF Coils!Holds

LEMMA ModbusConfigures ==
  ASSUME ModbusInv, Coils!AddBlock
  PROVE  ModbusInv'
<1>1. PICK whole \in Blocks : OfTemplate(Coils!Range(whole))
  BY DEF ModbusInv, IsConfigured
<1> DEFINE parts == Coils!Range(whole)
           b == Head(template)
           ofSlave == {part \in parts : part.slave = b.slave}
           list == IF b.slave \in DOMAIN blocks THEN blocks[b.slave] ELSE <<>>
           longer == IF Coils!Accepted(list, b)
                     THEN Coils!InsertAt(list, Coils!Place(list, b), b) ELSE list
<1>2. /\ template # <<>> /\ UNCHANGED <<memory, last>>
      /\ template' = IF Coils!Accepted(list, b) THEN Tail(template) ELSE <<>>
      /\ blocks' = [s \in DOMAIN blocks \cup {b.slave} |->
                      IF s # b.slave THEN blocks[s] ELSE longer]
  BY DEF Coils!AddBlock
<1>3. b \in parts /\ template' \in Seq(parts)
  <2>1. template \in Seq(parts)
    BY <1>1 DEF OfTemplate
  <2> QED
    BY <1>2, <2>1, HeadTailProperties, EmptySeq
<1>4. b \in ofSlave /\ list \in Seq(ofSlave)
  BY <1>1, <1>3, EmptySeq DEF OfTemplate
<1>5. Coils!Place(list, b) \in 1..(Len(list) + 1)
  <2> DEFINE behind == Coils!Behind(list, b)
  <2>1. DOMAIN list = 1..Len(list) /\ Len(list) \in Nat
    BY <1>4, LenProperties
  <2>2. behind \subseteq DOMAIN list
    BY DEF Coils!Behind
  <2>3. CASE behind = {}
    BY <2>1, <2>3 DEF Coils!Place
  <2>4. CASE behind # {}
    <3> HIDE DEF behind
    <3>0. behind \in SUBSET Nat
      BY <2>1, <2>2
    <3>1. \E n \in behind : \A m \in behind : n <= m
      BY <2>4, <3>0, Smallest
    <3>2. Coils!First(behind) \in behind
      BY <3>1 DEF Coils!First
    <3> QED
      BY <2>1, <2>2, <2>4, <3>2 DEF Coils!Place, behind
  <2> QED
    BY <2>3, <2>4
<1>6. longer \in Seq(ofSlave)
  <2> DEFINE i == Coils!Place(list, b)
  <2>1. /\ SubSeq(list, 1, i - 1) \in Seq(ofSlave)
        /\ SubSeq(list, i, Len(list)) \in Seq(ofSlave)
    BY <1>4, <1>5, LenProperties, ElementOfSeq, SubSeqProperties
  <2>2. <<b>> \in Seq(ofSlave)
    BY <1>4
  <2>3. Coils!InsertAt(list, i, b) \in Seq(ofSlave)
    BY <2>1, <2>2, ConcatProperties DEF Coils!InsertAt
  <2> QED
    BY <1>4, <2>3
<1>7. OfTemplate(parts)'
  <2> HIDE DEF longer
  <2> QED
    BY <1>1, <1>2, <1>3, <1>6 DEF OfTemplate
<1>8. Pristine /\ Pristine'
  BY <1>2 DEF ModbusInv, Pristine
<1>9. LastWriteIsThere'
  <2>1. ASSUME NEW s \in DOMAIN blocks', NEW i \in DOMAIN blocks'[s], NEW a \in DOMAIN last'[s],
               Coils!Sole(s, i, a)'
        PROVE  memory'[blocks'[s][i].name][a - blocks'[s][i].start] = last'[s][a]
    <3>1. /\ blocks'[s][i].name \in DOMAIN memory'
          /\ a - blocks'[s][i].start \in DOMAIN memory'[blocks'[s][i].name]
      <4>1. ModbusCellsAreInts'
        BY <1>2 DEF ModbusInv, ModbusCellsAreInts
      <4>2. s \in DOMAIN last' /\ a \in Int
        BY <1>7, <4>1 DEF OfTemplate, ModbusCellsAreInts
      <4>3. blocks'[s][i] \in {part \in parts : part.slave = s}
        BY <1>7, <2>1, ElementOfSeq, LenProperties DEF OfTemplate
      <4>4. /\ blocks'[s][i].start \in Int /\ blocks'[s][i].size \in Nat
            /\ blocks'[s][i].name \in DOMAIN memory'
            /\ DOMAIN memory'[blocks'[s][i].name] = 0..(blocks'[s][i].size - 1)
        BY <1>7, <4>3, ModbusParts DEF OfTemplate
      <4>5. blocks'[s][i].start <= a /\ a + 1 <= blocks'[s][i].start + blocks'[s][i].size
        BY <2>1 DEF Coils!Sole, Coils!Holds
      <4> QED
        BY <4>2, <4>4, <4>5
    <3>2. s \in DOMAIN last'
      BY <1>7 DEF OfTemplate
    <3> QED
      BY <1>8, <3>1, <3>2 DEF Pristine
  <2> QED
    BY <2>1 DEF LastWriteIsThere, Coils!LastWriteIsThere
<1>10. ModbusCellsAreInts'
  BY <1>2 DEF ModbusInv, ModbusCellsAreInts
<1> QED
  BY <1>7, <1>8, <1>9, <1>10 DEF ModbusInv, IsConfigured

LEMMA ModbusValues ==
  ASSUME NEW r \in Coils!Orders, r.function = "write"
  PROVE  r.address \in Int /\ r.values \in Seq(Values) /\ Len(r.values) \in Nat
<1>1. r.address \in Addresses /\ r.values \in UNION {[1..k -> Values] : k \in 1..MaxValues}
  BY DEF Coils!Orders
<1>2. PICK k \in 1..MaxValues : r.values \in [1..k -> Values]
  BY <1>1
<1>3. k \in Nat
  BY <1>2, BoundsAssumption
<1>4. r.values \in Seq(Values)
  BY <1>2, <1>3, SeqDef
<1> QED
  <2>1. r.address \in Int
    <3>1. \A n \in Addresses : n \in Int
      BY ModbusAssumption
    <3>2. r.address \in Addresses
      BY <1>1
    <3> QED
      BY <3>1, <3>2
  <2>2. Len(r.values) \in Nat
    BY <1>4, LenProperties
  <2> QED
    BY <1>4, <2>1, <2>2

(* What a write changes at an address that one block of a slave has.       *)
LEMMA ModbusChanges ==
  ASSUME NEW whole \in Blocks, OfTemplate(Coils!Range(whole)),
         NEW r \in Coils!Orders, r.function = "write",
         NEW s \in DOMAIN blocks, NEW i \in DOMAIN blocks[s],
         NEW a \in Int, Coils!Sole(s, i, a),
         NEW n, n = a - blocks[s][i].start
  PROVE  Coils!Change(r, blocks[s][i].name, n)
           = IF Coils!Expected(s, r) /\ a \in Coils!Span(r) THEN {Coils!Value(r, a)} ELSE {}
<1> DEFINE b == blocks[s][i]
           hit == {c \in Coils!Written(r) : c.name = b.name /\ c.start + n \in Coils!Span(r)}
<1>1. /\ b \in Coils!Range(whole) /\ b.slave = s /\ b.start \in Int
      /\ b.start + n = a
  BY ModbusBlocks
<1>2. s \in Coils!Addressed(r) <=> Coils!Broadcast(r) \/ (s = r.unit /\ ~Coils!Ignored(r))
  <2>1. s \in Nat
    BY <1>1, ModbusParts
  <2> QED
    <3>1. CASE Mode = "tcp"
      <4>1. Coils!Addressed(r) = {r.unit} \cap {0, 255} \cap DOMAIN blocks
        BY <3>1 DEF Coils!Addressed
      <4>2. ~Coils!Broadcast(r)
        BY <3>1 DEF Coils!Broadcast
      <4>3. Coils!Ignored(r) <=> r.unit \notin {0, 255}
        BY <3>1, <4>2 DEF Coils!Ignored
      <4> QED
        BY <4>1, <4>2, <4>3
    <3>2. CASE Mode = "serial" /\ r.unit = 0
      <4>1. Coils!Broadcast(r)
        BY <3>2 DEF Coils!Broadcast
      <4>2. Coils!Addressed(r) = DOMAIN blocks
        BY <3>2 DEF Coils!Addressed
      <4> QED
        BY <4>1, <4>2
    <3>4. CASE Mode = "serial" /\ r.unit # 0
      <4>1. ~Coils!Broadcast(r)
        BY <3>4 DEF Coils!Broadcast
      <4>2. Coils!Addressed(r) = {r.unit} \cap 1..247 \cap DOMAIN blocks
        BY <3>4 DEF Coils!Addressed
      <4>3. Coils!Ignored(r) <=> r.unit > 247
        BY <3>4, <4>1 DEF Coils!Ignored
      <4>4. CASE s = r.unit
        <5>1. s # 0 /\ s \in DOMAIN blocks /\ (Coils!Ignored(r) <=> s > 247)
          BY <3>4, <4>3, <4>4
        <5>2. s \in 1..247 <=> ~(s > 247)
          BY <2>1, <5>1
        <5>3. s \in Coils!Addressed(r) <=> s \in 1..247
          BY <4>2, <4>4, <5>1
        <5> QED
          BY <4>1, <4>4, <5>1, <5>2, <5>3
      <4>5. CASE s # r.unit
        BY <4>1, <4>2, <4>5
      <4> QED
        BY <4>4, <4>5
    <3>3. Mode \in {"tcp", "serial"}
      BY ModbusAssumption
    <3> QED
      BY <3>1, <3>2, <3>3, <3>4
<1>3. ASSUME NEW t \in Coils!Addressed(r), NEW c \in Coils!Home(t, r.address, Len(r.values)),
             c.name = b.name
      PROVE  c = b /\ t = s
  <2>1. t \in DOMAIN blocks
    BY <1>3 DEF Coils!Addressed
  <2>2. PICK k \in DOMAIN blocks[t] : c = blocks[t][k]
    BY <1>3 DEF Coils!Home
  <2>3. c \in Coils!Range(whole) /\ c.slave = t
    BY <2>1, <2>2, ModbusBlocks
  <2> QED
    BY <1>1, <1>3, <2>3, ModbusParts
<1>4. ASSUME a \in Coils!Span(r), NEW c \in Coils!Home(s, r.address, Len(r.values))
      PROVE  c = b
  <2>1. PICK j \in DOMAIN blocks[s] :
          c = blocks[s][j] /\ Coils!Holds(c, r.address, Len(r.values))
    BY <1>4 DEF Coils!Home
  <2>2. c.start \in Int /\ c.size \in Nat
    BY <2>1, ModbusBlocks
  <2>3. r.address \in Int /\ Len(r.values) \in Nat
    BY ModbusValues
  <2>4. Coils!Holds(c, a, 1)
    BY <1>4, <2>1, <2>2, <2>3 DEF Coils!Holds, Coils!Span
  <2> QED
    BY <2>1, <2>4 DEF Coils!Sole
<1>5. CASE Coils!Expected(s, r) /\ a \in Coils!Span(r)
  <2>1. s \in Coils!Addressed(r)
    BY <1>2, <1>5 DEF Coils!Expected
  <2>2. PICK d \in Coils!Home(s, r.address, Len(r.values)) : TRUE
    BY <1>5 DEF Coils!Expected
  <2>3. b \in Coils!Written(r)
    BY <1>4, <1>5, <2>1, <2>2 DEF Coils!Written
  <2>4. b \in hit
    BY <1>1, <1>5, <2>3
  <2>5. \A c \in hit : c = b
    BY <1>3 DEF Coils!Written
  <2>6. hit = {b}
    BY <2>4, <2>5
  <2>7. Coils!Change(r, b.name, n) = {Coils!Value(r, c.start + n) : c \in hit}
    BY DEF Coils!Change
  <2> HIDE DEF hit, b
  <2>8. Coils!Change(r, b.name, n) = {Coils!Value(r, b.start + n)}
    BY <2>6, <2>7
  <2> QED
    BY <1>1, <1>5, <2>8 DEF b
<1>6. CASE ~(Coils!Expected(s, r) /\ a \in Coils!Span(r))
  <2>1. ASSUME NEW c \in hit PROVE FALSE
    <3>1. PICK t \in Coils!Addressed(r) : c \in Coils!Home(t, r.address, Len(r.values))
      BY <2>1 DEF Coils!Written
    <3>2. c = b /\ t = s
      BY <1>3, <2>1, <3>1
    <3>3. a \in Coils!Span(r)
      BY <1>1, <2>1, <3>2
    <3>4. Coils!Expected(s, r)
      BY <1>2, <3>1, <3>2 DEF Coils!Expected
    <3> QED
      BY <1>6, <3>3, <3>4
  <2>2. hit = {}
    BY <2>1
  <2>3. Coils!Change(r, b.name, n) = {Coils!Value(r, c.start + n) : c \in hit}
    BY DEF Coils!Change
  <2> HIDE DEF hit
  <2> QED
    BY <1>6, <2>2, <2>3
<1> QED
  BY <1>5, <1>6

(* A write changes the addresses of its range, in the slaves addressed.    *)
LEMMA ModbusExecutes ==
  ASSUME ModbusInv, template = <<>>, UNCHANGED <<template, blocks>>,
         NEW client, NEW r \in Coils!Orders \cup {Coils!NoRequest}, Coils!Execute(client, r)
  PROVE  ModbusInv'
<1>1. PICK whole \in Blocks : OfTemplate(Coils!Range(whole))
  BY DEF ModbusInv, IsConfigured
<1>2. CASE r.function # "write"
  BY <1>2 DEF Coils!Execute, ModbusInv, IsConfigured, OfTemplate, Pristine, ModbusCellsAreInts,
     LastWriteIsThere, Coils!LastWriteIsThere, Coils!Sole
<1>3. CASE r.function = "write"
  <2>0. r \in Coils!Orders
    BY <1>3 DEF Coils!NoRequest
  <2>1. /\ memory' = [name \in DOMAIN memory |-> [n \in DOMAIN memory[name] |->
                         IF Coils!Change(r, name, n) = {} THEN memory[name][n]
                         ELSE CHOOSE v \in Coils!Change(r, name, n) : TRUE]]
        /\ last' = [s \in DOMAIN last |-> [a \in DOMAIN last[s] |->
             IF Coils!Expected(s, r) /\ a \in Coils!Span(r) THEN Coils!Value(r, a) ELSE last[s][a]]]
    BY <1>3 DEF Coils!Execute
  <2>2. OfTemplate(Coils!Range(whole))'
    BY <1>1, <2>1 DEF OfTemplate
  <2>3. ModbusCellsAreInts'
    BY <2>1 DEF ModbusInv, ModbusCellsAreInts
  <2>4. LastWriteIsThere'
    <3> SUFFICES ASSUME NEW s \in DOMAIN blocks, NEW i \in DOMAIN blocks[s],
                        NEW a \in DOMAIN last'[s], Coils!Sole(s, i, a)
                 PROVE  memory'[blocks[s][i].name][a - blocks[s][i].start] = last'[s][a]
      BY DEF LastWriteIsThere, Coils!LastWriteIsThere, Coils!Sole
    <3> DEFINE name == blocks[s][i].name
               n == a - blocks[s][i].start
               v == Coils!Value(r, a)
               expected == Coils!Expected(s, r) /\ a \in Coils!Span(r)
    <3>1. s \in DOMAIN last /\ a \in DOMAIN last[s] /\ a \in Int
      BY <1>1, <2>1 DEF OfTemplate, ModbusInv, ModbusCellsAreInts
    <3>2. name \in DOMAIN memory /\ n \in DOMAIN memory[name]
      BY <1>1, <3>1, ModbusBlocks, ModbusPlaces DEF Coils!Sole
    <3>3. memory[name][n] = last[s][a]
      BY <3>1 DEF ModbusInv, LastWriteIsThere, Coils!LastWriteIsThere
    <3>4. Coils!Change(r, name, n) = IF expected THEN {v} ELSE {}
      BY <1>1, <1>3, <2>0, <3>1, ModbusChanges
    <3>5. /\ memory'[name][n] = IF Coils!Change(r, name, n) = {} THEN memory[name][n]
                                ELSE CHOOSE x \in Coils!Change(r, name, n) : TRUE
          /\ last'[s][a] = IF expected THEN v ELSE last[s][a]
      BY <2>1, <3>1, <3>2
    <3> HIDE DEF name, n, v, expected
    <3>6. ASSUME expected PROVE memory'[name][n] = last'[s][a]
      <4>1. Coils!Change(r, name, n) = {v}
        BY <3>4, <3>6
      <4>2. {v} # {} /\ (CHOOSE x \in {v} : TRUE) = v
        OBVIOUS
      <4>3. memory'[name][n] = v
        BY <3>5, <4>1, <4>2
      <4> QED
        BY <3>5, <3>6, <4>3
    <3>7. ASSUME ~expected PROVE memory'[name][n] = last'[s][a]
      BY <3>3, <3>4, <3>5, <3>7
    <3> QED
      BY <3>6, <3>7 DEF name, n
  <2> QED
    BY <1>3, <2>2, <2>3, <2>4 DEF ModbusInv, IsConfigured
<1> QED
  BY <1>2, <1>3

(* Types: what is written is of the values that a client may write.        *)
ModbusLines ==
    /\ adus \in [Clients -> Seq(Coils!Pieces)] /\ hungup \in [Clients -> BOOLEAN]
    /\ writes \in 0..MaxWrites

ModbusHandlers ==
    /\ slaves \in [Clients -> {"recv", "more", "spin", "closed"}]
    /\ pending \in [Clients -> Coils!Orders \cup {Coils!NoRequest}]

ModbusCells ==
    \A name \in DOMAIN memory : \A n \in DOMAIN memory[name] :
      memory[name][n] \in Values \cup {0}

ModbusTypes == ModbusLines /\ ModbusHandlers /\ ModbusCells

LEMMA ModbusExecutesTyped ==
  ASSUME ModbusTypes, NEW c \in Clients, NEW r \in Coils!Orders \cup {Coils!NoRequest},
         Coils!Execute(c, r)
  PROVE  ModbusHandlers' /\ ModbusCells'
<1>1. ModbusHandlers'
  <2>1. PICK next \in {"recv", "closed"} : slaves' = [slaves EXCEPT ![c] = next]
    BY DEF Coils!Execute
  <2> QED
    BY <2>1 DEF Coils!Execute, ModbusTypes, ModbusHandlers
<1>2. CASE r.function # "write"
  BY <1>1, <1>2 DEF Coils!Execute, ModbusTypes, ModbusCells
<1>3. CASE r.function = "write"
  <2>1. memory' = [name \in DOMAIN memory |-> [n \in DOMAIN memory[name] |->
                     IF Coils!Change(r, name, n) = {} THEN memory[name][n]
                     ELSE CHOOSE v \in Coils!Change(r, name, n) : TRUE]]
    BY <1>3 DEF Coils!Execute
  <2>2. ASSUME NEW name, NEW n PROVE Coils!Change(r, name, n) \subseteq Values
    <3>1. ASSUME NEW a \in Coils!Span(r) PROVE Coils!Value(r, a) \in Values
      <4>1. r \in Coils!Orders
        BY <1>3 DEF Coils!NoRequest
      <4>2. r.address \in Int /\ r.values \in Seq(Values) /\ Len(r.values) \in Nat
        BY <1>3, <4>1, ModbusValues
      <4>3. a - r.address + 1 \in 1..Len(r.values)
        BY <3>1, <4>2 DEF Coils!Span
      <4> QED
        BY <4>2, <4>3, ElementOfSeq DEF Coils!Value
    <3> QED
      BY <3>1 DEF Coils!Change
  <2>3. ModbusCells'
    BY <2>1, <2>2 DEF ModbusTypes, ModbusCells
  <2> QED
    BY <1>1, <2>3
<1> QED
  BY <1>2, <1>3

LEMMA ModbusReceivesTyped ==
  ASSUME ModbusTypes, NEW c \in Clients, Coils!Receive(c)
  PROVE  ModbusTypes'
<1> DEFINE piece == Head(adus[c])
<1>1. piece \in Coils!Pieces /\ Tail(adus[c]) \in Seq(Coils!Pieces)
  <2>1. adus[c] \in Seq(Coils!Pieces) /\ adus[c] # <<>>
    BY DEF Coils!Receive, ModbusTypes, ModbusLines
  <2> QED
    BY <2>1, HeadTailProperties
<1>2. ModbusLines'
  BY <1>1 DEF Coils!Receive, ModbusTypes, ModbusLines
<1>3. CASE piece.kind = "whole" /\ Coils!Execute(c, piece.request)
  <2>1. piece.request \in Coils!Orders
    BY <1>1, <1>3 DEF Coils!Pieces
  <2> HIDE DEF piece
  <2> QED
    BY <1>2, <1>3, <2>1, ModbusExecutesTyped DEF ModbusTypes
<1>4. CASE Coils!Execute(c, pending[c])
  BY <1>2, <1>4, ModbusExecutesTyped DEF ModbusTypes, ModbusHandlers
<1>5. CASE piece.kind = "begin" /\ slaves' = [slaves EXCEPT ![c] = "more"]
           /\ pending' = [pending EXCEPT ![c] = piece.request] /\ UNCHANGED memory
  <2>1. piece.request \in Coils!Orders
    BY <1>1, <1>5 DEF Coils!Pieces
  <2> HIDE DEF piece
  <2> QED
    BY <1>2, <1>5, <2>1 DEF ModbusTypes, ModbusHandlers, ModbusCells
<1>6. CASE slaves' = [slaves EXCEPT ![c] = "closed"] /\ UNCHANGED <<pending, memory>>
  BY <1>2, <1>6 DEF ModbusTypes, ModbusHandlers, ModbusCells
<1> QED
  BY <1>3, <1>4, <1>5, <1>6 DEF Coils!Receive

LEMMA ModbusTypesHold == Spec => []ModbusTypes
<1>1. Init => ModbusTypes
  <2> SUFFICES ASSUME Coils!Init PROVE ModbusTypes
    BY DEF Init
  <2>1. ModbusLines /\ ModbusHandlers
    BY BoundsAssumption, EmptySeq DEF Coils!Init, ModbusLines, ModbusHandlers
  <2>2. ModbusCells
    BY DEF Coils!Init, ModbusCells
  <2> QED
    BY <2>1, <2>2 DEF ModbusTypes
<1>2. ASSUME ModbusTypes, Coils!AddBlock PROVE ModbusTypes'
  BY <1>2 DEF Coils!AddBlock, Coils!lines, ModbusTypes, ModbusLines, ModbusHandlers, ModbusCells
<1>3. ASSUME ModbusTypes, NEW c \in Clients, Coils!EndOfStream(c) \/ Coils!Timeout(c)
      PROVE  ModbusTypes'
  <2>1. PICK next \in {"closed", "spin"} : slaves' = [slaves EXCEPT ![c] = next]
    BY <1>3 DEF Coils!EndOfStream, Coils!Timeout, ModbusTypes, ModbusHandlers
  <2>2. ModbusHandlers'
    BY <1>3, <2>1 DEF Coils!EndOfStream, Coils!Timeout, ModbusTypes, ModbusHandlers
  <2> QED
    BY <1>3, <2>2 DEF Coils!EndOfStream, Coils!Timeout, Coils!lines, ModbusTypes, ModbusLines, ModbusCells
<1>4. ASSUME ModbusTypes, NEW c \in Clients, NEW piece \in Coils!Pieces, Coils!Send(c, piece)
      PROVE  ModbusTypes'
  <2>1. adus' \in [Clients -> Seq(Coils!Pieces)]
    <3>1. <<piece>> \in Seq(Coils!Pieces)
      OBVIOUS
    <3> QED
      BY <1>4, <3>1 DEF Coils!Send, ModbusTypes, ModbusLines
  <2>2. writes' \in 0..MaxWrites
    BY <1>4, BoundsAssumption DEF Coils!Send, ModbusTypes, ModbusLines
  <2> QED
    BY <1>4, <2>1, <2>2 DEF Coils!Send, ModbusTypes, ModbusLines, ModbusHandlers, ModbusCells
<1>5. ASSUME ModbusTypes, NEW c \in Clients, Coils!Close(c) PROVE ModbusTypes'
  BY <1>5 DEF Coils!Close, ModbusTypes, ModbusLines, ModbusHandlers, ModbusCells
<1>6. ASSUME ModbusTypes, UNCHANGED modbus PROVE ModbusTypes'
  BY <1>6 DEF modbus, ModbusTypes, ModbusLines, ModbusHandlers, ModbusCells
<1>7. ModbusTypes /\ [Next]_vars => ModbusTypes'
  BY <1>2, <1>3, <1>4, <1>5, <1>6, ModbusSteps, ModbusReceivesTyped DEF Coils!Next, vars
<1> QED
  BY <1>1, <1>7, PTL DEF Spec

LEMMA ModbusHolds == Spec => []ModbusInv
<1>1. Init => ModbusInv
  BY ModbusStart
<1>2. ModbusTypes /\ ModbusInv /\ [Next]_vars => ModbusInv'
  <2>1. ASSUME ModbusInv, UNCHANGED <<template, blocks, memory, last>> PROVE ModbusInv'
    BY <2>1 DEF ModbusInv, IsConfigured, OfTemplate, Pristine, ModbusCellsAreInts,
       LastWriteIsThere, Coils!LastWriteIsThere, Coils!Sole
  <2>2. ASSUME ModbusTypes, ModbusInv, NEW c \in Clients, Coils!Receive(c) PROVE ModbusInv'
    <3>1. /\ template = <<>> /\ UNCHANGED <<template, blocks>>
          /\ \/ Coils!Execute(c, Head(adus[c]).request) /\ Head(adus[c]).kind = "whole"
             \/ Coils!Execute(c, pending[c])
             \/ UNCHANGED <<memory, last>>
      BY <2>2 DEF Coils!Receive, Coils!Runs, Coils!configured
    <3>2. Head(adus[c]) \in Coils!Pieces
      <4>1. adus[c] \in Seq(Coils!Pieces) /\ adus[c] # <<>>
        BY <2>2 DEF Coils!Receive, ModbusTypes, ModbusLines
      <4> QED
        BY <4>1, HeadTailProperties
    <3>3. CASE Coils!Execute(c, Head(adus[c]).request) /\ Head(adus[c]).kind = "whole"
      <4>1. Head(adus[c]).request \in Coils!Orders
        BY <3>2, <3>3 DEF Coils!Pieces
      <4> QED
        BY <2>2, <3>1, <3>3, <4>1, ModbusExecutes
    <3>4. CASE Coils!Execute(c, pending[c])
      <4>1. pending[c] \in Coils!Orders \cup {Coils!NoRequest}
        BY <2>2 DEF ModbusTypes, ModbusHandlers
      <4> QED
        BY <2>2, <3>1, <3>4, <4>1, ModbusExecutes
    <3> QED
      BY <2>1, <2>2, <3>1, <3>3, <3>4
  <2>3. ASSUME NEW c \in Clients,
               \/ Coils!EndOfStream(c) \/ Coils!Timeout(c) \/ Coils!Close(c)
               \/ \E piece \in Coils!Pieces : Coils!Send(c, piece)
        PROVE  UNCHANGED <<template, blocks, memory, last>>
    BY <2>3 DEF Coils!EndOfStream, Coils!Timeout, Coils!Close, Coils!Send, Coils!configured
  <2> QED
    BY <2>1, <2>2, <2>3, ModbusSteps, ModbusConfigures DEF Coils!Next, vars, modbus
<1> QED
  BY <1>1, <1>2, ModbusTypesHold, PTL DEF Spec

(* The last write to an address of one block, alone or with others and by  *)
(* a broadcast too, is there (slave_db.py:52-94, slave.py:62-97).          *)
THEOREM WritesAreThere == Spec => []LastWriteIsThere
<1>1. ModbusInv => LastWriteIsThere
  BY DEF ModbusInv
<1> QED
  BY <1>1, ModbusHolds, PTL

LEMMA ModbusTyped == Spec => []Coils!TypeOK
<1>1. ModbusTypes /\ ModbusInv => Coils!TypeOK
  BY DEF ModbusTypes, ModbusLines, ModbusHandlers, ModbusCells, ModbusInv, IsConfigured, OfTemplate,
     Coils!TypeOK
<1> QED
  BY <1>1, ModbusHolds, ModbusTypesHold, PTL

----------------------------------------------------------------------------
(***************************************************************************)
(* Kamstrup management.  A command stores settings that restart nothing,   *)
(* and may at its end store the one that does: what cannot be parsed comes *)
(* before that.                                                            *)
(***************************************************************************)
Words ==
    {"", "0", "0.0.0.0", "raises", "DISABLED", "ENABLED", "0 - none", "YES", "NO", "dhcp"}
      \cup UNION {{request[i] : i \in DOMAIN request} : request \in Requests}

Harmless == Seq((Management!Settings \ {"reboot_signal"}) \X Words)
Restarting == {front \o Management!Store("reboot_signal", "1") : front \in Harmless}

LEMMA ManagementSteps == Next => Management!Next \/ UNCHANGED management
  BY DEF Next, Only, management

LEMMA HarmlessStore ==
  ASSUME NEW s \in Management!Settings \ {"reboot_signal"}, NEW word \in Words
  PROVE  /\ Management!Store(s, word) \in Harmless
         /\ Management!StoreIp(s, word) \in Harmless
         /\ Management!StorePort(s, word) \in Harmless
<1>1. ASSUME NEW value \in Words PROVE Management!Store(s, value) \in Harmless
  <2> DEFINE pairs == (Management!Settings \ {"reboot_signal"}) \X Words
  <2>1. <<s, value>> \in pairs
    OBVIOUS
  <2> HIDE DEF pairs
  <2>2. << <<s, value>> >> \in Seq(pairs)
    BY <2>1
  <2> QED
    BY <2>2 DEF Management!Store, Harmless, pairs
<1>2. Management!ParseIp(word) \in Words
  BY DEF Words, Management!ParseIp, Management!IsNumber, Management!Disabled, Management!Raises
<1>3. <<>> \in Harmless
  BY DEF Harmless
<1> QED
  BY <1>1, <1>2, <1>3 DEF Management!StoreIp, Management!StorePort

LEMMA HarmlessNth ==
  ASSUME NEW p, NEW n, NEW stores, Len(p) >= n => stores \in Harmless
  PROVE  Management!StoreNth(p, n, stores) \in Harmless
  BY DEF Management!StoreNth, Harmless

LEMMA HarmlessConcat ==
  ASSUME NEW first \in Harmless, NEW second \in Harmless
  PROVE  first \o second \in Harmless
  BY ConcatProperties DEF Harmless

LEMMA HarmlessEmpty == <<>> \in Harmless
  BY DEF Harmless

LEMMA HarmlessUint ==
  ASSUME NEW word \in Words, NEW min
  PROVE  Management!TryParseUint(word, min) \in Words
  BY DEF Words, Management!TryParseUint, Management!IsNumber

LEMMA WordOf ==
  ASSUME NEW p \in Seq(Words), NEW n \in Nat \ {0}, Len(p) >= n
  PROVE  p[n] \in Words
  BY ElementOfSeq, LenProperties

LEMMA FirstWord ==
  ASSUME NEW p \in Seq(Words), p # <<>>
  PROVE  p[1] \in Words
  BY HeadTailProperties

LEMMA RequestWords ==
  ASSUME NEW request \in Requests
  PROVE  request # <<>> /\ request \in Seq(Words)
<1>1. request # <<>> /\ request \in Seq(STRING)
  BY ManagementAssumption
<1>2. ASSUME NEW i \in DOMAIN request PROVE request[i] \in Words
  <2>1. request[i] \in {request[j] : j \in DOMAIN request}
    OBVIOUS
  <2> QED
    BY <2>1 DEF Words
<1>3. Len(request) \in Nat /\ request \in [1..Len(request) -> Words]
  BY <1>1, <1>2, LenProperties
<1> QED
  BY <1>1, <1>3, SeqDef

LEMMA RestartLast ==
  ASSUME NEW front \in Harmless
  PROVE  front \o Management!Store("reboot_signal", "1") \in Restarting
  BY DEF Restarting

(* The commands that restart nothing.                                      *)
LEMMA HarmlessCommands ==
  ASSUME NEW p \in Seq(Words)
  PROVE  /\ Management!AccessControl(p) \in Harmless
         /\ Management!AlarmServer(p) \in Harmless
         /\ Management!SetKap1(p) \in Harmless
         /\ Management!SetKap2(p) \in Harmless
         /\ Management!SetLookup(p) \in Harmless
         /\ Management!SetWatchdog(p) \in Harmless
         /\ Management!SetNameserver(p) \in Harmless
         /\ Management!SetPorts(p) \in Harmless
         /\ Management!PerChannel(p, "serial_settings_a", "serial_settings_b") \in Harmless
         /\ Management!PerChannel(p, "channel_a_connect_socket",
                                  "channel_b_connect_socket") \in Harmless
<1> USE DEF Management!Settings
<1>1. Management!AccessControl(p) \in Harmless
  <2>1. /\ Management!Store("access_control_status", "DISABLED") \in Harmless
        /\ Management!Store("access_control_status", "ENABLED") \in Harmless
    BY HarmlessStore DEF Words
  <2>2. Len(p) = 3 => p[3] \in Words
    BY WordOf
  <2>3. Len(p) = 3 => /\ Management!StoreIp("access_control_1", p[3]) \in Harmless
                      /\ Management!StoreIp("access_control_16", p[3]) \in Harmless
    BY <2>2, HarmlessStore
  <2> QED
    BY <2>1, <2>3, HarmlessEmpty DEF Management!AccessControl
<1>2. Management!AlarmServer(p) \in Harmless
  <2>1. Management!Store("alarm_server_status", "ENABLED") \in Harmless
    BY HarmlessStore DEF Words
  <2>2. p # <<>> => Management!StoreIp("alarm_server_ip", p[1]) \in Harmless
    BY HarmlessStore, FirstWord
  <2>3. Management!StoreNth(p, 2, Management!StorePort("alarm_server_port", p[2])) \in Harmless
    BY HarmlessStore, HarmlessNth, WordOf
  <2> QED
    BY <2>1, <2>2, <2>3, HarmlessEmpty, HarmlessConcat DEF Management!AlarmServer
<1>3. Management!SetKap1(p) \in Harmless
  <2>1. Management!Store("kap_a_server_hostname", "0 - none") \in Harmless
    BY HarmlessStore DEF Words
  <2>2. p # <<>> => Management!StoreIp("kap_a_server_ip", p[1]) \in Harmless
    BY HarmlessStore, FirstWord
  <2>3. Management!StoreNth(p, 2, Management!StorePort("kap_a_server_port", p[2])) \in Harmless
    BY HarmlessStore, HarmlessNth, WordOf
  <2> QED
    BY <2>1, <2>2, <2>3, HarmlessEmpty, HarmlessConcat DEF Management!SetKap1
<1>4. Management!SetKap2(p) \in Harmless
  <2>1. p # <<>> => Management!StoreIp("kap_b_server_ip", p[1]) \in Harmless
    BY HarmlessStore, FirstWord
  <2>2. Management!StoreNth(p, 2, Management!StorePort("kap_b_server_port", p[2])) \in Harmless
    BY HarmlessStore, HarmlessNth, WordOf
  <2> QED
    BY <2>1, <2>2, HarmlessEmpty, HarmlessConcat DEF Management!SetKap2
<1>5. Management!SetLookup(p) \in Harmless
  BY HarmlessEmpty, HarmlessStore, FirstWord DEF Management!SetLookup, Words
<1>6. Management!SetWatchdog(p) \in Harmless
  <2>1. p # <<>> =>
          Management!Store("software_watchdog", Management!TryParseUint(p[1], 5)) \in Harmless
    BY HarmlessStore, HarmlessUint, FirstWord
  <2>2. Management!StoreNth(p, 2, Management!Store("kap_missing_warning",
          Management!TryParseUint(p[2], 0))) \in Harmless
    BY HarmlessStore, HarmlessUint, HarmlessNth, WordOf
  <2>3. Management!StoreNth(p, 3, Management!Store("keep_alive_timer",
          Management!TryParseUint(p[3], 0))) \in Harmless
    BY HarmlessStore, HarmlessUint, HarmlessNth, WordOf
  <2> QED
    BY <2>1, <2>2, <2>3, HarmlessEmpty, HarmlessConcat DEF Management!SetWatchdog
<1>7. Management!SetNameserver(p) \in Harmless
  <2>1. Len(p) = 3 => /\ Management!StoreIp("nameserver_1", p[1]) \in Harmless
                      /\ Management!StoreIp("nameserver_2", p[2]) \in Harmless
                      /\ Management!StoreIp("nameserver_3", p[3]) \in Harmless
    <3>1. Len(p) = 3 => p[1] \in Words /\ p[2] \in Words /\ p[3] \in Words
      BY WordOf
    <3> QED
      BY <3>1, HarmlessStore
  <2> QED
    BY <2>1, HarmlessEmpty, HarmlessConcat DEF Management!SetNameserver
<1>8. Management!SetPorts(p) \in Harmless
  <2>1. p # <<>> => Management!StorePort("kap_a_server_port", p[1]) \in Harmless
    BY HarmlessStore, FirstWord
  <2>2. Management!StoreNth(p, 2, Management!StorePort("channel_a_port", p[2])) \in Harmless
    BY HarmlessStore, HarmlessNth, WordOf
  <2>3. Management!StoreNth(p, 3, Management!StorePort("channel_b_port", p[3])) \in Harmless
    BY HarmlessStore, HarmlessNth, WordOf
  <2> QED
    BY <2>1, <2>2, <2>3, HarmlessEmpty, HarmlessConcat DEF Management!SetPorts
<1>9. ASSUME NEW a \in Management!Settings \ {"reboot_signal"},
             NEW b \in Management!Settings \ {"reboot_signal"}
      PROVE  Management!PerChannel(p, a, b) \in Harmless
  <2>1. Len(p) = 2 => Management!Store(a, p[2]) \in Harmless /\ Management!Store(b, p[2]) \in Harmless
    <3>1. Len(p) = 2 => p[2] \in Words
      BY WordOf
    <3> QED
      BY <3>1, <1>9, HarmlessStore
  <2> QED
    BY <2>1, HarmlessEmpty DEF Management!PerChannel
<1> QED
  BY <1>1, <1>2, <1>3, <1>4, <1>5, <1>6, <1>7, <1>8, <1>9

(* The commands that may restart the meter do so last.                     *)
LEMMA RestartingCommands ==
  ASSUME NEW p \in Seq(Words)
  PROVE  /\ Management!SetConfig(p) \in Harmless \cup Restarting
         /\ Management!SetDeviceName(p) \in Harmless \cup Restarting
         /\ Management!SetIP(p) \in Harmless \cup Restarting
<1> USE DEF Management!Settings
<1>1. Management!SetConfig(p) \in Harmless \cup Restarting
  <2> DEFINE dhcp == IF p[1] = "1" THEN Management!Store("use_dhcp", "YES")
                     ELSE Management!Store("use_dhcp", "NO")
                          \o Management!StoreIp("ip_addr", p[2])
                          \o Management!StoreIp("ip_subnet", p[3])
                          \o Management!StoreIp("ip_gateway", p[4])
             kap == IF p[10] = "0"
                    THEN Management!StoreIp("kap_a_server_ip", p[8])
                         \o Management!Store("kap_a_server_hostname", "0 - none")
                    ELSE Management!Store("kap_a_server_hostname", p[10])
                         \o Management!StoreIp("kap_a_server_ip", p[8])
             whole == dhcp \o Management!StoreIp("nameserver_1", p[5])
                      \o Management!StoreIp("nameserver_2", p[6])
                      \o Management!StoreIp("nameserver_3", p[7])
                      \o kap \o Management!Store("device_name", p[9])
             front == IF Len(p) < 10 THEN <<>> ELSE whole
  <2>1. ASSUME Len(p) >= 10 PROVE whole \in Harmless
    <3>1. \A n \in 1..10 : p[n] \in Words
      BY <2>1, WordOf, LenProperties
    <3>2. dhcp \in Harmless
      <4>1. /\ Management!Store("use_dhcp", "YES") \in Harmless
            /\ Management!Store("use_dhcp", "NO") \in Harmless
        BY HarmlessStore DEF Words
      <4>2. /\ Management!StoreIp("ip_addr", p[2]) \in Harmless
            /\ Management!StoreIp("ip_subnet", p[3]) \in Harmless
            /\ Management!StoreIp("ip_gateway", p[4]) \in Harmless
        BY <3>1, HarmlessStore
      <4> QED
        BY <4>1, <4>2, HarmlessConcat
    <3>3. kap \in Harmless
      <4>1. Management!Store("kap_a_server_hostname", "0 - none") \in Harmless
        BY HarmlessStore DEF Words
      <4>2. /\ Management!StoreIp("kap_a_server_ip", p[8]) \in Harmless
            /\ Management!Store("kap_a_server_hostname", p[10]) \in Harmless
        BY <3>1, HarmlessStore
      <4> QED
        BY <4>1, <4>2, HarmlessConcat
    <3>4. /\ Management!StoreIp("nameserver_1", p[5]) \in Harmless
          /\ Management!StoreIp("nameserver_2", p[6]) \in Harmless
          /\ Management!StoreIp("nameserver_3", p[7]) \in Harmless
          /\ Management!Store("device_name", p[9]) \in Harmless
      BY <3>1, HarmlessStore
    <3> HIDE DEF dhcp, kap
    <3> QED
      BY <3>2, <3>3, <3>4, HarmlessConcat
  <2>2. front \in Harmless
    <3> HIDE DEF whole
    <3> QED
      BY <2>1, HarmlessEmpty, LenProperties
  <2>3. Management!SetConfig(p) = front \o Management!Store("reboot_signal", "1")
    BY DEF Management!SetConfig
  <2> QED
    BY <2>2, <2>3, RestartLast
<1>2. Management!SetDeviceName(p) \in Harmless \cup Restarting
  <2>1. (IF p = <<>> THEN "" ELSE p[1]) \in Words
    BY FirstWord DEF Words
  <2>2. Management!Store("device_name", IF p = <<>> THEN "" ELSE p[1]) \in Harmless
    BY <2>1, HarmlessStore
  <2> QED
    BY <2>2, RestartLast DEF Management!SetDeviceName
<1>3. Management!SetIP(p) \in Harmless \cup Restarting
  <2>1. p # <<>> => Management!StoreIp("ip_addr", p[1]) \in Harmless
    BY HarmlessStore, FirstWord
  <2>2. /\ Management!Store("use_dhcp", "NO") \in Harmless
        /\ Management!Store("use_dhcp", "YES") \in Harmless
        /\ Management!Store("ip_addr", "dhcp") \in Harmless
        /\ Management!Store("ip_gateway", "dhcp") \in Harmless
        /\ Management!Store("ip_subnet", "dhcp") \in Harmless
    BY HarmlessStore DEF Words
  <2>3. p # <<>> => Management!Store("use_dhcp", "NO") \o Management!StoreIp("ip_addr", p[1])
                    \o Management!Store("reboot_signal", "1") \in Restarting
    BY <2>1, <2>2, HarmlessConcat, RestartLast
  <2>4. Management!Store("use_dhcp", "YES") \o Management!Store("ip_addr", "dhcp")
        \o Management!Store("ip_gateway", "dhcp") \o Management!Store("ip_subnet", "dhcp")
        \o Management!Store("reboot_signal", "1") \in Restarting
    BY <2>2, HarmlessConcat, RestartLast
  <2> QED
    BY <2>1, <2>3, <2>4, HarmlessEmpty DEF Management!SetIP
<1> QED
  BY <1>1, <1>2, <1>3

LEMMA RestartsAtTheEnd ==
  ASSUME NEW request \in Requests
  PROVE  Management!Stores(request) \in Harmless \cup Restarting
<1>1. Tail(request) \in Seq(Words)
  BY RequestWords, HeadTailProperties
<1>2. Management!Store("reboot_signal", "1") \in Restarting
  <2>1. Management!Store("reboot_signal", "1") = <<>> \o Management!Store("reboot_signal", "1")
    BY ConcatEmptySeq DEF Management!Store
  <2> QED
    BY <2>1, HarmlessEmpty, RestartLast
<1> QED
  BY <1>1, <1>2, HarmlessEmpty, HarmlessCommands, RestartingCommands DEF Management!Stores

(* A command that restarts the meter has one setting more.                 *)
LEMMA RestartingStores ==
  ASSUME NEW stores \in Restarting
  PROVE  \E front \in Harmless :
           /\ Len(front) \in Nat /\ DOMAIN stores = 1..(Len(front) + 1)
           /\ \A n \in 1..Len(front) : stores[n] = front[n]
           /\ stores[Len(front) + 1] = <<"reboot_signal", "1">>
<1> DEFINE restart == << <<"reboot_signal", "1">> >>
           all == ((Management!Settings \ {"reboot_signal"}) \X Words) \cup {<<"reboot_signal", "1">>}
<1>1. PICK front \in Harmless : stores = front \o restart
  BY DEF Restarting, Management!Store
<1>2. front \in Seq(all) /\ restart \in Seq(all)
  <2> HIDE DEF all
  <2>1. <<"reboot_signal", "1">> \in all
    BY DEF all
  <2>2. front \in Seq(all)
    BY SeqMonotonic DEF Harmless, all
  <2> QED
    BY <2>1, <2>2
<1>3. Len(restart) = 1 /\ restart[1] = <<"reboot_signal", "1">>
  OBVIOUS
<1> HIDE DEF all, restart
<1>4. Len(front) \in Nat
  BY <1>2, LenProperties
<1>5. /\ stores \in Seq(all) /\ Len(stores) = Len(front) + 1
      /\ \A n \in 1..(Len(front) + 1) : stores[n] = IF n <= Len(front) THEN front[n]
                                                    ELSE restart[n - Len(front)]
  <2>1. /\ front \o restart \in Seq(all) /\ Len(front \o restart) = Len(front) + Len(restart)
        /\ \A n \in 1..(Len(front) + Len(restart)) :
             (front \o restart)[n] = IF n <= Len(front) THEN front[n] ELSE restart[n - Len(front)]
    BY <1>2, ConcatProperties
  <2>2. Len(restart) = 1
    BY <1>3
  <2> QED
    BY <1>1, <2>1, <2>2, Zenon
<1>6. DOMAIN stores = 1..(Len(front) + 1)
  BY <1>5, LenProperties
<1>7. \A n \in 1..Len(front) : stores[n] = front[n]
  BY <1>4, <1>5
<1>8. stores[Len(front) + 1] = <<"reboot_signal", "1">>
  <2>1. PICK m : m = Len(front) + 1
    OBVIOUS
  <2>2. m \in 1..(Len(front) + 1) /\ ~(m <= Len(front)) /\ m - Len(front) = 1
    BY <1>4, <2>1
  <2>3. stores[m] = restart[1]
    BY <1>5, <2>2
  <2> QED
    BY <1>3, <2>1, <2>3
<1> QED
  BY <1>4, <1>6, <1>7, <1>8

(* What is kept of a command that breaks off restarts nothing.             *)
LEMMA BrokenKeepsNoRestart ==
  ASSUME NEW stores \in Harmless \cup Restarting, Management!Breaks(stores),
         NEW i \in Management!Kept(stores)
  PROVE  stores[i][1] # "reboot_signal"
<1>1. ASSUME NEW front \in Harmless, NEW n \in 1..Len(front)
      PROVE  front[n][1] # "reboot_signal"
  BY <1>1, ElementOfSeq DEF Harmless
<1>2. PICK k \in DOMAIN stores : stores[k][2] = Management!Raises
  BY DEF Management!Breaks
<1>3. i \in DOMAIN stores /\ \A j \in 1..i : stores[j][2] # Management!Raises
  BY DEF Management!Kept
<1>4. CASE stores \in Harmless
  BY <1>1, <1>3, <1>4, LenProperties DEF Harmless
<1>5. CASE stores \in Restarting
  <2>2. PICK front \in Harmless :
          /\ Len(front) \in Nat /\ DOMAIN stores = 1..(Len(front) + 1)
          /\ \A n \in 1..Len(front) : stores[n] = front[n]
          /\ stores[Len(front) + 1] = <<"reboot_signal", "1">>
    BY <1>5, RestartingStores
  <2>3. k <= Len(front)
    BY <1>2, <2>2 DEF Management!Raises
  <2>4. i < k
    BY <1>2, <1>3, <2>2
  <2> QED
    BY <1>1, <1>3, <2>2, <2>3, <2>4
<1> QED
  BY <1>4, <1>5

ManagementInv == DOMAIN manager = Clients /\ reboots \in Nat

LEMMA ManagementReceives ==
  ASSUME ManagementInv, NEW c \in Clients, Management!Receive(c)
  PROVE  /\ ManagementInv'
         /\ \A d \in Clients : manager[d] = "recv" /\ manager'[d] = "broken" => reboots' = reboots
<1>1. PICK request \in Requests :
        /\ config' = Management!Stored(Management!Stores(request))
        /\ reboots' = reboots + IF config'["reboot_signal"] # config["reboot_signal"] THEN 1 ELSE 0
        /\ manager' = [manager EXCEPT ![c] = IF Management!Breaks(Management!Stores(request))
                                             THEN "broken" ELSE "sleep"]
  BY DEF Management!Receive
<1> DEFINE stores == Management!Stores(request)
<1>2. ASSUME Management!Breaks(stores)
      PROVE  config'["reboot_signal"] = config["reboot_signal"]
  <2>1. {i \in Management!Kept(stores) : stores[i][1] = "reboot_signal"} = {}
    BY <1>2, RestartsAtTheEnd, BrokenKeepsNoRestart
  <2> QED
    BY <1>1, <2>1 DEF Management!Stored, Management!Settings
<1>3. ManagementInv'
  BY <1>1 DEF ManagementInv
<1>4. ASSUME NEW d \in Clients, manager[d] = "recv", manager'[d] = "broken"
      PROVE  Management!Breaks(stores)
  BY <1>1, <1>4 DEF ManagementInv
<1>5. Management!Breaks(stores) => reboots' = reboots
  BY <1>1, <1>2 DEF ManagementInv
<1> QED
  BY <1>3, <1>4, <1>5

(* No configuration that was stored in part is made active, as the restart *)
(* of a command is the last that it stores (commands.py:375-407, 493-514). *)
THEOREM HalfStoredIsKept == Spec => HalfStoredIsNotActivated
<1>1. Init => ManagementInv
  BY DEF Init, Management!Init, ManagementInv
<1>2. ManagementInv /\ [Next]_vars =>
        /\ ManagementInv'
        /\ [\A c \in Clients : manager[c] = "recv" /\ manager'[c] = "broken"
                                 => reboots' = reboots]_(Management!vars)
  <2>1. ASSUME ManagementInv, UNCHANGED management
        PROVE  ManagementInv' /\ UNCHANGED Management!vars
    BY <2>1 DEF ManagementInv, management, Management!vars
  <2>2. ASSUME ManagementInv, NEW c \in Clients,
               Management!Answer(c) \/ Management!Disconnect(c) \/ Management!Connect(c)
        PROVE  ManagementInv' /\ reboots' = reboots
    BY <2>2 DEF ManagementInv, Management!Answer, Management!Disconnect, Management!Connect
  <2> QED
    BY <2>1, <2>2, ManagementSteps, ManagementReceives DEF Management!Next, vars
<1> QED
  BY <1>1, <1>2, PTL DEF Spec, HalfStoredIsNotActivated, Management!HalfStoredIsNotActivated

LEMMA Greatest ==
  ASSUME NEW n \in Nat, NEW set \in SUBSET (1..n), set # {}
  PROVE  \E k \in set : \A m \in set : m <= k
<1> DEFINE below == {n - k : k \in set}
<1>1. below \in SUBSET Nat /\ below # {}
  <2>1. ASSUME NEW k \in set PROVE n - k \in Nat
    OBVIOUS
  <2> QED
    BY <2>1
<1>2. PICK b \in below : \A c \in below : b <= c
  BY <1>1, Smallest
<1>3. PICK k \in set : b = n - k
  BY <1>2
<1>4. ASSUME NEW m \in set PROVE m <= k
  <2>1. n - m \in below
    OBVIOUS
  <2>2. b <= n - m
    BY <1>2, <2>1
  <2> QED
    BY <1>3, <2>2
<1> QED
  BY <1>4

(* What is stored of a command is of the values that were parsed, or what  *)
(* was there.                                                              *)
LEMMA StoredIsParsed ==
  ASSUME NEW request \in Requests, NEW s \in Management!Settings,
         config[s] # Management!Raises
  PROVE  Management!Stored(Management!Stores(request))[s] # Management!Raises
<1> DEFINE stores == Management!Stores(request)
           at == {i \in Management!Kept(stores) : stores[i][1] = s}
           latest == CHOOSE i \in at : \A j \in at : j <= i
<1>1. PICK n \in Nat : DOMAIN stores = 1..n
  <2>1. stores \in Harmless \cup Restarting
    BY RestartsAtTheEnd
  <2>2. CASE stores \in Harmless
    BY <2>2, LenProperties DEF Harmless
  <2>3. CASE stores \in Restarting
    <3>1. PICK front \in Harmless : Len(front) \in Nat /\ DOMAIN stores = 1..(Len(front) + 1)
      <4> HIDE DEF stores
      <4> QED
        BY <2>3, RestartingStores
    <3>2. Len(front) + 1 \in Nat
      BY <3>1
    <3> QED
      BY <3>1, <3>2
  <2> QED
    BY <2>1, <2>2, <2>3
<1>2. Management!Stored(stores)[s] = IF at = {} THEN config[s] ELSE stores[latest][2]
  BY DEF Management!Stored
<1>3. ASSUME at # {}
      PROVE  stores[latest][2] # Management!Raises
  <2>1. at \subseteq Management!Kept(stores) /\ Management!Kept(stores) \subseteq 1..n
    BY <1>1 DEF Management!Kept
  <2>2. \E i \in at : \A j \in at : j <= i
    <3> HIDE DEF at
    <3> QED
      BY <1>3, <2>1, Greatest
  <2>3. latest \in at
    <3> HIDE DEF at
    <3> QED
      BY <2>2
  <2>4. latest \in Management!Kept(stores) /\ latest \in 1..n
    <3> HIDE DEF at
    <3> QED
      BY <2>1, <2>3
  <2>5. latest \in 1..latest
    BY <2>4
  <2> QED
    BY <2>4, <2>5 DEF Management!Kept
<1> HIDE DEF stores, at
<1> QED
  BY <1>2, <1>3 DEF stores

ManagementTypes ==
    /\ DOMAIN config = Management!Settings
    /\ \A s \in Management!Settings : config[s] # Management!Raises
    /\ reboots \in 0..handled /\ handled \in 0..MaxRequests
    /\ manager \in [Clients -> {"recv", "sleep", "broken", "closed"}]
    /\ held \in [Clients -> Requests \cup {<<>>}]
    /\ \A c \in Clients : held[c] # <<>> <=> manager[c] = "sleep"

LEMMA ManagementReceivesTyped ==
  ASSUME ManagementTypes, NEW c \in Clients, Management!Receive(c)
  PROVE  ManagementTypes'
<1>1. PICK request \in Requests :
        /\ config' = Management!Stored(Management!Stores(request))
        /\ reboots' = reboots + IF config'["reboot_signal"] # config["reboot_signal"] THEN 1 ELSE 0
        /\ manager' = [manager EXCEPT ![c] = IF Management!Breaks(Management!Stores(request))
                                             THEN "broken" ELSE "sleep"]
        /\ held' = [held EXCEPT ![c] = IF Management!Breaks(Management!Stores(request))
                                       THEN <<>> ELSE request]
  BY DEF Management!Receive
<1>2. /\ DOMAIN config' = Management!Settings
      /\ \A s \in Management!Settings : config'[s] # Management!Raises
  BY <1>1, StoredIsParsed DEF ManagementTypes, Management!Stored
<1>3. reboots' \in 0..handled' /\ handled' \in 0..MaxRequests
  <2>1. handled < MaxRequests /\ handled' = handled + 1 /\ reboots' \in {reboots, reboots + 1}
    <3>1. reboots' = reboots \/ reboots' = reboots + 1
      <4>1. reboots + 0 = reboots
        BY DEF ManagementTypes
      <4> QED
        BY <1>1, <4>1
    <3> QED
      BY <3>1 DEF Management!Receive
  <2> QED
    BY <2>1, BoundsAssumption DEF ManagementTypes
<1>4. request # <<>>
  BY RequestWords
<1>5. /\ manager' \in [Clients -> {"recv", "sleep", "broken", "closed"}]
      /\ held' \in [Clients -> Requests \cup {<<>>}]
      /\ \A d \in Clients : held'[d] # <<>> <=> manager'[d] = "sleep"
  BY <1>1, <1>4 DEF ManagementTypes
<1> QED
  BY <1>2, <1>3, <1>5 DEF ManagementTypes

LEMMA ManagementTyped == Spec => []Management!TypeOK
<1>1. Init => ManagementTypes
  <2> SUFFICES ASSUME Management!Init PROVE ManagementTypes
    BY DEF Init
  <2>1. ASSUME NEW s \in Management!Settings PROVE Management!Template[s] # Management!Raises
    BY DEF Management!Template, Management!Raises, Management!Disabled
  <2> QED
    BY <2>1, BoundsAssumption DEF Management!Init, Management!Template, ManagementTypes
<1>2. ASSUME ManagementTypes, NEW c \in Clients,
             Management!Answer(c) \/ Management!Disconnect(c) \/ Management!Connect(c)
      PROVE  ManagementTypes'
  <2>1. UNCHANGED <<config, reboots, handled>>
    BY <1>2 DEF Management!Answer, Management!Disconnect, Management!Connect
  <2>2. PICK next \in {"recv", "closed"} : manager' = [manager EXCEPT ![c] = next]
    BY <1>2 DEF Management!Answer, Management!Disconnect, Management!Connect
  <2>3. held' = [held EXCEPT ![c] = <<>>]
    BY <1>2 DEF Management!Answer, Management!Disconnect, Management!Connect, ManagementTypes
  <2> QED
    BY <1>2, <2>1, <2>2, <2>3 DEF ManagementTypes
<1>3. ASSUME ManagementTypes, UNCHANGED management PROVE ManagementTypes'
  BY <1>3 DEF management, ManagementTypes
<1>4. ManagementTypes /\ [Next]_vars => ManagementTypes'
  BY <1>2, <1>3, ManagementSteps, ManagementReceivesTyped DEF Management!Next, vars
<1>5. ManagementTypes => Management!TypeOK
  BY DEF ManagementTypes, Management!TypeOK
<1> QED
  BY <1>1, <1>4, <1>5, PTL DEF Spec

----------------------------------------------------------------------------
(***************************************************************************)
(* HTTP.  What has been loaded for a method that sends a body is framed    *)
(* as its header fields say.                                               *)
(***************************************************************************)
Sending == {"GET", "POST", "PUT", "HEAD"}

FramedAs(r) ==
    /\ r.framing = <<IF r.widths = <<>> THEN "length" ELSE "chunked", r.size>>
    /\ r.widths # <<>> => Http!ChunksTell(r.widths, r.size)

HttpInv ==
    /\ loaded # NoNode /\ loaded.local /\ job.method \in Sending => FramedAs(loaded)
    /\ LocalResponsesAreFramed

LEMMA HttpSteps == Next => Http!Next \/ UNCHANGED http
  BY DEF Next, Only, http

(* The sizes of a payload, and the chunks that the configuration gives it. *)
LEMMA HttpSizes ==
  LET conf == Http!Conf(job)
  IN  /\ conf.size \in Nat
      /\ conf.widths # <<>> => Http!Upto(conf.widths, Len(conf.widths)) \in 0..conf.size
      /\ \A size \in Http!Sizes(conf) : size \in Nat /\ size >= conf.size
<1> DEFINE conf == Http!Conf(job)
           all == Http!Upto(conf.widths, Len(conf.widths))
<1>1. conf.size \in Nat /\ (conf.widths # <<>> => all \in 0..conf.size)
  <2>1. CASE conf \in {Nodes[n] : n \in DOMAIN Nodes} \cup {Statuses[c] : c \in DOMAIN Statuses}
    BY <2>1, HttpAssumption
  <2>2. CASE conf \in {Http!NoEntity, Http!NoStatus}
    BY <2>2 DEF Http!NoEntity, Http!NoStatus
  <2> QED
    BY <2>1, <2>2 DEF Http!Conf, Http!Entity, Http!StatusConf
<1>2. \A size \in Http!Sizes(conf) : size \in Nat /\ size >= conf.size
  BY <1>1 DEF Http!Sizes
<1> QED
  BY <1>1, <1>2

(* The chunks of a configured payload, and one more for what is left.      *)
LEMMA HttpFrames ==
  ASSUME NEW code, NEW mixed, NEW size \in Http!Sizes(Http!Conf(job))
  PROVE  FramedAs(Http!Framed(code, Http!Conf(job).widths, size, mixed))
<1> DEFINE conf == Http!Conf(job)
           all == Http!Upto(conf.widths, Len(conf.widths))
<1>1. /\ conf.size \in Nat /\ (conf.widths # <<>> => all \in 0..conf.size)
      /\ size \in Nat /\ size >= conf.size
  BY HttpSizes
<1>2. conf.widths # <<>> => Http!ChunksTell(conf.widths, size)
  <2> HIDE DEF conf
  <2> QED
    BY <1>1 DEF Http!ChunksTell, Http!Rest
<1> QED
  BY <1>2 DEF FramedAs, Http!Framed

LEMMA HttpLoads ==
  ASSUME HttpInv, Http!LoadEntity \/ Http!LoadStatus
  PROVE  HttpInv'
<1>1. page' = page
  BY DEF Http!LoadEntity, Http!LoadStatus, Http!File, Http!Remote, Http!Load,
         Http!LoadStatusCode
<1>2. ASSUME loaded' # NoNode, loaded'.local PROVE FramedAs(loaded')
  <2>1. ASSUME NEW code, Http!File(code) PROVE FramedAs(loaded')
    BY <2>1, HttpFrames DEF Http!File, Http!Load
  <2>2. ASSUME NEW framing, Http!Remote(framing) PROVE ~loaded'.local
    BY <2>2 DEF Http!Remote, Http!Load
  <2>3. ASSUME NEW code, Http!Loading, Http!LoadStatusCode(code) PROVE loaded' = NoNode
    BY <2>3 DEF Http!Loading, Http!LoadStatusCode
  <2>4. ASSUME NEW mixed, Http!Load(Http!Framed(503, <<>>, 0, mixed)) PROVE FramedAs(loaded')
    BY <2>4 DEF FramedAs, Http!Framed, Http!Load
  <2>5. CASE Http!LoadEntity
    BY <1>2, <2>1, <2>2, <2>3, <2>5 DEF Http!LoadEntity
  <2>6. CASE Http!LoadStatus
    BY <1>2, <2>1, <2>2, <2>3, <2>4, <2>6 DEF Http!LoadStatus
  <2> QED
    BY <2>5, <2>6
<1> QED
  BY <1>1, <1>2 DEF HttpInv, LocalResponsesAreFramed, Http!LocalResponsesAreFramed

LEMMA HttpResponds ==
  ASSUME HttpInv, Http!Respond
  PROVE  HttpInv'
<1>1. /\ page'.method = job.method /\ page'.local = loaded.local
      /\ page'.framing = loaded.framing /\ page'.body = Http!Body(job.method, loaded)
      /\ loaded # NoNode
  BY DEF Http!Respond
<1>2. loaded.local /\ job.method \in Sending =>
        Http!Body(job.method, loaded) = IF job.method = "HEAD" THEN <<"none", 0>> ELSE loaded.framing
  BY <1>1 DEF HttpInv, FramedAs, Sending, Http!Body
<1>3. page'.local => loaded.local
  BY Zenon, <1>1
<1>4. ASSUME page'.local, page'.method \in Sending
      PROVE  IF page'.method = "HEAD" THEN page'.body = <<"none", 0>>
             ELSE page'.body = page'.framing
  <2>1. page'.body = IF job.method = "HEAD" THEN <<"none", 0>> ELSE loaded.framing
    BY <1>1, <1>2, <1>3, <1>4
  <2> QED
    BY <1>1, <2>1
<1>5. LocalResponsesAreFramed'
  BY <1>4 DEF Sending, LocalResponsesAreFramed, Http!LocalResponsesAreFramed
<1> QED
  BY <1>5 DEF Http!Respond, HttpInv

LEMMA HttpBegins ==
  ASSUME HttpInv, Http!Request
  PROVE  HttpInv'
<1>1. PICK method, what, own :
        /\ Http!Begin(method, what, own)
        /\ own = NoNode \/ method \in {"TRACE", "OPTIONS"}
  <2>1. ASSUME NEW path \in Paths, Http!DoGet(path) \/ Http!DoPost(path) \/ Http!DoHead(path)
        PROVE  \E method, what : Http!Begin(method, what, NoNode)
    BY <2>1 DEF Http!DoGet, Http!DoPost, Http!DoHead
  <2>2. ASSUME Http!DoTrace PROVE \E what, own : Http!Begin("TRACE", what, own)
    BY <2>2 DEF Http!DoTrace
  <2>3. ASSUME Http!DoOptions PROVE \E what, own : Http!Begin("OPTIONS", what, own)
    BY <2>3 DEF Http!DoOptions
  <2> QED
    BY <2>1, <2>2, <2>3 DEF Http!Request, Http!SendError
<1>2. page' = page /\ (loaded' = NoNode \/ job'.method \in {"TRACE", "OPTIONS"})
  BY <1>1 DEF Http!Begin
<1> QED
  BY <1>2 DEF HttpInv, Sending, LocalResponsesAreFramed, Http!LocalResponsesAreFramed

(* The body of a local response is as its header fields say                *)
(* (command_responder.py:473-502).                                         *)
THEOREM ResponsesAreFramed == Spec => []LocalResponsesAreFramed
<1>1. Init => HttpInv
  BY DEF Init, Http!Init, HttpInv, LocalResponsesAreFramed, Http!LocalResponsesAreFramed
<1>2. HttpInv /\ [Next]_vars => HttpInv'
  <2>1. ASSUME HttpInv, UNCHANGED <<job, loaded, page>> PROVE HttpInv'
    BY <2>1 DEF HttpInv, FramedAs, LocalResponsesAreFramed, Http!LocalResponsesAreFramed
  <2>2. Http!Tarpit \/ UNCHANGED http => UNCHANGED <<job, loaded, page>>
    BY DEF Http!Tarpit, http
  <2> QED
    BY <2>1, <2>2, HttpSteps, HttpLoads, HttpResponds, HttpBegins
       DEF Http!Next, Http!Serve, vars
<1>3. HttpInv => LocalResponsesAreFramed
  BY DEF HttpInv
<1> QED
  BY <1>1, <1>2, <1>3, PTL DEF Spec

(* A response is of a request, which has one of the methods.               *)
Methods == {"GET", "POST", "HEAD", "TRACE", "OPTIONS", "PUT"}

HttpTypes ==
    /\ disabled \subseteq {"HEAD", "TRACE", "OPTIONS"} /\ slept \in BOOLEAN
    /\ pages \in 0..MaxPages
    /\ job # NoNode => DOMAIN job = {"kind", "at", "method", "mixed"} /\ job.method \in Methods
    /\ loaded # NoNode => job # NoNode /\ loaded.size \in Nat

LEMMA HttpLoadsTyped ==
  ASSUME HttpTypes, Http!LoadEntity \/ Http!LoadStatus
  PROVE  HttpTypes'
<1>0. job # NoNode /\ loaded = NoNode
  BY DEF Http!LoadEntity, Http!LoadStatus, Http!Loading
<1>1. ASSUME NEW r, r.size \in Nat, Http!Load(r) PROVE HttpTypes'
  BY <1>0, <1>1 DEF Http!Load, HttpTypes
<1>2. ASSUME NEW code, Http!File(code) PROVE HttpTypes'
  <2>1. PICK size \in Nat : Http!Load(Http!Framed(code, Http!Conf(job).widths, size, job.mixed))
    BY <1>2, HttpSizes DEF Http!File
  <2> QED
    BY <1>1, <2>1 DEF Http!Framed
<1>3. ASSUME NEW framing, Http!Remote(framing) PROVE HttpTypes'
  BY <1>1, <1>3 DEF Http!Remote
<1>4. ASSUME NEW code, Http!LoadStatusCode(code) PROVE HttpTypes'
  <2>1. PICK brokeOff \in BOOLEAN :
          job' = [job EXCEPT !.kind = "status", !.at = code, !.mixed = @ \/ brokeOff]
    BY <1>4 DEF Http!LoadStatusCode
  <2>2. DOMAIN job' = {"kind", "at", "method", "mixed"} /\ job'.method = job.method
    BY <1>0, <2>1 DEF HttpTypes
  <2> QED
    BY <1>0, <1>4, <2>2 DEF Http!LoadStatusCode, HttpTypes
<1>5. ASSUME NEW mixed, Http!Load(Http!Framed(503, <<>>, 0, mixed)) PROVE HttpTypes'
  BY <1>1, <1>5 DEF Http!Framed
<1>6. CASE Http!LoadEntity
  BY <1>2, <1>3, <1>4, <1>6 DEF Http!LoadEntity
<1>7. CASE Http!LoadStatus
  BY <1>2, <1>3, <1>4, <1>5, <1>7 DEF Http!LoadStatus
<1> QED
  BY <1>6, <1>7

LEMMA HttpBeginsTyped ==
  ASSUME HttpTypes, Http!Request
  PROVE  HttpTypes'
<1>1. ASSUME NEW method \in Methods, NEW what, Http!Begin(method, what, NoNode)
      PROVE  HttpTypes'
  <2>1. pages' \in 0..MaxPages
    BY <1>1, BoundsAssumption DEF Http!Begin, HttpTypes
  <2> QED
    BY <1>1, <2>1 DEF Http!Begin, HttpTypes
<1>2. ASSUME NEW method \in {"TRACE", "OPTIONS"}, NEW own, own.size \in Nat,
             Http!Begin(method, Http!Own, own)
      PROVE  HttpTypes'
  <2>1. job' = [kind |-> "own", at |-> NoNode, method |-> method, mixed |-> FALSE]
    BY <1>2 DEF Http!Begin, Http!Own
  <2>2. job' # NoNode
    <3>1. job' \in [kind : {"own"}, at : {NoNode}, method : {"TRACE", "OPTIONS"}, mixed : {FALSE}]
      BY <2>1
    <3> QED
      BY <3>1, NoNodeAssumption, Zenon
  <2>3. pages' \in 0..MaxPages
    BY <1>2, BoundsAssumption DEF Http!Begin, HttpTypes
  <2>4. DOMAIN job' = {"kind", "at", "method", "mixed"} /\ job'.method \in Methods
    BY <2>1 DEF Methods
  <2> QED
    BY <1>2, <2>2, <2>3, <2>4 DEF Http!Begin, HttpTypes
<1>3. ASSUME NEW path \in Paths, Http!DoGet(path) \/ Http!DoPost(path) \/ Http!DoHead(path)
      PROVE  HttpTypes'
  BY <1>1, <1>3 DEF Http!DoGet, Http!DoPost, Http!DoHead, Methods
<1>4. CASE Http!DoTrace
  BY <1>1, <1>2, <1>4 DEF Http!DoTrace, Methods
<1>5. CASE Http!DoOptions
  BY <1>1, <1>2, <1>5 DEF Http!DoOptions, Http!Framed, Methods
<1>6. CASE Http!SendError
  BY <1>1, <1>6 DEF Http!SendError, Methods
<1> QED
  BY <1>3, <1>4, <1>5, <1>6 DEF Http!Request

LEMMA HttpTyped == Spec => []Http!TypeOK
<1>1. Init => HttpTypes
  <2>1. Init => pages \in 0..MaxPages
    BY BoundsAssumption DEF Init, Http!Init
  <2> QED
    BY <2>1 DEF Init, Http!Init, HttpTypes
<1>2. HttpTypes /\ [Next]_vars => HttpTypes'
  <2>1. ASSUME HttpTypes, Http!Tarpit PROVE HttpTypes'
    BY <2>1 DEF Http!Tarpit, HttpTypes
  <2>2. ASSUME HttpTypes, Http!Respond PROVE HttpTypes'
    BY <2>2 DEF Http!Respond, HttpTypes
  <2>3. ASSUME HttpTypes, UNCHANGED http PROVE HttpTypes'
    BY <2>3 DEF http, HttpTypes
  <2> QED
    BY <2>1, <2>2, <2>3, HttpSteps, HttpLoadsTyped, HttpBeginsTyped
       DEF Http!Next, Http!Serve, vars
<1>3. HttpTypes => Http!TypeOK
  BY DEF HttpTypes, Methods, Http!TypeOK
<1> QED
  BY <1>1, <1>2, <1>3, PTL DEF Spec

----------------------------------------------------------------------------
(***************************************************************************)
(* The decoder.  Whether it is behind an escape is the parity of the       *)
(* escapes that come right before the next byte, however many chunks they  *)
(* came in.                                                                *)
(***************************************************************************)
IsTry(d) ==
    /\ DOMAIN d = {"parsing", "escaped", "data", "how"}
    /\ d.parsing \in BOOLEAN /\ d.escaped \in BOOLEAN
    /\ d.how \in {"on", "raises", "discards", "returns"}

Trail(s, n) == {i \in 1..(n - 1) : \A j \in i..(n - 1) : s[j] = "escape"}
Odd(s, n) == Cardinality(Trail(s, n)) % 2 = 1
EndsOf(s) == {n \in 1..Len(s) : s[n] = "eot" /\ ~Odd(s, n)}

DecoderInv ==
    /\ stream \in Seq(Decoder!Symbols) /\ raised \in BOOLEAN /\ aligned \in BOOLEAN
    /\ aligned /\ ~raised =>
         /\ parsing \in BOOLEAN /\ escaped \in BOOLEAN
         /\ parsing <=> stream # <<>>
         /\ escaped <=> Odd(stream, Len(stream) + 1)
         /\ decoded = Cardinality(EndsOf(stream))

LEMMA DecoderSteps == Next => Decoder!Feed \/ UNCHANGED decoder
  BY DEF Next, Only, decoder

LEMMA TrailFinite ==
  ASSUME NEW s, NEW n \in Nat
  PROVE  IsFiniteSet(Trail(s, n)) /\ Cardinality(Trail(s, n)) \in Nat
<1>1. Trail(s, n) \subseteq 1..(n - 1)
  BY DEF Trail
<1>2. IsFiniteSet(1..(n - 1))
  BY FS_Interval
<1>3. IsFiniteSet(Trail(s, n))
  BY <1>1, <1>2, FS_Subset
<1> QED
  BY <1>3, FS_CardinalityType

LEMMA OddNext ==
  ASSUME NEW s, NEW n \in Nat \ {0}
  PROVE  Odd(s, n + 1) <=> s[n] = "escape" /\ ~Odd(s, n)
<1>1. CASE s[n] = "escape"
  <2>1. Trail(s, n + 1) = Trail(s, n) \cup {n} /\ n \notin Trail(s, n)
    <3>1. ASSUME NEW i \in 1..n PROVE i \in Trail(s, n + 1) <=> i \in Trail(s, n) \/ i = n
      BY <1>1 DEF Trail
    <3> QED
      BY <3>1 DEF Trail
  <2>2. Cardinality(Trail(s, n + 1)) = Cardinality(Trail(s, n)) + 1
    BY <2>1, TrailFinite, FS_AddElement
  <2>3. Cardinality(Trail(s, n)) \in Nat
    BY TrailFinite
  <2> QED
    BY <1>1, <2>2, <2>3 DEF Odd
<1>2. CASE s[n] # "escape"
  <2>1. Trail(s, n + 1) = {}
    BY <1>2 DEF Trail
  <2>2. Cardinality(Trail(s, n + 1)) = 0
    BY <2>1, FS_EmptySet
  <2> QED
    BY <1>2, <2>2 DEF Odd
<1> QED
  BY <1>1, <1>2

LEMMA OddFirst == ASSUME NEW s PROVE ~Odd(s, 1)
<1>1. Trail(s, 1) = {}
  BY DEF Trail
<1>2. Cardinality(Trail(s, 1)) = 0
  BY <1>1, FS_EmptySet
<1> QED
  BY <1>2 DEF Odd

LEMMA OddSame ==
  ASSUME NEW s, NEW t, NEW n \in Nat, \A i \in 1..(n - 1) : s[i] = t[i]
  PROVE  Odd(s, n) <=> Odd(t, n)
<1>1. Trail(s, n) = Trail(t, n)
  BY DEF Trail
<1> QED
  BY <1>1 DEF Odd

(* What one byte does while a frame is under way: it is escaped, is an     *)
(* escape, ends the frame or is one more of it.                            *)
LEMMA OneByte ==
  ASSUME NEW d, IsTry(d), d.escaped => d.parsing, NEW b, NEW crc,
         NEW e, e = Decoder!Decoded(d, b, crc)
  PROVE  /\ IsTry(e)
         /\ d.how # "on" => e = d
         /\ d.how = "on" /\ e.how = "on" =>
              /\ e.parsing
              /\ e.escaped <=> b = "escape" /\ ~d.escaped
              /\ ~(b = "eot" /\ ~d.escaped)
         /\ d.how = "on" /\ e.how = "returns" =>
              /\ e.parsing /\ ~e.escaped /\ ~d.escaped /\ b = "eot"
<1>1. /\ d.parsing \in BOOLEAN /\ d.escaped \in BOOLEAN
      /\ d.how \in {"on", "raises", "discards", "returns"}
      /\ DOMAIN d = {"parsing", "escaped", "data", "how"}
  BY DEF IsTry
<1>2. CASE d.how # "on"
  BY <1>2 DEF Decoder!Decoded
<1>3. CASE d.how = "on" /\ ~d.parsing /\ b # "magic"
  <2>1. e = [d EXCEPT !.how = "raises"]
    BY <1>3 DEF Decoder!Decoded
  <2>2. IsTry(e)
    BY <1>1, <2>1 DEF IsTry
  <2>3. e.how = "raises"
    BY <1>1, <2>1
  <2> QED
    BY <1>3, <2>2, <2>3
<1>4. CASE d.how = "on" /\ d.parsing /\ d.escaped
  <2>1. e = [d EXCEPT !.escaped = FALSE, !.data = @ + 1]
    BY <1>4 DEF Decoder!Decoded
  <2>2. IsTry(e)
    BY <1>1, <2>1 DEF IsTry
  <2>3. e.how = "on" /\ e.parsing = d.parsing /\ ~e.escaped
    BY <1>1, <1>4, <2>1
  <2> QED
    BY <1>4, <2>2, <2>3
<1>5. CASE d.how = "on" /\ d.parsing /\ ~d.escaped /\ b = "escape"
  <2>1. e = [d EXCEPT !.escaped = TRUE]
    BY <1>5 DEF Decoder!Decoded
  <2>2. IsTry(e)
    BY <1>1, <2>1 DEF IsTry
  <2>3. e.how = "on" /\ e.parsing = d.parsing /\ e.escaped
    BY <1>1, <1>5, <2>1
  <2> QED
    BY <1>5, <2>2, <2>3
<1>6. CASE d.how = "on" /\ d.parsing /\ ~d.escaped /\ b = "eot"
  <2>1. e = Decoder!EndOfFrame(d, crc)
    BY <1>6 DEF Decoder!Decoded
  <2>2. \/ e = [d EXCEPT !.how = "raises"]
        \/ e = [d EXCEPT !.how = "discards", !.parsing = FALSE, !.data = 0]
        \/ e = [d EXCEPT !.how = "returns", !.data = 0]
    BY <2>1 DEF Decoder!EndOfFrame
  <2>3. IsTry(e)
    BY <1>1, <2>2 DEF IsTry
  <2>4. /\ e.how # "on"
        /\ e.how = "returns" => e.parsing = d.parsing /\ e.escaped = d.escaped
    BY <1>1, <1>6, <2>2
  <2> QED
    BY <1>6, <2>3, <2>4
<1>7. CASE /\ d.how = "on" /\ (d.parsing \/ b = "magic") /\ ~d.escaped
           /\ b # "escape" \/ ~d.parsing
           /\ b # "eot" \/ ~d.parsing
  <2>1. e = [d EXCEPT !.parsing = TRUE, !.data = @ + 1]
    BY <1>7 DEF Decoder!Decoded
  <2>2. IsTry(e)
    BY <1>1, <2>1 DEF IsTry
  <2>3. e.how = "on" /\ e.parsing /\ e.escaped = d.escaped
    BY <1>1, <1>7, <2>1
  <2> QED
    BY <1>7, <2>2, <2>3
<1> QED
  BY <1>1, <1>2, <1>3, <1>4, <1>5, <1>6, <1>7

(* What decode_in computes byte by byte.                                   *)
IsDecoding(f, chunk, crc, k) ==
    f = [n \in 0..k |-> IF n = 0 THEN Decoder!Decoding
                         ELSE Decoder!Decoded(f[n - 1], chunk[n], crc)]

LEMMA DecodingNext ==
  ASSUME NEW chunk, NEW crc, NEW k \in Nat, NEW f, IsDecoding(f, chunk, crc, k)
  PROVE  \E g : IsDecoding(g, chunk, crc, k + 1)
<1> DEFINE g == [n \in 0..(k + 1) |-> IF n <= k THEN f[n]
                                       ELSE Decoder!Decoded(f[k], chunk[k + 1], crc)]
<1>1. ASSUME NEW n \in 0..(k + 1)
      PROVE  g[n] = IF n = 0 THEN Decoder!Decoding
                    ELSE Decoder!Decoded(g[n - 1], chunk[n], crc)
  <2>1. CASE n <= k
    <3>1. n \in 0..k /\ g[n] = f[n] /\ (n # 0 => n - 1 \in 0..k /\ g[n - 1] = f[n - 1])
      BY <2>1
    <3> QED
      BY <3>1 DEF IsDecoding
  <2>2. CASE n = k + 1
    <3>1. n # 0 /\ n - 1 = k /\ ~(n <= k) /\ k \in 0..(k + 1)
      BY <2>2
    <3>2. g[n] = Decoder!Decoded(f[k], chunk[k + 1], crc) /\ g[k] = f[k]
      BY <2>2, <3>1
    <3> QED
      BY <2>2, <3>1, <3>2
  <2> QED
    BY <2>1, <2>2
<1> HIDE DEF g
<1>2. g = [n \in 0..(k + 1) |-> g[n]]
  BY DEF g
<1> QED
  BY <1>1, <1>2 DEF IsDecoding

LEMMA DecodingExists ==
  ASSUME NEW chunk, NEW crc, NEW n \in Nat
  PROVE  \E f : IsDecoding(f, chunk, crc, n)
<1> DEFINE bad == {k \in Nat : ~\E f : IsDecoding(f, chunk, crc, k)}
<1>1. SUFFICES ASSUME bad # {} PROVE FALSE
  OBVIOUS
<1>2. PICK k \in bad : \A m \in bad : k <= m
  BY <1>1, Smallest
<1>3. k # 0
  <2> DEFINE f == [i \in 0..0 |-> Decoder!Decoding]
  <2>1. \A i \in 0..0 : i = 0
    OBVIOUS
  <2>2. IsDecoding(f, chunk, crc, 0)
    BY <2>1 DEF IsDecoding
  <2> QED
    BY <2>2
<1>4. k - 1 \in Nat /\ k - 1 + 1 = k /\ ~(k <= k - 1)
  BY <1>3
<1>5. \E f : IsDecoding(f, chunk, crc, k - 1)
  BY <1>2, <1>4
<1>6. \E f : IsDecoding(f, chunk, crc, k - 1 + 1)
  BY <1>4, <1>5, DecodingNext
<1> QED
  BY <1>4, <1>6

LEMMA AfterIs ==
  ASSUME NEW chunk, NEW crc, Len(chunk) \in Nat
  PROVE  /\ Decoder!After(chunk, crc)[0] = Decoder!Decoding
         /\ \A n \in 1..Len(chunk) : Decoder!After(chunk, crc)[n]
                = Decoder!Decoded(Decoder!After(chunk, crc)[n - 1], chunk[n], crc)
<1> DEFINE after == Decoder!After(chunk, crc)
<1>1. PICK f : IsDecoding(f, chunk, crc, Len(chunk))
  BY DecodingExists
<1>2. IsDecoding(after, chunk, crc, Len(chunk))
  BY <1>1 DEF Decoder!After, IsDecoding
<1> QED
  BY <1>2 DEF IsDecoding

(* A stream and the chunk that is added to it.                             *)
LEMMA ChunkAdds ==
  ASSUME stream \in Seq(Decoder!Symbols), NEW n \in Nat \ {0},
         NEW chunk \in [1..n -> Decoder!Symbols]
  PROVE  /\ stream \o chunk \in Seq(Decoder!Symbols) /\ stream \o chunk # <<>>
         /\ Len(chunk) = n /\ Len(stream) \in Nat /\ Len(stream \o chunk) = Len(stream) + n
         /\ \A i \in 1..Len(stream) : (stream \o chunk)[i] = stream[i]
         /\ \A j \in 1..n : (stream \o chunk)[Len(stream) + j] = chunk[j]
<1> DEFINE s == stream \o chunk
<1> HIDE DEF s
<1>1. chunk \in Seq(Decoder!Symbols)
  BY SeqDef
<1>2. Len(chunk) = n
  BY <1>1, LenProperties
<1>3. Len(stream) \in Nat
  BY LenProperties
<1>4. /\ s \in Seq(Decoder!Symbols) /\ Len(s) = Len(stream) + n
      /\ \A i \in 1..(Len(stream) + n) :
           s[i] = IF i <= Len(stream) THEN stream[i] ELSE chunk[i - Len(stream)]
  BY <1>1, <1>2, ConcatProperties DEF s
<1>5. s # <<>>
  BY <1>3, <1>4, EmptySeq
<1>6. \A i \in 1..Len(stream) : s[i] = stream[i]
  BY <1>3, <1>4
<1>7. ASSUME NEW j \in 1..n PROVE s[Len(stream) + j] = chunk[j]
  <2>1. /\ Len(stream) + j \in 1..(Len(stream) + n) /\ ~(Len(stream) + j <= Len(stream))
        /\ Len(stream) + j - Len(stream) = j
    BY <1>3
  <2> QED
    BY <1>4, <2>1
<1> QED
  BY <1>2, <1>3, <1>4, <1>5, <1>6, <1>7 DEF s

(* After j bytes of the chunk decode_in has not found an end.              *)
GoesOn(after, s, j) ==
    /\ IsTry(after[j])
    /\ after[j].how = "on" =>
         /\ after[j].parsing <=> Len(stream) + j # 0
         /\ after[j].escaped <=> Odd(s, Len(stream) + j + 1)
         /\ \A i \in (Len(stream) + 1)..(Len(stream) + j) : i \notin EndsOf(s)

LEMMA FeedBegins ==
  ASSUME DecoderInv, aligned, ~raised, NEW n \in Nat \ {0},
         NEW chunk \in [1..n -> Decoder!Symbols], NEW s, s = stream \o chunk,
         NEW after, after[0] = Decoder!Decoding
  PROVE  GoesOn(after, s, 0)
<1>1. /\ IsTry(after[0]) /\ (after[0].parsing <=> parsing) /\ (after[0].escaped <=> escaped)
  BY DEF Decoder!Decoding, IsTry, DecoderInv
<1>2. Len(stream) \in Nat /\ \A i \in 1..Len(stream) : s[i] = stream[i]
  BY ChunkAdds DEF DecoderInv
<1>3. Odd(s, Len(stream) + 1) <=> Odd(stream, Len(stream) + 1)
  <2>1. Len(stream) + 1 \in Nat /\ Len(stream) + 1 - 1 = Len(stream)
    BY <1>2
  <2>2. Trail(s, Len(stream) + 1) = Trail(stream, Len(stream) + 1)
    BY <1>2, <2>1 DEF Trail
  <2> QED
    BY <2>2 DEF Odd
<1>4. stream # <<>> <=> Len(stream) # 0
  BY EmptySeq DEF DecoderInv
<1>5. Len(stream) + 0 = Len(stream) /\ (Len(stream) + 1)..(Len(stream) + 0) = {}
  BY <1>2
<1> QED
  BY <1>1, <1>3, <1>4, <1>5 DEF GoesOn, DecoderInv

LEMMA FeedGoesOn ==
  ASSUME DecoderInv, NEW n \in Nat \ {0},
         NEW chunk \in [1..n -> Decoder!Symbols], NEW s, s = stream \o chunk,
         NEW after, NEW crc, NEW j \in 0..(n - 1), GoesOn(after, s, j),
         after[j + 1] = Decoder!Decoded(after[j], chunk[j + 1], crc)
  PROVE  GoesOn(after, s, j + 1)
<1> DEFINE k == Len(stream) + j + 1
<1>1. /\ Len(stream) \in Nat /\ k \in Nat \ {0} /\ k \in 1..Len(s) /\ s[k] = chunk[j + 1]
      /\ Len(stream) + (j + 1) = k
  <2>1. j + 1 \in 1..n
    OBVIOUS
  <2> QED
    BY <2>1, ChunkAdds DEF DecoderInv
<1>2. after[j].how = "on" /\ after[j].escaped => after[j].parsing
  BY <1>1, OddFirst DEF GoesOn
<1>3. CASE after[j].how # "on"
  <2>1. after[j + 1] = after[j]
    BY <1>3 DEF Decoder!Decoded
  <2> QED
    BY <1>3, <2>1 DEF GoesOn
<1>4. CASE after[j].how = "on"
  <2>1. /\ IsTry(after[j + 1])
        /\ after[j + 1].how = "on" =>
             /\ after[j + 1].parsing
             /\ after[j + 1].escaped <=> s[k] = "escape" /\ ~after[j].escaped
             /\ ~(s[k] = "eot" /\ ~after[j].escaped)
    BY <1>1, <1>2, <1>4, OneByte DEF GoesOn
  <2>2. Odd(s, k + 1) <=> s[k] = "escape" /\ ~Odd(s, k)
    BY <1>1, OddNext
  <2>3. (after[j].escaped <=> Odd(s, k)) /\ \A i \in (Len(stream) + 1)..(k - 1) : i \notin EndsOf(s)
    BY <1>1, <1>4 DEF GoesOn
  <2>4. ASSUME after[j + 1].how = "on", NEW i \in (Len(stream) + 1)..k PROVE i \notin EndsOf(s)
    <3>1. CASE i = k
      <4>1. s[k] = "eot" => Odd(s, k)
        BY <2>1, <2>3, <2>4
      <4> QED
        BY <3>1, <4>1 DEF EndsOf
    <3>2. CASE i # k
      <4>1. k = Len(stream) + j + 1 /\ Len(stream) \in Nat /\ j \in Nat
        BY <1>1
      <4>2. i \in (Len(stream) + 1)..(k - 1)
        BY <2>4, <3>2, <4>1
      <4> QED
        BY <2>3, <4>2
    <3> QED
      BY <3>1, <3>2
  <2> HIDE DEF k
  <2> QED
    BY <1>1, <2>1, <2>2, <2>3, <2>4 DEF GoesOn
<1> QED
  BY <1>3, <1>4

LEMMA FeedDecodes ==
  ASSUME DecoderInv, aligned, ~raised, NEW n \in Nat \ {0},
         NEW chunk \in [1..n -> Decoder!Symbols], NEW s, s = stream \o chunk,
         NEW crc, NEW after, after = Decoder!After(chunk, crc), NEW m \in 0..n
  PROVE  GoesOn(after, s, m)
<1> DEFINE bad == {k \in Nat : k <= n /\ ~GoesOn(after, s, k)}
<1>1. Len(chunk) = n
  BY ChunkAdds DEF DecoderInv
<1>2. /\ after[0] = Decoder!Decoding
      /\ \A k \in 1..n : after[k] = Decoder!Decoded(after[k - 1], chunk[k], crc)
  <2>1. Len(chunk) \in Nat
    BY <1>1
  <2>2. /\ after[0] = Decoder!Decoding
        /\ \A k \in 1..Len(chunk) : after[k] = Decoder!Decoded(after[k - 1], chunk[k], crc)
    BY <2>1, AfterIs
  <2> QED
    BY <1>1, <2>2
<1>3. SUFFICES ASSUME bad # {} PROVE FALSE
  OBVIOUS
<1>4. PICK k \in bad : \A i \in bad : k <= i
  BY <1>3, Smallest
<1>5. k # 0
  BY <1>2, <1>4, FeedBegins
<1>6. k - 1 \in 0..(n - 1) /\ k - 1 + 1 = k /\ k \in 1..n /\ ~(k <= k - 1)
  BY <1>4, <1>5
<1>7. GoesOn(after, s, k - 1)
  BY <1>4, <1>6
<1>8. after[k - 1 + 1] = Decoder!Decoded(after[k - 1], chunk[k - 1 + 1], crc)
  BY <1>2, <1>6
<1>9. GoesOn(after, s, k - 1 + 1)
  BY <1>6, <1>7, <1>8, FeedGoesOn
<1> QED
  BY <1>4, <1>6, <1>9

LEMMA EndsFinite ==
  ASSUME stream \in Seq(Decoder!Symbols)
  PROVE  IsFiniteSet(EndsOf(stream))
<1>1. EndsOf(stream) \subseteq 1..Len(stream) /\ Len(stream) \in Nat
  BY LenProperties DEF EndsOf
<1>2. IsFiniteSet(1..Len(stream))
  BY <1>1, FS_Interval
<1> QED
  BY <1>1, <1>2, FS_Subset

(* The ends in what has been fed before stay the same.                     *)
LEMMA EndsStay ==
  ASSUME stream \in Seq(Decoder!Symbols), NEW n \in Nat \ {0},
         NEW chunk \in [1..n -> Decoder!Symbols], NEW s, s = stream \o chunk,
         NEW m \in 0..n, \A i \in (Len(stream) + 1)..(Len(stream) + m) : i \notin EndsOf(s)
  PROVE  /\ \A i \in 1..(Len(stream) + m) : i \in EndsOf(s) <=> i \in EndsOf(stream)
         /\ EndsOf(stream) \subseteq 1..Len(stream)
<1>1. /\ Len(stream) \in Nat /\ Len(s) = Len(stream) + n
      /\ \A i \in 1..Len(stream) : s[i] = stream[i]
  BY ChunkAdds
<1>2. ASSUME NEW i \in 1..Len(stream) PROVE i \in EndsOf(s) <=> i \in EndsOf(stream)
  <2>1. i \in Nat /\ i \in 1..Len(s) /\ \A j \in 1..(i - 1) : s[j] = stream[j]
    BY <1>1
  <2>2. Odd(s, i) <=> Odd(stream, i)
    BY <2>1, OddSame
  <2> QED
    BY <1>1, <2>1, <2>2 DEF EndsOf
<1>3. EndsOf(stream) \subseteq 1..Len(stream)
  BY DEF EndsOf
<1>4. ASSUME NEW i \in 1..(Len(stream) + m)
      PROVE  i \in EndsOf(s) <=> i \in EndsOf(stream)
  <2>1. i \in 1..Len(stream) \/ (i \in (Len(stream) + 1)..(Len(stream) + m) /\ i \notin 1..Len(stream))
    BY <1>1
  <2> QED
    BY <1>2, <1>3, <2>1
<1> QED
  BY <1>3, <1>4

(* A chunk that goes on or ends with a frame: its last byte is an end or   *)
(* adds none.                                                              *)
LEMMA FeedKeeps ==
  ASSUME DecoderInv, Decoder!Feed
  PROVE  DecoderInv'
<1>1. PICK n \in 1..MaxChunk : \E chunk \in [1..n -> Decoder!Symbols],
                                 crc \in {"good", "bad", "short"} :
        LET after == Decoder!After(chunk, crc) IN
        /\ parsing' = after[n].parsing /\ escaped' = after[n].escaped
        /\ raised' = (raised \/ after[n].how = "raises")
        /\ decoded' = decoded + IF after[n].how \in {"returns", "discards"} THEN 1 ELSE 0
        /\ stream' = stream \o chunk
        /\ aligned' = (aligned /\ after[n - 1].how = "on" /\ after[n].how # "discards")
  BY DEF Decoder!Feed
<1>2. PICK chunk \in [1..n -> Decoder!Symbols], crc \in {"good", "bad", "short"} :
        LET after == Decoder!After(chunk, crc) IN
        /\ parsing' = after[n].parsing /\ escaped' = after[n].escaped
        /\ raised' = (raised \/ after[n].how = "raises")
        /\ decoded' = decoded + IF after[n].how \in {"returns", "discards"} THEN 1 ELSE 0
        /\ stream' = stream \o chunk
        /\ aligned' = (aligned /\ after[n - 1].how = "on" /\ after[n].how # "discards")
  BY <1>1
<1> DEFINE after == Decoder!After(chunk, crc)
           L == Len(stream)
<1>3. /\ parsing' = after[n].parsing /\ escaped' = after[n].escaped
      /\ raised' = (raised \/ after[n].how = "raises")
      /\ decoded' = decoded + IF after[n].how \in {"returns", "discards"} THEN 1 ELSE 0
      /\ stream' = stream \o chunk
      /\ aligned' = (aligned /\ after[n - 1].how = "on" /\ after[n].how # "discards")
  BY <1>2
<1>4. after = Decoder!After(chunk, crc)
  OBVIOUS
<1> HIDE DEF after
<1>5. n \in Nat \ {0} /\ n - 1 \in 0..n /\ n \in 0..n /\ n - 1 + 1 = n /\ n \in 1..n
  OBVIOUS
<1>6. /\ stream' \in Seq(Decoder!Symbols) /\ stream' # <<>>
      /\ L \in Nat /\ Len(stream') = L + n /\ stream'[L + n] = chunk[n] /\ Len(chunk) = n
  BY <1>3, <1>5, ChunkAdds DEF DecoderInv
<1>7. raised' \in BOOLEAN /\ aligned' \in BOOLEAN
  BY <1>3 DEF DecoderInv
<1>8. SUFFICES ASSUME aligned', ~raised'
               PROVE  /\ parsing' \in BOOLEAN /\ escaped' \in BOOLEAN /\ parsing'
                      /\ escaped' <=> Odd(stream', L + n + 1)
                      /\ decoded' = Cardinality(EndsOf(stream'))
  BY <1>6, <1>7 DEF DecoderInv, EndsOf, Odd, Trail
<1>9. aligned /\ ~raised /\ after[n - 1].how = "on" /\ after[n].how \notin {"discards", "raises"}
  BY <1>3, <1>8
<1>10. GoesOn(after, stream', n - 1) /\ GoesOn(after, stream', n)
  BY <1>3, <1>4, <1>5, <1>9, FeedDecodes
<1>11. after[n] = Decoder!Decoded(after[n - 1], chunk[n], crc)
  <2>1. Len(chunk) \in Nat
    BY <1>6
  <2>2. \A k \in 1..Len(chunk) : after[k] = Decoder!Decoded(after[k - 1], chunk[k], crc)
    BY <1>4, <2>1, AfterIs
  <2> QED
    BY <1>5, <1>6, <2>2
<1>12. decoded = Cardinality(EndsOf(stream)) /\ stream \in Seq(Decoder!Symbols)
  BY <1>9 DEF DecoderInv
<1>13. CASE after[n].how = "on"
  <2>1. /\ \A i \in 1..(L + n) : i \in EndsOf(stream') <=> i \in EndsOf(stream)
        /\ EndsOf(stream) \subseteq 1..L
    <3>1. \A i \in (L + 1)..(L + n) : i \notin EndsOf(stream')
      BY <1>10, <1>13 DEF GoesOn
    <3> QED
      BY <1>3, <1>5, <1>12, <3>1, EndsStay
  <2>2. EndsOf(stream') \subseteq 1..(L + n)
    BY <1>6 DEF EndsOf
  <2>3. EndsOf(stream') = EndsOf(stream)
    <3>1. 1..L \subseteq 1..(L + n)
      BY <1>5, <1>6
    <3>2. EndsOf(stream) \subseteq 1..(L + n)
      BY <2>1, <3>1
    <3> HIDE DEF L
    <3> QED
      BY <2>1, <2>2, <3>2, Zenon
  <2>4. decoded' = decoded
    <3>1. decoded \in Nat
      BY <1>12, EndsFinite, FS_CardinalityType
    <3> QED
      BY <1>3, <1>13, <3>1
  <2>5. /\ after[n].parsing \in BOOLEAN /\ after[n].escaped \in BOOLEAN
        /\ after[n].parsing /\ (after[n].escaped <=> Odd(stream', L + n + 1))
    BY <1>5, <1>6, <1>10, <1>13 DEF GoesOn, IsTry
  <2> QED
    BY <1>3, <1>12, <2>3, <2>4, <2>5
<1>14. CASE after[n].how = "returns"
  <2>1. /\ IsTry(after[n - 1]) /\ (after[n - 1].parsing <=> L + (n - 1) # 0)
        /\ after[n - 1].escaped <=> Odd(stream', L + (n - 1) + 1)
        /\ \A i \in (L + 1)..(L + (n - 1)) : i \notin EndsOf(stream')
    BY <1>9, <1>10 DEF GoesOn
  <2>2. L + (n - 1) + 1 = L + n /\ L + n \in Nat \ {0} /\ L + n \in 1..Len(stream')
    BY <1>5, <1>6
  <2>3. after[n - 1].escaped <=> Odd(stream', L + n)
    BY <2>1, <2>2
  <2>4. after[n - 1].escaped => after[n - 1].parsing
    <3>1. L + n = 1 => ~after[n - 1].escaped
      BY <2>3, OddFirst
    <3>2. L + (n - 1) = 0 => L + n = 1
      BY <1>6
    <3> QED
      BY <2>1, <3>1, <3>2
  <2>5. after[n].parsing /\ ~after[n].escaped /\ ~after[n - 1].escaped /\ chunk[n] = "eot"
    BY <1>9, <1>11, <1>14, <2>1, <2>4, OneByte
  <2>6. L + n \in EndsOf(stream')
    BY <1>6, <2>2, <2>3, <2>5 DEF EndsOf
  <2>7. /\ \A i \in 1..(L + (n - 1)) : i \in EndsOf(stream') <=> i \in EndsOf(stream)
        /\ EndsOf(stream) \subseteq 1..L
    BY <1>3, <1>5, <1>12, <2>1, EndsStay
  <2>8. EndsOf(stream') \subseteq 1..(L + n)
    BY <1>6 DEF EndsOf
  <2>9. EndsOf(stream') = EndsOf(stream) \cup {L + n} /\ L + n \notin EndsOf(stream)
    <3>1. \A i \in 1..(L + n) : i \in 1..(L + (n - 1)) \/ i = L + n
      BY <1>5, <1>6
    <3>2. L + n \notin 1..L /\ 1..L \subseteq 1..(L + n)
      BY <1>5, <1>6
    <3> QED
      BY <2>6, <2>7, <2>8, <3>1, <3>2
  <2>10. IsTry(after[n])
    BY <1>10 DEF GoesOn
  <2>11. after[n].parsing \in BOOLEAN /\ after[n].escaped \in BOOLEAN
    BY <2>10 DEF IsTry
  <2>12. Cardinality(EndsOf(stream')) = Cardinality(EndsOf(stream)) + 1
    BY <1>12, <2>9, EndsFinite, FS_AddElement
  <2>13. decoded' = decoded + 1
    BY <1>3, <1>14
  <2>14. ~Odd(stream', L + n + 1)
    BY <1>6, <2>2, <2>5, OddNext
  <2> QED
    BY <1>3, <1>12, <2>5, <2>11, <2>12, <2>13, <2>14
<1> QED
  BY <1>9, <1>10, <1>13, <1>14 DEF GoesOn, IsTry

(* The instance brings its own definition of the cardinality.              *)
LEMMA CountedAlike == ASSUME NEW set PROVE Decoder!Cardinality(set) = Cardinality(set)
  BY DEF Decoder!Cardinality, Cardinality

LEMMA DecoderInvHolds == Spec => []DecoderInv
<1>1. Init => DecoderInv
  <2> SUFFICES ASSUME Init PROVE DecoderInv
    OBVIOUS
  <2>1. /\ parsing = FALSE /\ escaped = FALSE /\ raised = FALSE /\ decoded = 0
        /\ stream = <<>> /\ aligned = TRUE
    BY DEF Init, Decoder!Init
  <2>2. stream \in Seq(Decoder!Symbols) /\ Len(stream) = 0
    BY <2>1, EmptySeq
  <2>3. ~Odd(stream, Len(stream) + 1)
    BY <2>2, OddFirst
  <2>4. EndsOf(stream) = {}
    BY <2>2 DEF EndsOf
  <2>5. Cardinality(EndsOf(stream)) = 0
    BY <2>4, FS_EmptySet
  <2> QED
    BY <2>1, <2>2, <2>3, <2>5 DEF DecoderInv
<1>2. DecoderInv /\ [Next]_vars => DecoderInv'
  <2>1. ASSUME DecoderInv, UNCHANGED decoder PROVE DecoderInv'
    BY <2>1 DEF DecoderInv, decoder, EndsOf, Odd, Trail
  <2>2. UNCHANGED vars => UNCHANGED decoder
    BY DEF vars
  <2> QED
    BY <2>1, <2>2, FeedKeeps, DecoderSteps
<1> QED
  BY <1>1, <1>2, PTL DEF Spec

(* However a stream is cut into chunks, the decoder has decoded a frame for    *)
(* every unescaped end in it, as long as no chunk went on after the end of a   *)
(* frame, no frame was discarded and nothing raised.                           *)
THEOREM FramesAreDecoded == Spec => []DecodesEveryFrame
<1>1. DecoderInv => DecodesEveryFrame
  <2> SUFFICES ASSUME DecoderInv, aligned, ~raised
               PROVE  decoded = Cardinality(Decoder!Ends)
    BY CountedAlike DEF DecodesEveryFrame, Decoder!DecodesEveryFrame
  <2>1. decoded = Cardinality(EndsOf(stream)) /\ Len(stream) \in Nat
    BY LenProperties DEF DecoderInv
  <2>2. ASSUME NEW n \in 1..Len(stream)
        PROVE  Decoder!Cardinality(Decoder!EscapesBefore(n)) % 2 = 0 <=> ~Odd(stream, n)
    <3>1. Decoder!EscapesBefore(n) = Trail(stream, n)
      BY DEF Decoder!EscapesBefore, Trail
    <3>2. Cardinality(Trail(stream, n)) \in Nat
      BY <2>1, TrailFinite
    <3> QED
      BY <3>1, <3>2, CountedAlike DEF Odd
  <2>3. Decoder!Ends = EndsOf(stream)
    <3>1. \A n \in 1..Len(stream) : n \in Decoder!Ends <=> n \in EndsOf(stream)
      BY <2>2 DEF Decoder!Ends, EndsOf
    <3>2. Decoder!Ends \subseteq 1..Len(stream) /\ EndsOf(stream) \subseteq 1..Len(stream)
      BY DEF Decoder!Ends, EndsOf
    <3> QED
      BY <3>1, <3>2
  <2> QED
    BY <2>1, <2>3
<1> QED
  BY <1>1, DecoderInvHolds, PTL

(* What is escaped or collected belongs to a frame, and of the bytes that  *)
(* were fed at most each is collected.                                     *)
InFrame(d) ==
    /\ IsTry(d)
    /\ d.escaped => d.parsing
    /\ d.data # 0 => d.parsing

OneMoreAtMost(d, e) == e.data \in {0, d.data, d.data + 1}

LEMMA OneByteInFrame ==
  ASSUME NEW d, InFrame(d), NEW b, NEW crc, NEW e, e = Decoder!Decoded(d, b, crc)
  PROVE  InFrame(e) /\ OneMoreAtMost(d, e)
<1>1. /\ d.parsing \in BOOLEAN /\ d.escaped \in BOOLEAN
      /\ d.how \in {"on", "raises", "discards", "returns"}
      /\ DOMAIN d = {"parsing", "escaped", "data", "how"}
      /\ d.escaped => d.parsing
      /\ d.data # 0 => d.parsing
  BY DEF InFrame, IsTry
<1>2. CASE d.how # "on"
  BY <1>2 DEF Decoder!Decoded, OneMoreAtMost
<1>3. CASE e = [d EXCEPT !.how = "raises"]
  <2>1. /\ DOMAIN e = DOMAIN d /\ e.how = "raises" /\ e.parsing = d.parsing
        /\ e.escaped = d.escaped /\ e.data = d.data
    BY <1>1, <1>3
  <2> QED
    BY <1>1, <2>1, Zenon DEF InFrame, IsTry, OneMoreAtMost
<1>4. CASE d.parsing /\ e = [d EXCEPT !.escaped = FALSE, !.data = @ + 1]
  <2>1. /\ DOMAIN e = DOMAIN d /\ e.how = d.how /\ e.parsing = d.parsing
        /\ e.escaped = FALSE /\ e.data = d.data + 1
    BY <1>1, <1>4
  <2> QED
    BY <1>1, <1>4, <2>1, Zenon DEF InFrame, IsTry, OneMoreAtMost
<1>5. CASE d.parsing /\ e = [d EXCEPT !.escaped = TRUE]
  <2>1. /\ DOMAIN e = DOMAIN d /\ e.how = d.how /\ e.parsing = d.parsing
        /\ e.escaped = TRUE /\ e.data = d.data
    BY <1>1, <1>5
  <2> QED
    BY <1>1, <1>5, <2>1, Zenon DEF InFrame, IsTry, OneMoreAtMost
<1>6. CASE ~d.escaped /\ e = [d EXCEPT !.how = "discards", !.parsing = FALSE, !.data = 0]
  <2>1. /\ DOMAIN e = DOMAIN d /\ e.how = "discards" /\ e.parsing = FALSE
        /\ e.escaped = d.escaped /\ e.data = 0
    BY <1>1, <1>6
  <2> QED
    BY <1>1, <1>6, <2>1, Zenon DEF InFrame, IsTry, OneMoreAtMost
<1>7. CASE e = [d EXCEPT !.how = "returns", !.data = 0]
  <2>1. /\ DOMAIN e = DOMAIN d /\ e.how = "returns" /\ e.parsing = d.parsing
        /\ e.escaped = d.escaped /\ e.data = 0
    BY <1>1, <1>7
  <2> QED
    BY <1>1, <2>1, Zenon DEF InFrame, IsTry, OneMoreAtMost
<1>8. CASE e = [d EXCEPT !.parsing = TRUE, !.data = @ + 1]
  <2>1. /\ DOMAIN e = DOMAIN d /\ e.how = d.how /\ e.parsing = TRUE
        /\ e.escaped = d.escaped /\ e.data = d.data + 1
    BY <1>1, <1>8
  <2> QED
    BY <1>1, <2>1, Zenon DEF InFrame, IsTry, OneMoreAtMost
<1>9. CASE d.how = "on" /\ ~d.parsing
  <2>1. ~d.escaped
    BY <1>1, <1>9
  <2>2. b # "magic" => e = [d EXCEPT !.how = "raises"]
    BY <1>9, <2>1 DEF Decoder!Decoded
  <2>3. b = "magic" => e = [d EXCEPT !.parsing = TRUE, !.data = @ + 1]
    BY <1>9, <2>1 DEF Decoder!Decoded
  <2> QED
    BY <1>3, <1>8, <2>2, <2>3
<1>10. CASE d.how = "on" /\ d.parsing
  <2>1. CASE d.escaped
    BY <1>4, <1>10, <2>1 DEF Decoder!Decoded
  <2>2. CASE ~d.escaped /\ b = "escape"
    BY <1>5, <1>10, <2>2 DEF Decoder!Decoded
  <2>3. CASE ~d.escaped /\ b = "eot"
    <3>1. e = Decoder!EndOfFrame(d, crc)
      BY <1>10, <2>3 DEF Decoder!Decoded
    <3>2. \/ e = [d EXCEPT !.how = "raises"]
          \/ e = [d EXCEPT !.how = "discards", !.parsing = FALSE, !.data = 0]
          \/ e = [d EXCEPT !.how = "returns", !.data = 0]
      BY <3>1 DEF Decoder!EndOfFrame
    <3> QED
      BY <1>3, <1>6, <1>7, <2>3, <3>2
  <2>4. CASE ~d.escaped /\ b \notin {"escape", "eot"}
    BY <1>8, <1>10, <2>4 DEF Decoder!Decoded
  <2> QED
    BY <2>1, <2>2, <2>3, <2>4
<1> QED
  BY <1>1, <1>2, <1>9, <1>10

LEMMA CollectedGrows ==
  ASSUME NEW d, NEW e, OneMoreAtMost(d, e), NEW n \in Nat, d.data \in 0..n
  PROVE  e.data \in 0..(n + 1)
  BY DEF OneMoreAtMost

DecoderFlags ==
    /\ parsing \in BOOLEAN /\ escaped \in BOOLEAN
    /\ escaped => parsing
    /\ data # 0 => parsing

DecoderCounts ==
    /\ stream \in Seq(Decoder!Symbols) /\ Len(stream) <= MaxStream
    /\ data \in 0..Len(stream) /\ decoded \in 0..Len(stream)

LEMMA FeedCollects ==
  ASSUME DecoderFlags, DecoderCounts, NEW n \in Nat \ {0},
         NEW chunk \in [1..n -> Decoder!Symbols], NEW crc
  PROVE  /\ InFrame(Decoder!After(chunk, crc)[n])
         /\ Decoder!After(chunk, crc)[n].data \in 0..(Len(stream) + n)
<1> DEFINE after == Decoder!After(chunk, crc)
           Fits(k) == InFrame(after[k]) /\ after[k].data \in 0..(Len(stream) + k)
           bad == {k \in 0..n : ~Fits(k)}
<1>1. Len(chunk) = n /\ Len(stream) \in Nat
  BY ChunkAdds DEF DecoderCounts
<1>2. /\ after[0] = Decoder!Decoding
      /\ \A k \in 1..n : after[k] = Decoder!Decoded(after[k - 1], chunk[k], crc)
  BY <1>1, AfterIs
<1>3. Fits(0)
  <2>1. /\ DOMAIN after[0] = {"parsing", "escaped", "data", "how"}
        /\ after[0].parsing = parsing /\ after[0].escaped = escaped
        /\ after[0].data = data /\ after[0].how = "on"
    BY <1>2 DEF Decoder!Decoding
  <2>2. InFrame(after[0])
    <3> HIDE DEF after
    <3> QED
      BY <2>1, Zenon DEF InFrame, IsTry, DecoderFlags
  <2>3. after[0].data \in 0..(Len(stream) + 0)
    <3> HIDE DEF after
    <3> QED
      BY <1>1, <2>1 DEF DecoderCounts
  <2> QED
    BY <2>2, <2>3
<1> HIDE DEF after
<1>4. ASSUME NEW k \in 1..n, Fits(k - 1) PROVE Fits(k)
  <2>1. InFrame(after[k]) /\ OneMoreAtMost(after[k - 1], after[k])
    BY <1>2, <1>4, OneByteInFrame
  <2>2. after[k - 1].data \in 0..(Len(stream) + (k - 1)) /\ Len(stream) + (k - 1) \in Nat
        /\ Len(stream) + (k - 1) + 1 = Len(stream) + k
    BY <1>1, <1>4
  <2>3. after[k].data \in 0..(Len(stream) + (k - 1) + 1)
    BY <2>1, <2>2, CollectedGrows
  <2> QED
    BY <2>1, <2>2, <2>3
<1>5. ASSUME bad # {} PROVE FALSE
  <2> HIDE DEF Fits
  <2>1. bad \in SUBSET Nat
    OBVIOUS
  <2>2. PICK k \in bad : \A m \in bad : k <= m
    <3> HIDE DEF bad
    <3> QED
      BY <1>5, <2>1, Smallest
  <2>3. k \in 0..n /\ k # 0 /\ ~Fits(k)
    BY <1>3, <2>2
  <2>4. k \in 1..n /\ k - 1 \in 0..n /\ ~(k <= k - 1)
    BY <2>3
  <2>5. Fits(k - 1)
    BY <2>2, <2>4
  <2> QED
    BY <1>4, <2>3, <2>4, <2>5
<1>6. n \in 0..n
  OBVIOUS
<1>7. Fits(n)
  <2> HIDE DEF Fits
  <2> QED
    BY <1>5, <1>6
<1> QED
  BY <1>7 DEF after

FedWith(n, chunk, after) ==
    /\ Len(stream) + n <= MaxStream
    /\ parsing' = after[n].parsing /\ escaped' = after[n].escaped
    /\ data' = after[n].data
    /\ raised' = (raised \/ after[n].how = "raises")
    /\ decoded' = decoded + IF after[n].how \in {"returns", "discards"} THEN 1 ELSE 0
    /\ stream' = stream \o chunk
    /\ aligned' = (aligned /\ after[n - 1].how = "on" /\ after[n].how # "discards")

LEMMA FeedTyped ==
  ASSUME DecoderFlags, DecoderCounts, Decoder!Feed
  PROVE  DecoderFlags' /\ DecoderCounts'
<1>1. PICK n \in 1..MaxChunk : \E chunk \in [1..n -> Decoder!Symbols],
                                 crc \in {"good", "bad", "short"} :
        FedWith(n, chunk, Decoder!After(chunk, crc))
  BY Zenon DEF Decoder!Feed, FedWith
<1>2. PICK chunk \in [1..n -> Decoder!Symbols], crc \in {"good", "bad", "short"} :
        FedWith(n, chunk, Decoder!After(chunk, crc))
  BY <1>1, Zenon
<1> DEFINE d == Decoder!After(chunk, crc)[n]
<1>3. /\ Len(stream) + n <= MaxStream
      /\ parsing' = d.parsing /\ escaped' = d.escaped /\ data' = d.data
      /\ decoded' = decoded + IF d.how \in {"returns", "discards"} THEN 1 ELSE 0
      /\ stream' = stream \o chunk
  BY <1>2 DEF FedWith
<1>4. n \in Nat \ {0}
  OBVIOUS
<1>5. InFrame(d) /\ d.data \in 0..(Len(stream) + n)
  BY <1>4, FeedCollects
<1> HIDE DEF d
<1>6. stream' \in Seq(Decoder!Symbols) /\ Len(stream) \in Nat /\ Len(stream') = Len(stream) + n
  BY <1>3, <1>4, ChunkAdds DEF DecoderCounts
<1>7. DecoderFlags'
  BY <1>3, <1>5, Zenon DEF DecoderFlags, InFrame, IsTry
<1>8. decoded' \in 0..Len(stream')
  <2>1. decoded' = decoded \/ decoded' = decoded + 1
    <3>1. decoded + 0 = decoded
      BY <1>6 DEF DecoderCounts
    <3> QED
      BY <1>3, <3>1
  <2> QED
    BY <1>4, <1>6, <2>1 DEF DecoderCounts
<1> QED
  BY <1>3, <1>5, <1>6, <1>7, <1>8 DEF DecoderCounts

LEMMA DecoderTyped == Spec => []Decoder!TypeOK
<1>1. Init => DecoderFlags /\ DecoderCounts
  <2> SUFFICES ASSUME Decoder!Init PROVE DecoderFlags /\ DecoderCounts
    BY DEF Init
  <2>1. DecoderFlags
    BY DEF Decoder!Init, DecoderFlags
  <2>2. DecoderCounts
    BY BoundsAssumption, EmptySeq DEF Decoder!Init, DecoderCounts
  <2> QED
    BY <2>1, <2>2
<1>2. DecoderFlags /\ DecoderCounts /\ [Next]_vars => DecoderFlags' /\ DecoderCounts'
  <2>1. ASSUME DecoderFlags, DecoderCounts, UNCHANGED decoder PROVE DecoderFlags' /\ DecoderCounts'
    BY <2>1 DEF DecoderFlags, DecoderCounts, decoder
  <2>2. UNCHANGED vars => UNCHANGED decoder
    BY DEF vars
  <2> QED
    BY <2>1, <2>2, FeedTyped, DecoderSteps
<1>3. DecoderInv /\ DecoderFlags /\ DecoderCounts => Decoder!TypeOK
  <2> SUFFICES ASSUME DecoderInv, DecoderFlags, DecoderCounts PROVE Decoder!TypeOK
    OBVIOUS
  <2>1. data \in 0..MaxStream /\ decoded \in 0..MaxStream
    BY BoundsAssumption, LenProperties DEF DecoderCounts
  <2>2. data > 0 => data # 0
    BY <2>1
  <2> QED
    BY <2>1, <2>2, Zenon DEF Decoder!TypeOK, DecoderInv, DecoderFlags, DecoderCounts
<1> QED
  BY <1>1, <1>2, <1>3, DecoderInvHolds, PTL DEF Spec

----------------------------------------------------------------------------
(***************************************************************************)
(* All of them.                                                            *)
(***************************************************************************)
OneIsFollowed == server \in Servers

LEMMA ServerStays == Spec => []OneIsFollowed
<1>1. OneIsFollowed /\ [Next]_vars => OneIsFollowed'
  BY DEF OneIsFollowed, Next, Only, vars
<1>2. Init => OneIsFollowed
  BY DEF OneIsFollowed, Init
<1> QED
  BY <1>1, <1>2, PTL DEF Spec

(* For any configuration, any clients and any traffic, every server keeps its *)
(* state to what its handlers are written for: handlers know the phase they   *)
(* are in, records keep their fields, counters stay in their ranges, and what *)
(* is stored is of the values that were parsed.                               *)
THEOREM ServersAreTyped == Spec => []TypeOK
  BY ServerStays, IpmiTyped, S7Typed, BacnetTyped, SnmpTyped, ModbusTyped, HttpTyped,
     GaugeTyped, ManagementTyped, UsageTyped, RelaysTyped, DecoderTyped, PTL
     DEF TypeOK, OneIsFollowed
=============================================================================
