--------------------------------- MODULE S7 ---------------------------------
(***************************************************************************)
(* A connection to the S7comm server: protocols/s7comm/s7_server.py,       *)
(* s7.py, cotp.py and tpkt.py.  The first request of a connection is       *)
(* received as long as its header says, the later ones as whatever recv    *)
(* returns: of packets that arrive together only the first is seen.  No    *)
(* length is compared with what was received: a packet that is cut is      *)
(* taken for what it begins as, or is too short to be parsed, and what     *)
(* follows of it is read as the next packet.  Connections share nothing.   *)
(***************************************************************************)
EXTENDS Integers, Sequences, FiniteSets

CONSTANTS Lists,       \* system status lists that clients ask for
          MaxRequests

\* A request: a COTP connection request, a negotiation, a diagnostics request
\* with one or two lists, another S7 job, another TPDU, or no packet at all.
Jobs == [kind : {"diagnostics"}, lists : {<<l>> : l \in Lists} \cup (Lists \X Lists)]
        \cup [kind : {"connect", "negotiate", "read", "tpdu", "junk"}, lists : {<<>>}]

VARIABLES phase,    \* where handle waits for the next request
          inbox,    \* packets that have arrived, a cut one as its head and its rest
          asked, answered,
          proper    \* has the client kept to the protocol so far?

Pieces == [job : Jobs, part : {"whole", "head", "rest"}]

vars == <<phase, inbox, asked, answered, proper>>

Init ==
    /\ phase = "connect" /\ inbox = <<>>
    /\ asked = 0 /\ answered = 0 /\ proper = TRUE

TypeOK ==
    /\ phase \in {"connect", "negotiate", "serve", "closed"}
    /\ inbox \in Seq(Pieces)
    /\ asked \in 0..MaxRequests /\ answered \in Nat
    /\ proper \in BOOLEAN

----------------------------------------------------------------------------
HasMethod(list) == list.id \in {17, 28}

\* The identifications of hardware and of firmware cannot be packed: struct
\* takes 'V3' for no number, and 0 for no text.
Packs(list) == ~(list.id = 17 /\ list.index \in {6, 7})

\* request_diagnostics is about the first list that it has a method for; when
\* there is none, what it returns cannot be assembled.
Meant(lists) ==
    {lists[i] : i \in {k \in DOMAIN lists :
                         HasMethod(lists[k]) /\ \A j \in 1..(k - 1) : ~HasMethod(lists[j])}}

Answers(lists) == \E list \in Meant(lists) : Packs(list)
Raises(lists) == \E list \in Meant(lists) : ~Packs(list)

\* What a client does that waits for each answer and asks in the order connect,
\* negotiate, diagnostics, with a list that there is; TCP leaves it whole.
Proper(job, cut) ==
    /\ ~cut /\ answered = asked
    /\ job.kind = CASE asked = 0 -> "connect"
                    [] asked = 1 -> "negotiate"
                    [] OTHER -> "diagnostics"
    /\ job.kind = "diagnostics" => Meant(job.lists) # {}

Send(job, cut) ==
    /\ phase # "closed" /\ asked < MaxRequests /\ Len(inbox) < 2
    /\ asked' = asked + 1
    /\ inbox' = inbox \o IF cut THEN <<[job |-> job, part |-> "head"], [job |-> job, part |-> "rest"]>>
                         ELSE <<[job |-> job, part |-> "whole"]>>
    /\ proper' = (proper /\ Proper(job, cut))
    /\ UNCHANGED <<phase, answered>>

----------------------------------------------------------------------------
Answer(next) == answered' = answered + 1 /\ phase' = next

Ignore(next) == answered' = answered /\ phase' = next

\* What handle does with a request, in each of its three places.  Ignored in
\* the second, a client is back at the first.
Connect(job) ==
    CASE job.kind = "connect" -> Answer("negotiate")
      [] job.kind = "junk" -> Ignore("closed")
      [] OTHER -> Ignore("connect")

\* Mutant of Negotiate: the loop behind the handshake is left out.
NegotiateOnly(job) ==
    CASE job.kind = "negotiate" -> Answer("connect")
      [] job.kind = "junk" -> Ignore("closed")
      [] OTHER -> Ignore("connect")

Negotiate(job) ==
    CASE job.kind = "negotiate" -> Answer("serve")
      [] job.kind = "junk" -> Ignore("closed")
      [] OTHER -> Ignore("connect")

Diagnose(job) ==
    CASE job.kind = "diagnostics" /\ Answers(job.lists) -> Answer("serve")
      [] job.kind \in {"connect", "tpdu"} -> Ignore("serve")
      [] OTHER -> Ignore("closed")

Handle(job) ==
    \/ phase = "connect" /\ Connect(job)
    \/ phase = "negotiate" /\ Negotiate(job)
    \/ phase = "serve" /\ Diagnose(job)

\* What n pieces are taken for: the packet that they begin with; that or none,
\* when they are only its head; and anything when they begin in the middle of
\* one, whose bytes the client chose.
Taken(n) ==
    LET piece == Head(inbox) IN
    \/ piece.part # "rest" /\ Handle(piece.job)
    \/ piece.part = "head" /\ n = 1 /\ Ignore("closed")
    \/ piece.part = "rest" /\ (Ignore("closed") \/ \E job \in Jobs : Handle(job))

\* recv(4) and recv(length - 4): one packet, or what has arrived of it, since
\* MSG_WAITALL is nothing to gevent's sockets, which never block.
First(n) ==
    /\ phase = "connect" /\ n <= Len(inbox)
    /\ CASE Head(inbox).part = "whole" -> n = 1
         [] Head(inbox).part = "head" -> n <= 2
         [] OTHER -> TRUE
    /\ Taken(n)
    /\ \/ inbox' = SubSeq(inbox, n + 1, Len(inbox))
       \/ /\ Head(inbox).part = "rest"   \* its length may end within a packet
          /\ inbox' = <<[inbox[n] EXCEPT !.part = "rest"]>> \o SubSeq(inbox, n + 1, Len(inbox))
    /\ UNCHANGED <<asked, proper>>

\* recv(1024): n pieces that arrived together, of which the first packet, or
\* what is taken for one, is read.
Later(n) ==
    /\ phase \in {"negotiate", "serve"} /\ n <= Len(inbox)
    /\ inbox' = SubSeq(inbox, n + 1, Len(inbox))
    /\ Taken(n)
    /\ UNCHANGED <<asked, proper>>

\* Every recv has a timeout; a client that hangs up ends them, too.
Leave ==
    /\ phase # "closed" /\ inbox = <<>>
    /\ Ignore("closed")
    /\ UNCHANGED <<inbox, asked, proper>>

Next ==
    \/ \E job \in Jobs, cut \in BOOLEAN : Send(job, cut)
    \/ \E n \in 1..3 : First(n) \/ Later(n)   \* there are no more pieces
    \/ Leave

Spec == Init /\ [][Next]_vars

\* A client that keeps to the protocol gets an answer to every request that
\* is received: its phase and the server's never drift apart.  The one thing
\* it may ask for that raises, and ends the connection, is an identification
\* of the hardware or the firmware (s7_server.py:63-170, s7.py:191-230).
ProperClientIsAnswered ==
    [][proper /\ Len(inbox') < Len(inbox) =>
         IF Raises(Head(inbox).job.lists) THEN answered' = answered /\ phase' = "closed"
         ELSE answered' = answered + 1]_vars
=============================================================================
