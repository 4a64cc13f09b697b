------------------------------- MODULE Proxy -------------------------------
(***************************************************************************)
(* The TCP proxy: emulators/proxy.py.  A connection has a socket to the    *)
(* client and one to the proxied service.  A pass of the loop selects the  *)
(* sockets that can be read, and handles them one after the other: it      *)
(* receives a chunk, has it decoded, and sends it on.  A send waits, for   *)
(* as long as it takes, until the peer has room for something; if that is  *)
(* only part of the chunk, the rest is lost.  A decoder that raises ends   *)
(* the greenlet, and leaves both sockets open.                             *)
(***************************************************************************)
EXTENDS Integers, Sequences, FiniteSetsExt

CONSTANTS Connections, Bytes,
          Chunk,        \* how much is received at once
          HasDecoder,
          MaxBytes      \* sent in all

Ends == {"client", "service"}
Peer(e) == IF e = "client" THEN "service" ELSE "client"

VARIABLES sent, received, \* what each end has sent and received
          read,           \* how much of what it sent has been dealt with
          closed,         \* has it closed its socket?
          full,           \* is there no room for what is sent to it?
          handler,        \* "start", "select", "sending", "ended", "refused"
                          \* or "died"
          todo,           \* sockets of this pass of the loop still to handle
          inhand          \* how many bytes of the first one are in hand

vars == <<sent, received, read, closed, full, handler, todo, inhand>>

Init ==
    /\ sent = [c \in Connections |-> [e \in Ends |-> <<>>]]
    /\ received = [c \in Connections |-> [e \in Ends |-> <<>>]]
    /\ read = [c \in Connections |-> [e \in Ends |-> 0]]
    /\ closed = [c \in Connections |-> [e \in Ends |-> FALSE]]
    /\ full = [c \in Connections |-> [e \in Ends |-> FALSE]]
    /\ handler = [c \in Connections |-> "start"]
    /\ todo = [c \in Connections |-> <<>>]
    /\ inhand = [c \in Connections |-> 0]

TypeOK ==
    \A c \in Connections :
      /\ handler[c] \in {"start", "select", "sending", "ended", "refused", "died"}
      /\ todo[c] \in Seq(Ends) /\ (todo[c] # <<>> => handler[c] \in {"select", "sending"})
      /\ inhand[c] \in 0..Chunk /\ (inhand[c] > 0 <=> handler[c] = "sending")
      /\ \A e \in Ends : /\ sent[c][e] \in Seq(Bytes) /\ received[c][e] \in Seq(Bytes)
                         /\ read[c][e] \in 0..Len(sent[c][e])
                         /\ closed[c][e] \in BOOLEAN /\ full[c][e] \in BOOLEAN

----------------------------------------------------------------------------
Unread(c, e) == Len(sent[c][e]) - read[c][e]
Readable(c, e) == Unread(c, e) > 0 \/ closed[c][e]

\* What select reports of a socket.
Polled(c, e) == IF Readable(c, e) THEN <<e>> ELSE <<>>

\* The connection to the service is made, or is refused: then both sockets
\* are closed, but the session of the client is not told.
Connect(c) ==
    /\ handler[c] = "start"
    /\ \E to \in {"select", "refused"} : handler' = [handler EXCEPT ![c] = to]
    /\ UNCHANGED <<sent, received, read, closed, full, todo, inhand>>

\* select, the socket of the service first.
Select(c) ==
    /\ handler[c] = "select" /\ todo[c] = <<>>
    /\ \E e \in Ends : Readable(c, e)
    /\ todo' = [todo EXCEPT ![c] = Polled(c, "service") \o Polled(c, "client")]
    /\ UNCHANGED <<sent, received, read, closed, full, handler, inhand>>

\* Mutant of Over: the loop goes on when a socket has been closed.
OverNever(c) ==
    /\ handler' = [handler EXCEPT ![c] = "select"]
    /\ todo' = [todo EXCEPT ![c] = Tail(@)]

\* The loop ends: both sockets are closed, and so is the session.
Over(c) ==
    /\ handler' = [handler EXCEPT ![c] = "ended"]
    /\ todo' = [todo EXCEPT ![c] = <<>>]

\* recv returned nothing, or failed.
CloseBoth(c) ==
    /\ handler[c] = "select" /\ todo[c] # <<>> /\ Unread(c, Head(todo[c])) = 0
    /\ Over(c)
    /\ UNCHANGED <<sent, received, read, closed, full, inhand>>

\* handle_in_data and handle_out_data: a chunk is received, and decoded.  The
\* decoder may raise.
Receive(c) ==
    /\ handler[c] = "select" /\ todo[c] # <<>> /\ Unread(c, Head(todo[c])) > 0
    /\ LET unread == Unread(c, Head(todo[c]))
           n == IF unread < Chunk THEN unread ELSE Chunk
       IN  \/ /\ HasDecoder
              /\ handler' = [handler EXCEPT ![c] = "died"]
              /\ todo' = [todo EXCEPT ![c] = <<>>]
              /\ UNCHANGED inhand
           \/ /\ handler' = [handler EXCEPT ![c] = "sending"]
              /\ inhand' = [inhand EXCEPT ![c] = n]
              /\ UNCHANGED todo
    /\ UNCHANGED <<sent, received, read, closed, full>>

\* The chunk in hand is done with, whatever became of it.
InHand(c, e) == SubSeq(sent[c][e], read[c][e] + 1, read[c][e] + inhand[c])
Done(c, e) ==
    /\ read' = [read EXCEPT ![c][e] = @ + inhand[c]]
    /\ inhand' = [inhand EXCEPT ![c] = 0]

\* Mutant of Forwarded: what the peer has no room for is sent from the start.
ForwardedAgain(c, e, m) ==
    received' = [received EXCEPT ![c][Peer(e)] = @ \o SubSeq(InHand(c, e), 1, m) \o InHand(c, e)]

\* send: as much of the chunk as the peer has room for.
Forwarded(c, e, m) ==
    received' = [received EXCEPT ![c][Peer(e)] = @ \o SubSeq(InHand(c, e), 1, m)]

\* send returns.  It waits while there is no room, and may leave none.
SendOn(c) ==
    /\ handler[c] = "sending"
    /\ LET e == Head(todo[c]) IN
       /\ ~full[c][Peer(e)]
       /\ \E m \in 1..inhand[c] : Forwarded(c, e, m)
       /\ \E f \in BOOLEAN : full' = [full EXCEPT ![c][Peer(e)] = f]
       /\ Done(c, e)
    /\ handler' = [handler EXCEPT ![c] = "select"]
    /\ todo' = [todo EXCEPT ![c] = Tail(@)]
    /\ UNCHANGED <<sent, closed>>

\* send raises, which it may once the peer has closed its socket.
SendFails(c) ==
    /\ handler[c] = "sending"
    /\ LET e == Head(todo[c]) IN closed[c][Peer(e)] /\ Done(c, e)
    /\ Over(c)
    /\ UNCHANGED <<sent, received, closed, full>>

Handle(c) == Connect(c) \/ Select(c) \/ CloseBoth(c) \/ Receive(c) \/ SendOn(c) \/ SendFails(c)

----------------------------------------------------------------------------
\* The ends of a connection send, take what was sent to them, and close; the
\* service once it is connected.
Running(c) == handler[c] \in {"select", "sending"}
Open(c, e) == ~closed[c][e] /\ (Running(c) \/ (e = "client" /\ handler[c] = "start"))

SentInAll ==
    MapThenSumSet(LAMBDA c : Len(sent[c]["client"]) + Len(sent[c]["service"]), Connections)

Send(c, e) ==
    /\ Open(c, e) /\ SentInAll < MaxBytes
    /\ \E b \in Bytes : sent' = [sent EXCEPT ![c][e] = Append(@, b)]
    /\ UNCHANGED <<received, read, closed, full, handler, todo, inhand>>

Take(c, e) ==
    /\ Open(c, e) /\ full[c][e]
    /\ full' = [full EXCEPT ![c][e] = FALSE]
    /\ UNCHANGED <<sent, received, read, closed, handler, todo, inhand>>

Close(c, e) ==
    /\ Open(c, e) /\ closed' = [closed EXCEPT ![c][e] = TRUE]
    /\ UNCHANGED <<sent, received, read, full, handler, todo, inhand>>

Next == \E c \in Connections : Handle(c) \/ \E e \in Ends : Send(c, e) \/ Take(c, e) \/ Close(c, e)

Fairness == \A c \in Connections : WF_vars(Handle(c))

Spec == Init /\ [][Next]_vars

FairSpec == Spec /\ Fairness

----------------------------------------------------------------------------
\* The proxy is a relay (proxy.py:81-154): it may lose bytes, where a send is
\* partial, but never repeats, reorders or invents any.
Abstract == INSTANCE Relay WITH
    passed <- read,
    over <- {c \in Connections : handler[c] \in {"ended", "refused", "died"}}

IsRelay == Abstract!Spec

\* The handler waits to send to an end that takes nothing.
Stalled(c) ==
    /\ handler[c] = "sending"
    /\ LET to == Peer(Head(todo[c])) IN full[c][to] /\ ~closed[c][to]

\* Once an end has closed its socket, the connection is over for both, and no
\* socket is polled for ever: unless the other end takes nothing for ever, for
\* then the handler never comes to read what has been closed
\* (proxy.py:82-112, 133-154).
CloseEndsBoth ==
    \A c \in Connections :
      []<>~Stalled(c) =>
        ((\E e \in Ends : closed[c][e]) ~> handler[c] \in {"ended", "refused", "died"})
=============================================================================
