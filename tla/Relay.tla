------------------------------- MODULE Relay -------------------------------
(***************************************************************************)
(* What a proxy promises of a connection: what an end receives is part of  *)
(* what the other end has sent, in that order and at most once, a piece at *)
(* a time, and nothing more once the connection is over.  It does not      *)
(* promise all of it: bytes that the peer's buffer has no room for are     *)
(* lost.                                                                   *)
(***************************************************************************)
EXTENDS Integers, Sequences

CONSTANTS Connections, Ends, Bytes

Other(e) == CHOOSE f \in Ends : f # e

VARIABLES sent,     \* what each end of each connection has sent
          passed,   \* how much of it has gone through, or is lost
          received, \* what each end has received
          over      \* connections that relay no more

relayVars == <<sent, passed, received, over>>

Init ==
    /\ sent = [c \in Connections |-> [e \in Ends |-> <<>>]]
    /\ passed = [c \in Connections |-> [e \in Ends |-> 0]]
    /\ received = [c \in Connections |-> [e \in Ends |-> <<>>]]
    /\ over = {}

Send(c, e) ==
    /\ \E b \in Bytes : sent' = [sent EXCEPT ![c][e] = Append(@, b)]
    /\ UNCHANGED <<passed, received, over>>

Pass(c, e) ==
    /\ c \notin over
    /\ \E n \in passed[c][e]..Len(sent[c][e]) : \E m \in passed[c][e]..n :
         /\ passed' = [passed EXCEPT ![c][e] = n]
         /\ received' = [received EXCEPT ![c][Other(e)] =
                           @ \o SubSeq(sent[c][e], passed[c][e] + 1, m)]
    /\ UNCHANGED sent
    /\ over' \in {over, over \cup {c}}

End(c) == over' = over \cup {c} /\ UNCHANGED <<sent, passed, received>>

Next == \E c \in Connections : End(c) \/ \E e \in Ends : Send(c, e) \/ Pass(c, e)

Spec == Init /\ [][Next]_relayVars
=============================================================================
