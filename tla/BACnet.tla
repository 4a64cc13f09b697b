------------------------------- MODULE BACnet -------------------------------
(***************************************************************************)
(* The BACnet server: protocols/bacnet/bacnet_app.py, bacnet_server.py.    *)
(* A datagram is handled in one go: indication decodes it and lets the     *)
(* service it asks for build a response, and handle then sends whatever    *)
(* response the application holds.  The application is one for all clients *)
(* and keeps its response from one datagram to the next, so a service that *)
(* builds none, without dropping the old one, sends the old one.           *)
(***************************************************************************)
EXTENDS Integers, FiniteSets

CONSTANTS Clients,
          Objects,      \* object -> property -> "plain" or "odd": a value
                        \* that is no Python literal
          Unknown,      \* an object nobody has
          Nothing,      \* no object, or no response
          MaxDatagrams

\* A datagram: a service that is asked for and the object it is about.
\* "other" is a service of the standard the application has no method for,
\* "service" an unconfirmed one the standard does not list, "ack" a PDU that
\* is no request; the "cut" ones cannot be decoded, the "odd" ones name no
\* service at all, are a readProperty without its fields, or a whoHas that
\* names its object.  A whoIs or a whoHas may bring a range of instances, and
\* an inverted one has the server's instance between its high and low ends.
Asked == [service : {"iAm", "other", "service", "ack",
                     "cut confirmed", "cut unconfirmed", "odd", "garbled"},
          object : {Nothing}, property : {Nothing}, inverted : {FALSE}]
         \cup [service : {"whoIs"}, object : {Nothing}, property : {Nothing},
               inverted : BOOLEAN]
         \cup [service : {"whoHas"}, object : DOMAIN Objects \cup {Unknown},
               property : {Nothing}, inverted : BOOLEAN]
         \cup [service : {"readProperty"}, object : DOMAIN Objects \cup {Unknown},
               property : {"value", "none"}, inverted : {FALSE}]

VARIABLES response,  \* _response: which datagram it was built for, and what
          datagrams, \* how many have been handled
          forgot,    \* the last one that should have cleared the response
          replies    \* what was sent: for which datagram, with which response

vars == <<response, datagrams, forgot, replies>>

\* part: a ReadPropertyACK without its value, which cannot be encoded.
Responses == [for : 1..MaxDatagrams, kind : {"IAm", "IHave", "Ack", "Error", "part"},
              object : DOMAIN Objects \cup {Nothing}, client : Clients]

TypeOK ==
    /\ response \in Responses \cup {Nothing}
    /\ datagrams \in 0..MaxDatagrams /\ forgot \in 0..datagrams
    /\ \A r \in replies :
         /\ r.to \in Clients /\ r.at \in 1..datagrams /\ r.asked \in Asked
         /\ r.response \in Responses /\ r.forgot \in 0..datagrams

Init == response = Nothing /\ datagrams = 0 /\ forgot = 0 /\ replies = {}

----------------------------------------------------------------------------
Found(asked) == asked.object \in DOMAIN Objects
HasProperty(asked) == Found(asked) /\ asked.property \in DOMAIN Objects[asked.object]
Odd(asked) == HasProperty(asked) /\ Objects[asked.object][asked.property] = "odd"

\* Mutant of Kind: readProperty is silent about a property it does not find.
KindSilent(asked) ==
    CASE asked.inverted -> "none"
      [] asked.service = "whoIs" -> "IAm"
      [] asked.service = "whoHas" /\ Found(asked) -> "IHave"
      [] asked.service = "readProperty" /\ Odd(asked) -> "part"
      [] asked.service = "readProperty" /\ HasProperty(asked) -> "Ack"
      [] asked.service = "service" -> "Error"
      [] OTHER -> "none"

\* The response a datagram makes a service build.  The test for a range that
\* leaves the server out, low > id > high, finds only the inverted ones: a
\* server out of a proper range answers all the same.
Kind(asked) ==
    CASE asked.inverted -> "none"
      [] asked.service = "whoIs" -> "IAm"
      [] asked.service = "whoHas" /\ Found(asked) -> "IHave"
      [] asked.service = "readProperty" /\ Odd(asked) -> "part"
      [] asked.service = "readProperty" /\ HasProperty(asked) -> "Ack"
      [] asked.service = "readProperty" /\ Found(asked) -> "Error"
      [] asked.service = "service" -> "Error"
      [] OTHER -> "none"

\* Datagrams that make the application drop the response it holds.
Drops(asked) == asked.service \in {"iAm", "other", "ack", "cut unconfirmed"}

\* Handling that ends with an exception, which leaves no reply: a service of
\* no known number, a packet that is no APDU, a property that is no literal.
Raises(asked) == asked.service \in {"odd", "garbled"} \/ Odd(asked)

\* Datagrams that are no confirmed request and build nothing.
Clears(asked) == asked.service \in {"iAm", "other", "ack", "cut unconfirmed"}

\* indication: what the application holds when it returns.
Indication(asked, n, client) ==
    IF Drops(asked) THEN Nothing
    ELSE IF Kind(asked) = "none" THEN response
         ELSE [for |-> n, kind |-> Kind(asked), object |-> asked.object, client |-> client]

\* response(): nothing to send, or a response that can be encoded.
Sendable(r) == r # Nothing /\ r.kind # "part"

Handle(client) ==
    \E asked \in Asked :
      LET n == datagrams + 1
          held == Indication(asked, n, client)
          last == IF Clears(asked) THEN n ELSE forgot
      IN  /\ n <= MaxDatagrams
          /\ datagrams' = n /\ response' = held /\ forgot' = last
          /\ replies' = IF ~Raises(asked) /\ (IF held = Nothing THEN FALSE ELSE Sendable(held))
                        THEN replies \cup {[to |-> client, at |-> n, asked |-> asked,
                                            response |-> held, forgot |-> last]}
                        ELSE replies

Next == \E client \in Clients : Handle(client)

Spec == Init /\ [][Next]_vars

----------------------------------------------------------------------------
\* What the application was told to forget is never sent: between the
\* datagram a reply was built for and the one it is sent for, none dropped
\* the response (bacnet_app.py:246-321).
DroppedIsNotSent == \A r \in replies : r.forgot < r.response.for

\* A reply that was built for an earlier datagram, perhaps of another client,
\* goes only to a client that asked for an object nobody has, gave an inverted
\* range, or whose confirmed request could not be decoded: one that asked for
\* something that exists gets the answer about it (bacnet_app.py:128-220).
Answerable(asked) == ~asked.inverted /\ (Found(asked) \/ asked.service = "whoIs")
FoundIsAnswered ==
    \A r \in replies : r.response.for # r.at => ~Answerable(r.asked)

\* What the application keeps from one datagram to the next reaches nobody who
\* should not have it (bacnet_app.py:128-321).
NoStaleReply == DroppedIsNotSent /\ FoundIsAnswered
=============================================================================
