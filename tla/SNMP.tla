-------------------------------- MODULE SNMP --------------------------------
(***************************************************************************)
(* The SNMP server: protocols/snmp/conpot_cmdrsp.py, databus_mediator.py,  *)
(* command_responder.py, snmp_server.py.  An object has a value in the     *)
(* MIB, and one on the databus when the template maps it there.  A read    *)
(* asks the databus, but only for the classes the mediator knows, and      *)
(* falls back to the MIB when what it gets there counts as false (zero).   *)
(* A request may name several objects: all are read or written in the MIB, *)
(* but the databus is asked and told about the first one alone.            *)
(* Requests wait in the tarpit, reads with the value they have read, and   *)
(* are counted per client and minute, not to be used for flooding others.  *)
(***************************************************************************)
EXTENDS Integers, Sequences

CONSTANTS Clients,
          Oids,         \* a sequence of names in the order of the tree
          Mapped,       \* those with a key on the databus
          Known,        \* those of a class get_response knows
          Thresholds,   \* per command: requests per minute, of one and of all; 0 is none
          Values, MaxRequests, MaxMinutes

Commands == {"get", "next", "bulk", "set"}
OidNames == {Oids[i] : i \in DOMAIN Oids}
Unset == -1
Counters == Clients \cup {"overall"}
NoAnswer == <<>>

VARIABLES mib, bus,      \* the values of the objects, and of their keys
          now,           \* the minute on the clock
          minute, table, \* evasion_table: its minute and its counts
          waiting,       \* requests in the tarpit
          requests,      \* how many have arrived
          admitted,      \* those of this minute that went past the evasion, counted
                         \* per command for each client and for all
          written,       \* per object: the last value that was set in both places,
                         \* while nobody else writes
          answered       \* the answer to a read that was sent just now

vars == <<mib, bus, now, minute, table, waiting, requests, admitted, written, answered>>
store == <<mib, bus, written>>
count == <<minute, table, requests, admitted>>

\* What a request sets or an answer says of objects, and what was owed then.
Bindings == UNION {[S -> [value : Values, owed : Values \cup {Unset}]] : S \in SUBSET OidNames}

Request ==
    {w \in [id : 1..MaxRequests, command : {"get", "next", "set"}, first : OidNames,
            asked : SUBSET OidNames, binds : Bindings] :
       w.first \in w.asked /\ (w.command = "set" => DOMAIN w.binds = w.asked)}

TypeOK ==
    /\ mib \in [OidNames -> Values] /\ bus \in [Mapped -> Values]
    /\ now \in 1..MaxMinutes /\ minute \in 0..now
    /\ \A c \in Counters : table[c] \in 0..MaxRequests
    /\ waiting \subseteq Request /\ requests \in 0..MaxRequests
    /\ \A k \in Commands, c \in Counters : admitted[k][c] \in 0..MaxRequests
    /\ \A o \in OidNames : written[o] \in Values \cup {Unset}

\* xml_mib_config registers what the databus holds.
Init ==
    /\ \E initial \in Values :
         mib = [o \in OidNames |-> initial] /\ bus = [o \in Mapped |-> initial]
    /\ now = 1 /\ minute = 0 /\ table = [c \in Counters |-> 0]
    /\ waiting = {} /\ requests = 0
    /\ admitted = [k \in Commands |-> [c \in Counters |-> 0]]
    /\ written = [o \in OidNames |-> Unset]
    /\ answered = NoAnswer

----------------------------------------------------------------------------
(* update_evasion_table and check_evasive.                                 *)

Counted(client) ==
    LET fresh == IF minute = now THEN table ELSE [c \in DOMAIN table |-> 0]
    IN  [fresh EXCEPT ![client] = @ + 1, !["overall"] = @ + 1]

\* Mutant of Exceeds: the request that reaches the threshold is refused the
\* threshold's own count later.
ExceedsLate(n, threshold) == threshold > 0 /\ n > threshold + 1

Exceeds(n, threshold) == threshold > 0 /\ n > threshold

Evasive(command, client) ==
    \/ Exceeds(Counted(client)[client], Thresholds[command].individual)
    \/ Exceeds(Counted(client)["overall"], Thresholds[command].overall)

\* What every request goes through.  Those refused, and all bulk requests,
\* leave their state with the engine: nobody releases it.
Arrive(command, client, enter) ==
    LET refused == Evasive(command, client)
    IN  /\ requests < MaxRequests
        /\ requests' = requests + 1 /\ minute' = now /\ table' = Counted(client)
        /\ admitted' = [k \in Commands |-> [c \in Counters |->
             (IF minute = now THEN admitted[k][c] ELSE 0)
             + IF ~refused /\ k = command /\ c \in {client, "overall"} THEN 1 ELSE 0]]
        /\ waiting' = waiting \cup IF refused THEN {} ELSE enter
        /\ answered' = NoAnswer /\ UNCHANGED <<store, now>>

----------------------------------------------------------------------------
\* The state the engine keeps of a request.
FreeId == CHOOSE i \in 1..MaxRequests : \A w \in waiting : w.id # i

\* The databus is asked for the object; it has something else than zero.
Shown == Mapped \cap Known
OnBus(oid) == oid \in Shown /\ bus[oid] # 0

Bind(oid, value) == [value |-> value, owed |-> written[oid]]

\* readVars and get_response: what the databus has of the first object takes
\* the place of the whole answer, the other objects left out.
Response(first, asked) ==
    IF OnBus(first) THEN [oid \in {first} |-> Bind(oid, bus[oid])]
    ELSE [oid \in asked |-> Bind(oid, mib[oid])]

Read(command, first, asked) ==
    [id |-> FreeId, command |-> command, first |-> first, asked |-> asked,
     binds |-> Response(first, asked)]

Get(client) ==
    \E asked \in SUBSET OidNames : \E first \in asked :
      Arrive("get", client, {Read("get", first, asked)})

\* The objects after the ones asked for.
GetNext(client) ==
    \E asked \in SUBSET {Oids[i] : i \in DOMAIN Oids \ {1}} : \E first \in asked :
      Arrive("next", client, {Read("next", first, asked)})

Bulk(client) == Arrive("bulk", client, {})

Set(client) ==
    \E asked \in SUBSET OidNames : \E first \in asked, values \in [asked -> Values] :
      Arrive("set", client,
             {[id |-> FreeId, command |-> "set", first |-> first, asked |-> asked,
               binds |-> [oid \in asked |-> [value |-> values[oid], owed |-> Unset]]]})

\* A read leaves the tarpit with the values it went in with.
SendRsp(w) ==
    /\ w.command \in {"get", "next"}
    /\ waiting' = waiting \ {w}
    /\ answered' = w.binds
    /\ UNCHANGED <<store, count, now>>

\* An answer to GetNext with a value the version of the client cannot carry:
\* the object after that one is read instead, and the answer goes into the
\* tarpit in its turn.
SkipNext(w) ==
    /\ w.command = "next"
    /\ \E i \in DOMAIN Oids \ {1} :
         LET old == Oids[i - 1]
             first == IF w.first = old THEN Oids[i] ELSE w.first
             asked == (w.asked \ {old}) \cup {Oids[i]}
         IN  /\ old \in DOMAIN w.binds
             /\ waiting' = (waiting \ {w})
                  \cup {[w EXCEPT !.first = first, !.asked = asked,
                                  !.binds = Response(first, asked)]}
    /\ answered' = NoAnswer /\ UNCHANGED <<store, count, now>>

\* Mutant of Write: the MIB keeps its values, the databus has the new one.
WriteToBus(w) ==
    /\ w.command = "set"
    /\ waiting' = waiting \ {w}
    /\ mib' = [oid \in OidNames |->
                 IF oid \in w.asked \ Mapped THEN w.binds[oid].value ELSE mib[oid]]
    /\ bus' = [oid \in Mapped |-> IF oid = w.first THEN w.binds[oid].value ELSE bus[oid]]
    /\ written' = [oid \in OidNames |->
                     IF oid \notin w.asked THEN written[oid]
                     ELSE IF oid \in Shown \ {w.first} THEN Unset ELSE w.binds[oid].value]
    /\ answered' = NoAnswer /\ UNCHANGED <<count, now>>

\* A write takes place when it has left the tarpit: of all its objects in the
\* MIB, which is answered, and then of the first one on the databus; without a
\* key there the handler raises, and nobody notices.
Write(w) ==
    /\ w.command = "set"
    /\ waiting' = waiting \ {w}
    /\ mib' = [oid \in OidNames |-> IF oid \in w.asked THEN w.binds[oid].value ELSE mib[oid]]
    /\ bus' = [oid \in Mapped |-> IF oid = w.first THEN w.binds[oid].value ELSE bus[oid]]
    /\ written' = [oid \in OidNames |->
                     IF oid \notin w.asked THEN written[oid]
                     ELSE IF oid \in Shown \ {w.first} THEN Unset ELSE w.binds[oid].value]
    /\ answered' = NoAnswer /\ UNCHANGED <<count, now>>

\* Another part of the program writes to the databus.
BusWrite(oid) ==
    /\ \E v \in Values : bus[oid] # v /\ bus' = [bus EXCEPT ![oid] = v]
    /\ written' = [written EXCEPT ![oid] = Unset]
    /\ answered' = NoAnswer /\ UNCHANGED <<mib, count, now, waiting>>

Minute ==
    /\ now < MaxMinutes /\ now' = now + 1
    /\ answered' = NoAnswer /\ UNCHANGED <<store, count, waiting>>

Next ==
    \/ \E c \in Clients : Get(c) \/ GetNext(c) \/ Bulk(c) \/ Set(c)
    \/ \E w \in waiting : SendRsp(w) \/ SkipNext(w) \/ Write(w)
    \/ \E oid \in Mapped : BusWrite(oid)
    \/ Minute

Spec == Init /\ [][Next]_vars

----------------------------------------------------------------------------
\* What a client has set is what is read, as long as no other part of the
\* program writes the key: the two values of an object and the fallback from
\* one to the other do not show.  This is not so of an object that the databus
\* is asked for and that was set behind another one in the same request: the
\* databus is not told, and may go on to answer with the value it had
\* (conpot_cmdrsp.py:112-122, 281-293, databus_mediator.py:36-66).
SetIsReadBack ==
    \A oid \in DOMAIN answered :
      answered[oid].owed # Unset => answered[oid].value = answered[oid].owed

\* In a minute, no more reads get past the evasion than one client may have,
\* and than all may have (databus_mediator.py:68-94): clients and commands
\* share one count, which the first request of a minute starts anew.
EvasionHolds ==
    \A command \in Commands :
      LET most == Thresholds[command]
      IN  /\ most.overall > 0 => admitted[command]["overall"] <= most.overall
          /\ most.individual > 0 =>
               \A c \in Clients : admitted[command][c] <= most.individual
=============================================================================
