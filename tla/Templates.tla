----------------------------- MODULE Templates -----------------------------
(***************************************************************************)
(* What bin/conpot starts for its templates, apart from the Kamstrup meter *)
(* and the OPC UA gateway: the servers of "default" and "ipmi", the tank   *)
(* gauge of "guardian_ast", the management port and the usage simulator of *)
(* "kamstrup_382", and a proxy with the decoder of its log.  Each runs in  *)
(* greenlets of its own, and none reads what another keeps.  So it is      *)
(* enough to follow one of them at a time, the one that clients talk to,   *)
(* while the others wait as they were started.                             *)
(***************************************************************************)
EXTENDS Integers, Sequences

CONSTANTS Clients

CONSTANTS Names, Passwords, Users, NoOne, MaxNonces, MaxCommands, \* IPMI
          Lists, MaxJobs,                                         \* S7comm
          Objects, Unknown, Nothing, MaxDatagrams,                \* BACnet
          Oids, Mapped, Known, Thresholds, Numbers, MaxReads, MaxMinutes, \* SNMP
          Blocks, Mode, Units, Addresses, Values, MaxValues, MaxWrites,  \* Modbus
          Nodes, Statuses, Paths, NoNode, GlobalTarpit, MaxPages, \* HTTP
          Tanks, MaxLines,                                        \* Guardian AST
          Requests, Number, MaxRequests,                          \* management
          Reading, Gain, MaxLoads, MaxEnergy,                     \* simulator
          Connections, Bytes, Chunk, HasDecoder, MaxBytes,        \* proxy
          MaxStream, MaxChunk                                     \* decoder

VARIABLES server, \* the one that is followed
          known, current, shake, clientpriv, authdata, privdata,
          channelaccessdata, activeusers, powerstate, nonce, commands, began,
          phase, packets, asked, replied, proper,
          apdu, datagrams, forgot, replies,
          mib, bus, now, minute, table, waiting, reads, admitted, written, answered,
          template, blocks, memory, adus, hungup, slaves, pending, writes, last,
          disabled, job, slept, loaded, page, pages,
          inbox, open, gone, handler, response, product, report, lines,
          config, reboots, manager, held, handled,
          initialized, register, present, simulators, caller, loads,
          sent, received, read, closed, full, relay, todo, inhand,
          parsing, escaped, data, raised, decoded, stream, aligned

ipmi == <<known, current, shake, clientpriv, authdata, privdata, channelaccessdata,
          activeusers, powerstate, nonce, commands, began>>
s7comm == <<phase, packets, asked, replied, proper>>
bacnet == <<apdu, datagrams, forgot, replies>>
snmp == <<mib, bus, now, minute, table, waiting, reads, admitted, written, answered>>
modbus == <<template, blocks, memory, adus, hungup, slaves, pending, writes, last>>
http == <<disabled, job, slept, loaded, page, pages>>
gauge == <<inbox, open, gone, handler, response, product, report, lines>>
management == <<config, reboots, manager, held, handled>>
usage == <<initialized, register, present, simulators, caller, loads>>
proxy == <<sent, received, read, closed, full, relay, todo, inhand>>
decoder == <<parsing, escaped, data, raised, decoded, stream, aligned>>

vars == <<server, ipmi, s7comm, bacnet, snmp, modbus, http,
          gauge, management, usage, proxy, decoder>>

Ipmi == INSTANCE IPMI

S7comm == INSTANCE S7
    WITH inbox <- packets, answered <- replied, MaxRequests <- MaxJobs

Bacnet == INSTANCE BACnet WITH response <- apdu

Snmp == INSTANCE SNMP WITH requests <- reads, Values <- Numbers, MaxRequests <- MaxReads

Coils == INSTANCE Modbus
    WITH inbox <- adus, gone <- hungup, handler <- slaves, requests <- writes,
         Templates <- Blocks, MaxRequests <- MaxWrites

Http == INSTANCE HTTP
    WITH response <- loaded, sent <- page, requests <- pages, MaxRequests <- MaxPages

Gauge == INSTANCE GuardianAST

Management == INSTANCE KamstrupManagement WITH handler <- manager

Usage == INSTANCE UsageSimulator

Relays == INSTANCE Proxy WITH handler <- relay

Decoder == INSTANCE Decoder382 WITH MaxBytes <- MaxStream

\* The bounds of the model.
ASSUME BoundsAssumption ==
    /\ {MaxNonces, MaxJobs, MaxReads, MaxValues, MaxWrites, MaxPages, MaxLines, MaxRequests,
        MaxLoads, MaxStream} \subseteq Nat
    /\ MaxMinutes \in Nat \ {0}

ASSUME IpmiAssumption == Users \in Seq(Ipmi!Accounts)

ASSUME BacnetAssumption ==
    /\ Nothing \notin DOMAIN Objects \cup Bacnet!Responses
    /\ MaxDatagrams \in Nat

\* The objects that the template maps to keys are in the MIB, and no client's
\* address is the key that the table has for all.
ASSUME SnmpAssumption ==
    /\ "overall" \notin Clients
    /\ Mapped \subseteq Snmp!OidNames
    /\ Thresholds \in [Snmp!Commands -> [individual : Nat, overall : Nat]]

\* In a template every block has a databus key of its own.
ASSUME ModbusAssumption ==
    /\ Mode \in {"tcp", "serial"} /\ Addresses \subseteq Nat
    /\ \A whole \in Blocks :
         /\ whole \in Seq(Coils!Entries)
         /\ \A i, j \in DOMAIN whole : whole[i].name = whole[j].name => whole[i] = whole[j]

\* The chunks that the configuration gives a payload are no longer than it.
ASSUME HttpAssumption ==
    \A conf \in {Nodes[n] : n \in DOMAIN Nodes} \cup {Statuses[c] : c \in DOMAIN Statuses} :
      /\ conf.size \in Nat
      /\ conf.widths # <<>> => Http!Upto(conf.widths, Len(conf.widths)) \in 0..conf.size

\* What stands for no node is no request.
ASSUME NoNodeAssumption ==
    NoNode \notin [kind : {"own"}, at : {NoNode}, method : {"TRACE", "OPTIONS"}, mixed : {FALSE}]

\* A request that is handled has words.
ASSUME ManagementAssumption == Requests \subseteq Seq(STRING) \ {<<>>}

\* What the template says of the meter: it does not run backwards.
ASSUME UsageAssumption ==
    /\ Gain \in Nat /\ MaxEnergy \in Nat /\ Reading \in 0..MaxEnergy

\* The proxy receives up to so many bytes at once.
ASSUME ProxyAssumption == Chunk \in Nat \ {0}

----------------------------------------------------------------------------
Servers == {"ipmi", "s7comm", "bacnet", "snmp", "modbus", "http",
            "gauge", "management", "usage", "proxy", "decoder"}

\* A server that is not followed has some configuration.
Init ==
    /\ server \in Servers
    /\ Ipmi!Init /\ S7comm!Init /\ Bacnet!Init /\ Snmp!Init /\ Coils!Init /\ Http!Init
    /\ Gauge!Init /\ Management!Init /\ Usage!Init /\ Relays!Init /\ Decoder!Init
    /\ server # "snmp" => mib = [o \in Snmp!OidNames |-> CHOOSE v \in Numbers : TRUE]
    /\ server # "modbus" => template = CHOOSE b \in Blocks : TRUE
    /\ server # "http" => disabled = {}

\* Clients talk to s: it takes a step, and the others do not.
Only(s) ==
    /\ server = s /\ server' = s
    /\ IF s = "ipmi" THEN TRUE ELSE UNCHANGED ipmi
    /\ IF s = "s7comm" THEN TRUE ELSE UNCHANGED s7comm
    /\ IF s = "bacnet" THEN TRUE ELSE UNCHANGED bacnet
    /\ IF s = "snmp" THEN TRUE ELSE UNCHANGED snmp
    /\ IF s = "modbus" THEN TRUE ELSE UNCHANGED modbus
    /\ IF s = "http" THEN TRUE ELSE UNCHANGED http
    /\ IF s = "gauge" THEN TRUE ELSE UNCHANGED gauge
    /\ IF s = "management" THEN TRUE ELSE UNCHANGED management
    /\ IF s = "usage" THEN TRUE ELSE UNCHANGED usage
    /\ IF s = "proxy" THEN TRUE ELSE UNCHANGED proxy
    /\ IF s = "decoder" THEN TRUE ELSE UNCHANGED decoder

Next ==
    \/ Only("ipmi") /\ Ipmi!Next
    \/ Only("s7comm") /\ S7comm!Next
    \/ Only("bacnet") /\ Bacnet!Next
    \/ Only("snmp") /\ Snmp!Next
    \/ Only("modbus") /\ Coils!Next
    \/ Only("http") /\ Http!Next
    \/ Only("gauge") /\ Gauge!Next
    \/ Only("management") /\ Management!Next
    \/ Only("usage") /\ Usage!Next
    \/ Only("proxy") /\ Relays!Next
    \/ Only("decoder") /\ Decoder!Feed

\* A request of HTTP and a proxied connection have a thread of their own, and
\* a greenlet that can go on does.  None of them is fair where it waits for
\* somebody outside; see the modules of the servers.
Fairness ==
    /\ WF_vars(Only("http") /\ ~Http!Waits /\ Http!Serve)
    /\ WF_vars(Only("usage") /\ Usage!Clear)
    /\ WF_vars(Only("usage") /\ Usage!Load)
    /\ \A s \in 1..MaxLoads :
         WF_vars(Only("usage") /\ s <= Len(simulators) /\ Usage!Greenlet(s))
    /\ \A c \in Connections : WF_vars(Only("proxy") /\ Relays!Handle(c))

Spec == Init /\ [][Next]_vars /\ Fairness

----------------------------------------------------------------------------
TypeOK ==
    /\ server \in Servers
    /\ Ipmi!TypeOK /\ S7comm!TypeOK /\ Bacnet!TypeOK
    /\ Snmp!TypeOK /\ Coils!TypeOK /\ Http!TypeOK
    /\ Gauge!TypeOK /\ Management!TypeOK /\ Usage!TypeOK
    /\ Relays!TypeOK /\ Decoder!TypeOK

(* IPMI: the open session is in the table it will be closed in, and a user has *)
(* one name in all the dictionaries (ipmi_server.py:181-187, 364-392).         *)
TablesAgree == Ipmi!TablesAgree

(* IPMI: a command runs only in a session that has itself begun a handshake,   *)
(* whatever the server keeps of others (fakesession.py:69-148).                *)
CommandsFollowHandshake == Ipmi!CommandsFollowHandshake

(* S7comm: a client that keeps to the protocol is answered every time          *)
(* (s7_server.py:72-174).                                                      *)
ProperClientIsAnswered == S7comm!ProperClientIsAnswered

(* BACnet: a response that was dropped is never sent, and one that was kept    *)
(* from an earlier datagram never answers a client that asks for what exists   *)
(* (bacnet_app.py:116-321).                                                    *)
NoStaleReply == Bacnet!NoStaleReply

(* SNMP: a value that was set is read back, past the two places it is kept in  *)
(* (databus_mediator.py:36-66).                                                *)
SetIsReadBack == Snmp!SetIsReadBack

(* SNMP: no minute sees more requests than the thresholds allow                *)
(* (databus_mediator.py:68-94).                                                *)
EvasionHolds == Snmp!EvasionHolds

(* Modbus: the blocks of a slave never overlap (slave.py:112-127).             *)
BlocksDisjoint == Coils!BlocksDisjoint

(* Modbus: the last write to an address that is in one block only, a broadcast *)
(* or a write of several in a row among them, is there (slave_db.py:52-94).    *)
LastWriteIsThere == Coils!LastWriteIsThere

(* HTTP: the body of a local response is as long as its header says            *)
(* (command_responder.py:473-502).                                             *)
LocalResponsesAreFramed == Http!LocalResponsesAreFramed

(* HTTP: every request is answered, whatever fallbacks and tarpits are         *)
(* configured, unless a remote system or the client keeps the server waiting   *)
(* for ever (command_responder.py:196-324).                                    *)
RequestsAreAnswered == Http!RequestsAreAnswered

(* Guardian AST: no report shows a part of the name that a client gave         *)
(* (guardian_ast_server.py:173-179, 249-282).                                  *)
NamesAreWhole == Gauge!NamesAreWhole

(* Kamstrup management: no configuration that was stored in part is made       *)
(* active (commands.py:375-407, 493-514).                                      *)
HalfStoredIsNotActivated == Management!HalfStoredIsNotActivated

(* Usage simulator: a reset of an initialized databus returns                  *)
(* (usage_simulator.py:51-53, databus.py:182-192).                             *)
ResetReturns == Usage!ResetReturns

(* Usage simulator: only one is at work, however the databus is loaded and     *)
(* reset, and the meter never runs backwards while the databus stays           *)
(* initialized (databus.py:182-192, usage_simulator.py:41-64).                 *)
OneMeter == Usage!OneMeter

(* Proxy: it implements a relay that may lose bytes and does nothing else to   *)
(* them (proxy.py:81-154).                                                     *)
IsRelay == Relays!IsRelay

(* Proxy: one closed socket ends the connection of both, unless the handler    *)
(* waits for ever to send to the other end (proxy.py:82-154).                  *)
CloseEndsBoth == Relays!CloseEndsBoth

(* Decoder: it decodes each frame of a stream once, however the stream is cut  *)
(* (decoder_382.py:73-146).                                                    *)
DecodesEveryFrame == Decoder!DecodesEveryFrame
=============================================================================
