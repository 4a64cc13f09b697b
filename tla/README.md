# A formal model of conpot

Conpot is an ICS honeypot: protocol servers (OPC UA, Modbus, S7comm, Kamstrup,
SNMP, IPMI, BACnet, HTTP, Guardian AST) in front of emulators of a plant, all of
them gevent greenlets of one Python 2 process that share a key/value store, the
databus, and a session manager that feeds a log worker. This directory holds
TLA+ modules of the parts that carry the program's own logic, TLC
configurations that check them on small instances, and proofs of nearly all of
their safety properties for every instance.

Greenlets are cooperative. A greenlet gives up control only where it waits: on
a socket, a lock, an event, a queue or a sleep. Every action of the models is
therefore what one greenlet does between two such places, with every call it
makes. What happens between two waits of one greenlet while others run is where
the interesting behaviour lies, and it is what the models enumerate.

## 1. The system

| Component | State it keeps | Operations | Talks to | What is hard | What makes it correct |
|---|---|---|---|---|---|
| **Databus** `core/databus.py` | `_data`, `_future`, `_observer_map`, `initialized` | `set_value` (index, forced, delay, sync), `get_value`, `observe_value`, `initialize`, `reset`, `notify_observers` | everybody; observers are callbacks of servers and emulators | a notification is a greenlet of its own, may sleep, and reads the value when it calls; callbacks block and raise | no observer misses the last value; reads do not go backwards; a synchronous caller's observers have seen its value |
| **Sessions** `core/session_manager.py`, `core/attack_session.py` | the list of sessions, the log queue; events per session keyed by elapsed milliseconds | `get_session`, `add_event`, `set_ended`, `purge_sessions` | every protocol server; the log worker | several events in a millisecond; sessions that expire while a connection holds them; a purge replaces the queue | the dump has every event, in order; one listed session per client |
| **Log worker** `core/loggers/log_worker.py` | `enabled`, the event in hand | `start`, `stop`, `_process_sessions` | the queue, the loggers | the list is shortened while it is iterated; whole-second arithmetic; the timeout's type; loggers that raise | each event logged once and in order; idle sessions expire, active ones do not |
| **DCT** `emulators/dct/dct.py` | socket, `connected`, `closed`, state, route, a lock | `connect`, `start` (polling), `stop`, `go`, `pause`, `execute_msg`, `get_rgv_state` | a vehicle over TCP; the databus | one connection for a poller and callers; `connect` outside the lock; `recv` without framing; reconnects | an order follows its reset; how far answers lag behind is bounded from below; broken connections are replaced; calls return |
| **MMaster** `emulators/mmaster/mmaster.py` | masters, lock, closed flag | `start` (polling), `write_coils`, `write_registers`, `read_coils`, `read_registers`, conditions | Modbus devices; the databus | polls and writes race through the databus; failed exchanges | the device's own changes are not written back; copies converge |
| **OPC UA server** `protocols/opcua/opcua_server.py` | nodes, a subscription to its own nodes | `parse`, `data_change`, observers of `r` keys, methods and events of the template | the databus | the server hears its own changes | as for MMaster |
| **Kamstrup meter server** `protocols/kamstrup/meter_protocol` | a parser per connection, `server_active` | `handle`, `reboot`, `set_reboot_done`; `add_byte`, `get_request`, `valid_crc`; `respond` | the databus (`reboot_signal`, registers) | byte streams cut anywhere; parser state that outlives a call; reboots that overlap connections | a request is handled as sent, once and at once; only a reboot hangs up |
| **Kamstrup management server** `protocols/kamstrup/management_protocol` | configuration in the databus | its commands (`!RR`, `!SA`, `!SC` and others) | the databus, the meter server | commands of several clients on shared keys; a parameter that does not parse raises in the middle of a command; restarts | what was stored in part is not made active |
| **Kamstrup usage simulator** `protocols/kamstrup/usage_simulator.py` | counters, `stopped` | `initialize`, `usage_counter`, `stop` | the databus | `stop` waits for a counter that waits for the databus | a reset returns; one simulator is at work; the meter never runs backwards |
| **Kamstrup 382 decoder** `meter_protocol/decoder_382.py` | a frame under way, an escape | `decode_in`, `decode_out` | the proxy | state kept from chunk to chunk; exceptions | every frame is decoded once, wherever the stream is cut |
| **Modbus server** `protocols/modbus` | slaves and their blocks | `add_block`, `handle`, dispatch by mode and unit, reads and writes | the databus | framing with `recv(1)`; overlapping blocks; broadcasts; writes of several addresses; lists changed in place past the observers | blocks do not overlap; an address has what was last written to it |
| **S7comm server** `protocols/s7comm` | phase of a connection | COTP connect, S7 setup, requests for system status lists | databus values | order of phases; packets cut or joined by TCP; lists that cannot be packed | a client that keeps to the protocol is answered, unless it asks for what cannot be packed |
| **IPMI server** `protocols/ipmi` | session table, `self.session`, handshake values, users | open request, RAKP, commands, close | a fake BMC | one `self.session` and one set of handshake values serve all clients | a command runs only in a session that began a handshake; the open session is in the table; users' dictionaries agree |
| **BACnet server** `protocols/bacnet` | device objects, `_response` | `indication`, `response`, who-is, who-has, read-property | databus values | the response of one datagram kept for the next; services that build none | a dropped response is not sent; who asks for what exists gets it |
| **SNMP server** `protocols/snmp` | MIB tree, evasion table | get, getnext, getbulk, set, tarpit | the databus | counts per minute; sleeping responders; a value in the MIB and on the databus; several objects in a request | a value that was set is read back; limits hold |
| **HTTP server** `protocols/http` | configuration | all methods, aliases, triggers, fallbacks, tarpit, chunked bodies | databus values in templates; remote systems | fallbacks that fail themselves; remote systems that stay silent; widths of chunks against sizes that vary | every request is answered once nothing outside holds it; bodies are as long as announced |
| **Proxy** `emulators/proxy.py`, ASCII decoder | two sockets per connection | forward both ways, close | a remote host, a decoder, sessions | half-closed pairs, partial sends, sends that wait, decoders that raise | bytes are relayed in order, at most once; both ends close |
| **Guardian AST** `protocols/guardian_ast` | names of tanks per connection | reports, set commands | databus | commands in pieces, executed early; a loop that does not see the peer close | no report shows a name that TCP cut |
| MMIS and AGV `emulators/mmis/mmis.py` | - | `start` returns at once (`mmis.py:133`) | - | none: it never runs | - |
| Loggers | connections to brokers and databases | `log`, reconnect | external services | bounded retries | an event is sent or reported lost |
| Start-up `bin/conpot` | greenlets, privileges | parse options, spawn servers, drop privileges | all | an exception anywhere ends the program | servers start before privileges are dropped |
| Weld robot, Fanuc | - | disabled in `bin/conpot`, stand-alone scripts | - | - | - |
| Utilities | - | MAC address, external address, uptime | external programs | - | - |

How they interact: a protocol server takes a session for its client and adds
events; it reads the databus to answer and stores what clients write.
`set_value` spawns a greenlet that calls the observers of the key. Emulators
observe the keys of what clients write (prefix `w`), pass it to devices, poll
the devices and store what they answer under the same point with the prefix
`r`, which the OPC UA server observes. The log worker drains the queue of the
session manager and drops sessions that have timed out. An exception that
leaves any linked greenlet ends the program (`bin/conpot:88-90`).

## 2. Modules

| Module | Code | Role |
|---|---|---|
| `Databus` | `core/databus.py` | the store, its observers and notifications |
| `Sessions` | `core/session_manager.py`, `core/attack_session.py`, `core/loggers/log_worker.py` | three components that share sessions and queues |
| `DCT` | `emulators/dct/dct.py` | the vehicle's emulator and, external, the vehicle |
| `Gateway` | `protocols/opcua/opcua_server.py`, `emulators/mmaster/mmaster.py`, `core/databus.py` | one point from the OPC UA client to the Modbus device: a composition of three components |
| `KamstrupMeter` | `protocols/kamstrup/meter_protocol/*`, the restart of `management_protocol/commands.py` | server, parser and reboot |
| `IPMI` | `protocols/ipmi/*` | sessions, handshake, commands |
| `S7` | `protocols/s7comm/*` | one connection |
| `BACnet` | `protocols/bacnet/*` | datagrams and the kept response |
| `SNMP` | `protocols/snmp/*` | requests, evasion, values in two places |
| `Modbus` | `protocols/modbus/*` | blocks, connections, dispatch |
| `HTTP` | `protocols/http/command_responder.py` | one connection |
| `GuardianAST` | `protocols/guardian_ast/*` | connections and their names of tanks |
| `KamstrupManagement` | `kamstrup/management_protocol/*` | commands on the configuration |
| `UsageSimulator` | `kamstrup/usage_simulator.py`, `initialize` and `reset` of `core/databus.py` | the simulator's greenlets under a databus that is reset: a composition of two components |
| `Proxy`, `Relay` | `emulators/proxy.py` | a proxied connection, and the abstract relay it implements |
| `Decoder382` | `meter_protocol/decoder_382.py` | one direction of a stream |
| `Templates` | `bin/conpot` | the eleven modules above as instances, side by side |
| `MCDatabus`, `MCSessions`, `MCDCT`, `MCGateway`, `MCKamstrupMeter`, `MCTemplates` | - | values of the constants for TLC |
| `DatabusProofs`, `SessionsProofs`, `DCTProofs`, `GatewayProofs`, `KamstrupMeterProofs`, `IPMIProofs`, `ProxyProofs`, `TemplatesProofs` | - | theorems |

Definitions whose comment begins with "Mutant of" are faulty versions of the
definition that follows them. No specification uses them. Each shows that a
property notices a plausible mistake: with the definition replaced, TLC finds
the property violated. `PROJECT.json` pairs them.

### Databus

A key is a prefix (`w`, `r` or none) and a point: `get_real_key` strips the
prefix for `_data`, while observers are kept under the full key. `data`,
`future`, `observers` and `initialized` are the fields of the class. A member
of `tasks` is a call of `notify_observers` that has not returned: spawned,
asleep for its delay, or inside one of the callbacks. A call with `sync` has no
greenlet of its own and starts inside the first callback.

* `SetValue` and `SetElem` are `set_value` without and with an index. A list is
  copied, stored and notified as a whole.
* `Begin`, `Wake`, `CallbackReturns`, `CallbackRaises` are the pieces of
  `notify_observers` between two waits. `Wake` stores the value in `_future`
  again, whatever was stored meanwhile, which the model does too.
* `Observe`, `Reset`, `Initialize` are the methods of these names. `initialize`
  is one step because nobody observes while it loads the template.

History, used by properties only: each stored value carries the number of the
call that stored it, its key and whether it was delayed (`by`, `via`, `late`);
`seen` is what each observer read last; `aborted` are the observers whose call
was cut off by an exception. `_data` entries that are functions, and the
optional writing to InfluxDB, are left out.

### Sessions

`sessions` are all sessions ever made, `listed` is the manager's list, `held`
those some handler has in a variable. `queues` has one queue per purge, the
last being the manager's and the first the worker's. `Sweep` is the `for` loop of
`_process_sessions` with the removal inside it: the element behind a removed
one is passed over. `Swept[i]` is what its first `i` passes have kept and ended. Timestamps are milliseconds and `Secs` is the truncation of
`mktime`. What a logger does with an event is either success or an exception.

### DCT

Two variables stand for the socket: `sock` is what the program knows of it and
`link` what TCP knows. `toDevice` are the requests that the vehicle has not answered,
`fromDevice` the bytes that have arrived and have not been received. `pc` says
where each greenlet waits: for the lock, in `recv` after the status request,
the reset or the order, in `connect` or in a sleep.

The vehicle is external: it answers in order, a status with 13 bytes and a
write with 6, as `tests/helpers/dct_server.py` does. TCP may cut what it sends
anywhere: `Recv(n, k)` is a `recv(n)` that returns `k` bytes, of a reply whose
first part had one of the sizes `Parts` when it was called, at most `MaxCuts`
times; no `recv` of the code is repeated for the bytes that are missing, so the
next one begins with them. A byte is represented by
the state `unpack_state` would make of it in the fifth place, so that misaligned
reads are visible; a status of other than 13 bytes changes nothing (`Unpacked`).
`Begin` covers `go` and `pause`; `execute_msg` is
`StatusRead`, `ResetRead` and `OrderRead`. Load, site and error flags guard
nothing and are left out.

`self.sock` is the new socket before `connect` returns. `sock = "made"`
(`Establish`) is the instant in which TCP has made the connection and `connect`
has not been woken: a caller may send on it while `connected` is still false.
The event loop wakes `connect` before anybody who has begun to wait later, so
that caller's `recv` comes after `connect`'s status request; a connection that
is lost in this instant is taken to be lost right behind it.

Consequences of the code that the model has and that no property states:
a reply that is cut, and every order, leaves the stream out of step with the
13 bytes of a status, and nothing realigns it before the next connection;
`recv` has no timeout, so a vehicle that is silent on an open connection blocks
the poller and all callers; after `stop` in the pause before a reconnect the
poller connects once more before it ends; `go` returns `True` when any six
bytes come back; `pause` is bound to nothing in the program but is a method of
the class and is modelled.

### Gateway

The point has three copies: `node`, `bus` and `coil`. `changes` are those
changes of the node the subscription has not published, `tasks` the
notifications spawned, `writers` the calls of `write_coils` with the value they
have read, `poller` and `polled` the poll under way. `lock` is the lock of the
Modbus master. The databus is reduced to one key with the comparison of
`set_value`, since no delayed, synchronous or forced writes occur here.

`Punctual` says that what a poll put into the node has been published before
the next poll. The subscription publishes every 500 ms (`opcua_server.py:149`)
and the master sleeps for `update_period`, 1 s in the template
(`mmaster.xml:3`) between polls; both are timers and nothing waits for the
other, so this is an assumption on timing. Without it `Settles` is violated:
two values can chase each other through subscription and poll for ever.

A response that carries a Modbus exception is decoded to `None`, which
`set_value` ignores: it is a failed poll.

### KamstrupMeter

One action per wait of `handle`: `Receive` for `recv`, `Respond` for the sleep
before an answer, with everything up to the next wait in `Parse`. `Scan` is the
loop of `get_request` over the bytes, with the parser's two flags; `Slice`,
`Buffer` and `Remaining` are its slicing, including what it does after a wrong
CRC, where it goes on with the bytes behind the request. `Raises` are the
places where an exception leaves `handle`.

The CRC is the external library's; a checksum takes its place, computed alike
at both ends. Register values and the session's events are left out:
an answer is the list of registers it contains. `whole` marks streams whose frames
arrive uncut. `WireTo(s, i)` is what a client has sent with its `i`-th request, and
`Own(c, i)` are those of its first `i` requests that are for this meter.
`Fits(s)` says which streams `HandledAsSent` and `NothingLeft` are about: no byte
of the noise is the magic byte, and no byte of a frame's body needs an escape unless
the stream is `whole`. `get_request` scans again what it has unescaped, and without
the second half `kamstrup_escapes` refutes `NothingLeft`.

Consequences of the code that no property states: `reboot_signal` is set to 1
and never reset, and `set_value` ignores an equal value, so only the first
restart of a lifetime reaches the meter (`commands.py:744`, although the help in
`commands.py:480` announces a reboot); a connection made during the two seconds
of a reboot ends it (`kamstrup_server.py:58`).

### Templates

`bin/conpot` starts the servers of a template in greenlets of their own. The
servers below share neither variables nor keys of the databus, so a state of all
of them is a tuple of their states, and every property speaks of one. `Templates`
therefore instantiates them over disjoint variables and follows one, `server`,
chosen in the beginning, while the others stay as they were started; a full
interleaving would multiply states and show nothing more. Each module has a
`Spec` and a type invariant of its own and can be instantiated alone. The two
components that do share something with others are composed where it matters:
the usage simulator with the databus, and the meter's restart in
`KamstrupMeter`.

**IPMI.** `known` is the table `sessions`, which maps an address to a session
that is never looked up; `current` is `self.session`, the newest, which all
clients share; `shake` are the handshake's values on the server object. Datagrams
may be delayed and duplicated, so a client may use any nonce that was sent.
Hashes are reduced to what they are made with: the key of a session is the pair of `kg`
and `Rc`. A user is found by position and renamed by rebuilding dictionaries
(`Renamed`), the way `handle_client_request` loops over them.

**S7.** `First` and `Later` are the two ways `handle` receives: the first packet by
the length in its header, later ones by one `recv(1024)`, of which only the first
packet is looked at. A packet that TCP cuts is a `head` and a `rest`. No length
is compared with what was received (`tpkt.py:37`, `s7.py:106-108`), so a head is
either too short to be parsed or taken for its packet, and a rest for whatever
its bytes may be (`Taken`). `Packs` names the lists whose fields do not fit
`struct.pack`, the identifications of hardware and firmware; those raise in the
middle of a connection (`s7.py:191-230`). A proper client may ask for them.

**BACnet.** `response` is `_response` of the one application. `Kind`, `Drops`,
`Raises` and `Clears` say per service what `indication` builds, when it returns
before it has looked at the service, and when it sets the response to `None`.
A `whoIs` or `whoHas` with a range that has the server's instance between its
high and its low end builds nothing and keeps the old response (`inverted`); it
is the only kind of range the code finds the server outside of.

**SNMP.** `mib` and `bus` are the two places of a value, with the fallback of
`get_response` for classes it does not know and for values that count as false.
`table` and `minute` are the evasion table. A request in the tarpit is a
member of `waiting`; a read carries the values it had when it began. A request
names one object or several (`asked`), one of them `first`. A set writes all of
them in the MIB and the first on the databus; a get asks the databus about the
first, and what it finds there takes the place of the whole answer.

**Modbus.** `AddBlock` is one block of `_configure_slaves`, with `add_block`'s
loop as it is: it ends at the first block that begins behind the new one, and a
new greatest block goes to index 0. A write has one value or several (`Span`,
`Value`). `Home` is how the external library looks its addresses up: in the first
block of a slave that has them all. `inbox` has whole requests, their beginnings and their rests.
`spin` is the handler whose client closed in the middle of a request: its loop
never waits again, so no handler runs from then on. All blocks are of one type,
since those of different types never meet.

**HTTP.** `job` is what is being loaded for the request in hand: an entity or a
status code, which may both be fetched from a remote system that fails.
`Framed`, `Remote` and `Body` keep of a response what decides whether its client
finds the next one on the connection. `Waits` are the two places where a request
is in the hands of somebody outside: the exchange with a remote system, whose
`HTTPConnection` has no timeout (`command_responder.py:279`, `453`), and the
sending of the response.

**GuardianAST.** `product` are the names of a connection's tanks: the template's,
one its client gave, or a part of one. `response` is what has been received of a
command. It is executed when a newline or `00` is in it, and `S60200` and the
reports have `00` in their codes (`zeros`), so a line that TCP cuts may be
executed when its first piece is there; the rest of it is then taken for a
command. Widths and texts of names are left out.

**KamstrupManagement.** A command is the list of settings it stores; `Kept` are
those before the first value that raises. Words are reduced to addresses with
dots, without dots and with too many parts, numbers and names.

**UsageSimulator.** One register stands for all. Each action of a simulator goes
from one wait to the next: `TakeOver` when the databus is initialized, `StartCounter`,
`Count` after each second. `Reset` ends at the wait of `stop`, `Clear` is the
rest of it.

**Proxy** and **Relay.** `Select` begins a pass of the loop; for each socket in it
`Receive` takes a chunk and has it decoded, and `SendOn` or `SendFails` sends it
on. A `send` waits as long as its peer has no room (`full`, until `Take`), and may
take part of the chunk. `Relay` is the abstract specification: what an end
receives is part of what the other sent, in order and at most once, and nothing
comes once the connection is over. `Proxy` implements it with what was read as
`passed` and the connections whose handler has ended as `over` (`IsRelay`).

**Decoder382.** `Decoded` is the body of `decode_in`'s loop; the state kept from
call to call is `parsing`, `escaped` and `data`. Checksums and commands are
reduced to good, bad and too short.

## 3. Runs

Twelve runs; `PROJECT.json` lists their properties. Deadlock is not checked in
these runs because every bounded model ends where its bounds do, and the
program may rest: no client has to come.

| Run | Shows | Bounds |
|---|---|---|
| `databus_safe` | `NoLostNotification`: an observer that has not read the last value stored through its key will still be called, unless an exception ended a notification. `ReadsGoForward`: its reads never go back, except to a delayed write. `SyncReadsOwnWrite`: when a synchronous write returns, its observers have read it or something later. `ObserversConverge`: with fair greenlets every stale observer is told. | one list point, two keys written, two observers of the `w` key, two values, three writes, one reset or initialization |
| `sessions_safe` | `DumpIsComplete`, `LogIsFaithful`, `OneListedPerClient`, `ExpiresOnlyIdle` | two clients, three sessions, two events, two milliseconds to a second, timeout of three seconds, ten ticks, one purge |
| `sessions_live` | `IdleSessionsExpire`, `EventsAreLogged` | two sessions, two events, a second of one tick |
| `sessions_text` (violation) | no session expires when the timeout is read from `conpot.cfg` | as above |
| `dct_wire` | `ResetBeforeOrder`, `AnswersLagBehind`, `ConnectDisturbsNobody` | two callers beside the poller, two routes, two calls, one fault, one change by the vehicle, one reply cut behind its 4th or 9th byte; symmetry of callers and of routes |
| `dct_live` | `Reconnects`, `CallsReturn`, `StopEnds` | two callers, one route, two calls, one fault, no cut |
| `dct_stopped` (violation) | `go` starts a vehicle that was in fault all along | one caller, one call, no cut |
| `gateway` | `NoEcho`, `Settles`, `WriteWins` | two values, two writes by clients, two changes by the device, two failures |
| `kamstrup_meter` | `HandledAsSent`, `NothingLeft`, `HangsUpRebootingOnly` | two connections; two plain requests, noise and a request to another meter, escaped requests that arrive whole; two restarts |
| `kamstrup_escapes` (violation) | a request cut at an escaped byte makes the parser raise | one connection, register 13 |
| `templates` | the properties of the eleven servers, see below | two clients, one proxied connection; per server the constants of `MCTemplates.cfg` |
| `modbus_blocks` (violation) | a block that covers another is accepted | three templates of three or four blocks |

The type invariants of the eleven servers are one property of `templates`, `TypeOK`,
and one theorem, `ServersAreTyped`. Those
of `Databus`, `DCT`, `Gateway` and `Sessions` are proved (section 5) and are in
no run; `KamstrupMeter` states one that TLC finds true within the bounds of
`kamstrup_meter`.

What `templates` shows, by server:

| Server | Property | Bounds |
|---|---|---|
| IPMI | `CommandsFollowHandshake`: a command runs only in a session that has begun a handshake itself. `TablesAgree`: closing never fails (`OpenSessionIsKnown`), and the dictionaries of users agree (`UsersInStep`). | three nonces, two commands that change something, two users |
| S7comm | `ProperClientIsAnswered`: a client that keeps to the protocol and whose packets arrive whole is answered each time; only the identification of hardware or firmware, which cannot be packed, ends the connection instead | four requests, each whole or cut in two; three lists: the component, the hardware, and one that there is not |
| BACnet | `NoStaleReply`: a response that should have been cleared is not sent (`DroppedIsNotSent`), and who asks for what exists, with a range that is not inverted, gets no response kept from before (`FoundIsAnswered`). | three datagrams, two objects |
| SNMP | `SetIsReadBack`: what was set is read, wherever it is kept, unless it was set behind another object of the same request. `EvasionHolds`: no minute admits more than the thresholds allow. | two objects, one of them on the databus, requests about one or both in any order, values 0 and 1, three requests, two minutes |
| Modbus | `LastWriteIsThere`: an address has what was last written to it by anybody or by a broadcast, alone or with its neighbour, unless two blocks of the slave have it | serial line, units 0, 1 and 255, writes of one or two addresses, two values over an initial 0, two pieces sent |
| HTTP | `LocalResponsesAreFramed`: a body the server makes itself is as long as its header says. `RequestsAreAnswered`, if neither a remote system nor the client holds it for ever. | two requests; pages with chunks, an unreadable tarpit, an alias, a trigger, a remote page and remote fallbacks for 501 and 503 |
| Guardian AST | `NamesAreWhole`: a name that TCP cut is stored in part, but no report shows it | two tanks, two lines, each whole or in two pieces |
| Management | `HalfStoredIsNotActivated`: a command that breaks off restarts nothing | three of 23 requests, each parameter of which parses or not |
| Usage simulator | `ResetReturns` under fairness. `OneMeter`: one simulator at a time (`OneSimulatorRuns`), and the meter never runs backwards (`MeterNeverFalls`). | three loads |
| Proxy | `IsRelay`: the refinement. `CloseEndsBoth`: one closed socket ends the connection, unless the other end never takes what it is sent. | four bytes of two kinds, chunks of two |
| Decoder | `DecodesEveryFrame` | streams of seven bytes in chunks of one or two |

Why the bounds are enough to be interesting:

* Databus: two notifications that overlap, a delayed one among them, need two
  writes; three let a third overtake both. A list of one element exercises
  both branches of an indexed write (an element that exists, and an index past
  the end). The proof removes these bounds.
* Sessions: two events in one tick collide on a key. Two milliseconds to a
  second and a timeout of three seconds let a truncated age differ from the
  true one. Three sessions let one client return after it expired while
  another one's session is passed over by the sweep.
* DCT: one broken connection gives a reconnect under any wait of any of three
  greenlets; two calls give two orders in flight after one another or a caller
  that waits while the other orders. A reply that is cut leaves 4 or 9 bytes for
  the first `recv(13)`, 4 of 6 for a `recv(6)`, and the rest for the next; the
  proofs have cuts anywhere and any number of them. Only the liveness run is
  without: a cut leaves more bytes for the next `recv`, never fewer
  (`AnswersLagBehind`), so it keeps nobody waiting.
* Gateway: two values suffice to make copies differ; two writes can overtake
  each other, and both with a change of the device between them.
* Modbus: two blocks of one slave that overlap in an address, in an order in which
  a single write and a write of two addresses find different ones, and blocks of
  several slaves for a broadcast, of which one is too short for two addresses.
* The servers of `templates`: two clients are enough for one to meet what the
  other left; a proxied connection shares nothing with another but its decoder;
  three requests let one store, one change what was stored, and one meet the
  result. Four data bytes and an end make a frame for the decoder, seven let an
  escape and the beginning of the next frame be in the stream as well.
* Kamstrup: every cut of two plain requests is explored. Escaped bytes are left
  to `kamstrup_escapes`, because cut there they fail.

Symmetry is used only in runs of safety properties.

### Fairness

* Databus: `FairSpec` lets notifications proceed. A spawned greenlet is
  scheduled by gevent's hub, sleeps end, and a callback returns or raises.
  Nobody is obliged to write or to register.
* Sessions: weak fairness of the clock and of the worker's loop. Handlers need
  not do anything.
* DCT: weak fairness of the poller's loop, of every greenlet that can leave
  `recv` and of the vehicle's answers; strong fairness of taking the lock, as
  waiters of a gevent semaphore are woken in turn and the poller sleeps a
  second between exchanges. The vehicle answers or the connection breaks; a
  silent one is outside this assumption.
* Templates: weak fairness of an HTTP request's thread, of the greenlets of the
  databus and the simulator, and of a proxied connection's handler: each runs
  when it can. Clients and remote systems owe nothing. What depends on them is
  the hypothesis of the property: `RequestsAreAnswered` is about runs in which no
  request is held for ever by a remote system that stays silent or a client that
  reads nothing (`[]<>~Waits`), and the thread has fairness only where it does not
  wait for them; `CloseEndsBoth` is about connections on which no `send` waits for
  ever (`[]<>~Stalled`). Nothing in the code bounds either wait.
* Gateway: the same for the Modbus lock; a poll or write under way ends.
  Failures are bounded, so an exchange is successful in the end.

## 4. What the code does that its text does not say

* **Blocks that overlap are accepted** (`modbus_blocks`). The comment at
  `slave.py:112` says that two blocks of a type never have an address in common.
  `add_block` searches for an overlap only up to the first block that begins behind
  the new one (`slave.py:120`), in a list that is not in order, because a new
  greatest block goes to its front. With a at 2, two addresses long, b at 4 and then
  c at 1, two addresses long, c covers a.
* **A configured session timeout disables expiry** (`sessions_text`). The
  option is compared as text at `log_worker.py:101`.
* **`go` decides on an old status** (`dct_stopped`). `connect` asks for a
  status that nobody receives (`dct.py:137`), so that every later answer is the one
  to the previous request; `AnswersLagBehind` shows that this lasts as long as
  the connection. The comments at `dct.py:167` and `169` say that `go` gets the
  state first and returns at once if the vehicle is not stopped.
* **An escaped byte at a cut breaks the parser** (`kamstrup_escapes`). The scan
  starts again from the first byte but keeps `data_escaped`
  (`request_parser.py:54`); `test_kamstrup_meter_protocol.py:45` says that the
  parser waits for an entire message.

## 5. Proofs

TLAPS checks eight modules of theorems, for any values of the constants that
satisfy the `ASSUME`s of the modules, finite or infinite, and without the
bounds of the runs. Each theorem names the property of a run it proves. Those
of the servers are about `Templates`, whose steps are the steps of one server or
leave its variables alone; `IpmiSteps`, `BacnetSteps` and the like say so, and
what follows in each part is about that server only.

| Theorem | Property | Module |
|---|---|---|
| `ObserversMissNothing`, `ReadsNeverGoBack`, `SyncCallsAreSeen` | `NoLostNotification`, `ReadsGoForward`, `SyncReadsOwnWrite` | `DatabusProofs` |
| `OneListed`, `DumpsAreComplete`, `LogsAreFaithful`, `ExpiredAreIdle` | `OneListedPerClient`, `DumpIsComplete`, `LogIsFaithful`, `ExpiresOnlyIdle` | `SessionsProofs` |
| `OrdersAreEscorted`, `ConnectIsSafe`, `AnswersAreOld` | `ResetBeforeOrder`, `ConnectDisturbsNobody`, `AnswersLagBehind` | `DCTProofs` |
| `DeviceKeepsItsValue` | `NoEcho` | `GatewayProofs` |
| `HangsUpWhileRebooting`, `RequestsAreHandled`, `NothingIsLeft` | `HangsUpRebootingOnly`, `HandledAsSent`, `NothingLeft` | `KamstrupMeterProofs` |
| `TablesKeepAgreeing`, `CommandsNeedHandshakes` | `TablesAgree`, `CommandsFollowHandshake` | `IPMIProofs` |
| `ProxyIsRelay` | `IsRelay`, the refinement | `ProxyProofs` |
| `RepliesAreFresh`, `ReportsShowWholeNames`, `MeterIsOne`, `ProperIsAnswered`, `SetsAreReadBack`, `EvasionIsKept`, `WritesAreThere`, `HalfStoredIsKept`, `ResponsesAreFramed`, `FramesAreDecoded` | `NoStaleReply`, `NamesAreWhole`, `OneMeter`, `ProperClientIsAnswered`, `SetIsReadBack`, `EvasionHolds`, `LastWriteIsThere`, `HalfStoredIsNotActivated`, `LocalResponsesAreFramed`, `DecodesEveryFrame` | `TemplatesProofs` |
| `ServersAreTyped` | `TypeOK` of `Templates`, that is of all eleven servers | `TemplatesProofs` |
| `TypeCorrect` (three), `NothingLost`, `SessionsAreTyped` | types, and the invariants the others rest on | |

### The databus

`NothingLost == Spec => []Inv`. `NoLostNotification` is not inductive: `Wake`
stores a value of `_future`, and only if that was written through the sleeping
notification's own key are the observers that become stale those it is about to
call. `TaskInv` says so, and the assumption that no point is written with a
delay under two prefixes, which the templates satisfy, keeps it. The proof has
one lemma per action. In the main case, a callback that returns, the observer
called next has just read the stored value and is not stale, and one at an
earlier place cannot have relied on this notification, because `WillCall` wants
the place still ahead.

What observers read rests on `ReadInv`, which has three parts. `BoundInv`: no
entry is newer than the last call, and a sleeping notification's `_future` was
written with a delay. `NewerInv`: what is stored is as new as what its
observers have read and as a synchronous call that is under way, unless a
delayed write put it back. `ToldInv`: so is what the observers have read that
such a call has already passed. Every action but `reset` and `initialize` is
first shown to be a `Reading` step: who reads, reads what is stored then, and
what is stored is newer or was delayed. Then `ReadInv` is shown to survive any
`Reading` step. The clause "unless delayed" cannot be dropped: a value of
`_future` overwrites whatever was stored during the sleep.

### Sessions and the log

`SessionsInv` is `TypeOK`, the four properties' state parts and what they need.
`KeysInv` says that the keys of a session's events leave no gap from the present
on: a key lies ahead of the clock only because the milliseconds before it are
taken. Hence the loop in `add_event` ends behind all of them and the order of
keys is the order of events. `LogIsFaithful` is carried past each step by
viewing what is logged, in hand and queued as one sequence, which only an event
added to the worker's queue makes longer. The sweep is a recursive function over
positions of the list; `SweepIsRight` says by induction on the position,
through the least position that fails, what its prefix has kept and ended, and
that suffices for `OneListedPerClient` and for `ExpiresOnlyIdle`, in which the
two seconds are what truncation to whole seconds can cost at both ends.

### The vehicle

The invariant of the orders is
`IInv == SortsOK /\ LockInv /\ ResetSent /\ ResetBeforeOrder`.
`LockInv` says that exactly the holder of the lock waits for an answer, and
that `connected` is false only while the lock is free and the socket cannot be
sent on, but for the instant in which the connection is made and `connect` does
not know it: then a greenlet may wait for the answer to a status request, and
nothing else was sent. Hence `connect`, which takes no lock, takes the socket
from nobody.
`ResetSent` says that a greenlet that waits for the answer to its reset sent
the last request on the wire. The wire is the request answered last and those
behind it; lemmas on appending to it and on taking its head carry the order
past `Send` and `Answer`. `SortsOK` and the Boolean variables are kept apart
because the two provers that are needed for them do not mix.

`LagInv` counts bytes: those received and those the vehicle still owes (`Due`)
are at least 13 more than the greenlet in `recv` waits for. A `recv` takes no more than
it waits for, so where TCP cuts a reply more is left. `DueAppend` and `DueTail` say what a request sent
and a request answered change in that number.

### The gateway

`DeviceKeepsItsValue == Punctual => (Spec => []NoEcho)`: if publications keep
up with polls, no value that comes from the device is written back to it as
long as no client writes. The inductive invariant `OneAtATime` says that
without a client at most one thing is under way: a poll, the notification of
its answer, or the publication of the node's change, which carries the value
that the databus has, so `set_value` ignores it. Type correctness
(`TypeCorrect`) rests on `FreshId`, an instance of the pigeonhole principle.

### The servers

* *Kamstrup meter, hanging up.* `RebootInv`: the databus notifies the meter of one restart in
  its lifetime, and the server is inactive only while that one is under way.
  Whatever the loop over received bytes does, it ends where the handler answers,
  waits or raises (`ParseEnds`), so the parser's recursion need not be known.
* *Kamstrup meter, what is handled.* Here it must be known, byte by byte.
  `ContentIs`, `BodyIs`, `FrameIs` and `StreamIs` say where each byte of a
  request is in the client's stream, `KeepBody` and `ScanFrame` what `get_request` has
  kept after any number of the bytes of a frame, by induction over the message,
  and `FrameRead` that what it cuts out is the request that was sent. `MeterInv`
  then says of each connection that its parser has the bytes received since the
  last request it returned, unescaped, that `recv` has the rest, and that the answers are
  those of all requests handled, or of all but the last. Both theorems have the
  hypothesis that the streams fit. Nothing is assumed of the checksum but that it is two
  bytes, so they hold of the CRC that the library computes.
* *IPMI.* `AccountsInv` has the types of the dictionaries beside `UsersInStep`,
  since a user is found by position; the lemmas on `Renamed` say that rebuilding
  two dictionaries with the same keys keeps their keys the same. `HandshakeInv`
  says that the key the server holds is of a handshake that the present session
  has begun, which every new source resets.
* *Proxy.* `ProxyInv` says that what was read was sent and that a pass of the
  loop is under way only where it still runs. Each action is then mapped: a
  forwarded chunk to `Relay`'s step that passes a piece on, the ends of the loop
  to the end of the connection, everything else to a stutter.
* *BACnet.* The response held was built after the last datagram that should
  have cleared it.
* *S7comm.* While a client has kept to the protocol, at most one packet is
  unread, it is whole, and it is the one that the server's phase expects; what
  is answered of the diagnostics is what `Answers`, and what ends the connection
  what `Raises`, and for a list that there is one of them holds.
* *SNMP.* An object that was set, as the first of its request or where the databus
  is not asked for it, and that nobody else has written since, has its
  value in the MIB and on the databus, whichever of the two `get_response` looks
  at; a request for it that waits has read that value, alone or with others. Of the evasion table: it
  counts at least what was admitted in its minute.
* *Modbus.* The names of memory are those of one template; as long as blocks are still to come
  nothing was written. A write goes to the one block of each slave that `Home`
  finds for its whole range. If an address is in no other block of the slave
  (`Sole`), that is the block it is in, so its place there has the value of the
  write; a write that does not reach the slave changes nothing in its blocks,
  since their keys are their own.
* *HTTP.* The response that has been loaded locally for the method in hand is
  framed as its configuration says; `ChunksTell` needs that chunks are no longer than
  the payload.
* *Guardian AST.* A name in part is stored only by the first piece of a line; until
  the rest of that line is received, nothing that begins with `^A` is, and then the
  connection ends. So a connection that goes on has whole names.
* *Usage simulator.* Every simulator but the present one has stopped, and
  between the two waits of a reset there is none.
* *Management.* `reboot_signal` is the last setting of every command that
  stores it; a command that breaks off has not come to it.
* *Decoder.* `in_data_escaped` is the parity of the escapes right before the next
  byte, and what is decoded is as many frames as there are ends of even parity.
  `FeedDecodes` carries that through the bytes of a chunk, by induction on how
  many of them have been decoded, through the least number that fails. That the
  recursive function of `After` is what its body says (`AfterIs`) is shown in the
  same way, by building it one byte longer.
* *Types.* `ServersAreTyped` joins one lemma per server (`IpmiTyped`, `RelaysTyped`,
  `S7Typed` and so on), each from an invariant of its own beside the one above,
  since few of the types are inductive alone. Of IPMI: a key that is set is of a `rakp1`
  that has had its nonce, and renaming never empties a dictionary. Of S7comm: what is
  unread and what was answered was asked. Of SNMP: no more requests wait than have
  arrived, so one of the bounded identifiers is free for the next (`FewWait`), and
  no client's count exceeds them. Of the simulator: none is made but by a load. Of the
  management port: what is stored of a command, in whole or in part, is a value that
  was parsed or the one that was there (`StoredIsParsed`). Of the decoder: each byte adds at most one to what is collected, and
  what is escaped or collected belongs to a frame (`OneByteInFrame`).

### Assumptions

Besides types and bounds that are natural numbers (`BoundsAssumption`; `Parts` of a
reply are 1 to 12 bytes), and a
`NoNode` that stands for no request of HTTP, the constants are assumed to
have what the code or its templates give them: no point is written with a delay
under two prefixes (`DatabusAssumption`); a Modbus template has a databus key of
its own for each block, the `content` of the block in `modbus.xml`; the chunks configured for an HTTP
payload are no longer than it (no template here has chunks that are); what SNMP maps to the databus is in its MIB
and no client is called `overall`; a management request has words, since
`split` of a line that is not empty has; the proxy receives at least one byte at
a time (`proxy.py:93`). TLC evaluates all of them in the runs.

### Only model-checked

* All liveness properties, since fairness and `ENABLED` are out of the prover's
  reach: `ObserversConverge`, `IdleSessionsExpire`, `EventsAreLogged`,
  `Reconnects`, `CallsReturn`, `StopEnds`, `Settles`, `WriteWins` (of the form
  `<>[]`), `RequestsAreAnswered`, `ResetReturns`, `CloseEndsBoth`.
* The four properties that are refuted.

## 6. Not modelled

* *MMIS and AGV emulator*: `start` begins with `return None` (`mmis.py:133`) and
  the rest of it is never reached.
* *Weld robot, Fanuc scripts*: disabled in `bin/conpot`, or started by nothing.
* *Loggers*: connections to brokers and databases, formatting. What the log
  worker sees of them, an event taken or an exception, is in `Sessions`.
* *Utilities, `build_pysnmp_mib_wrapper`*: calls of external programs.
* *Start-up*: options, privileges, fetching the public address. `Templates`
  has which servers run side by side and `Sessions` the exit on an exception.
* Of MMaster: registers, conditions and index points; of the OPC UA server:
  methods and events of the template.
* Of the servers in `Templates`: the layout of packets and reports; header fields
  of HTTP that frame nothing, and requests whose `Content-Length` is no number;
  Modbus block types and device identification; voltages, currents and powers of the
  simulator, which do not change; `decode_out`, which is `decode_in` with another
  magic byte. `ez_setup` is packaging.

What the code does, is modelled, and no property states, because no text of the
repository says otherwise:

* A client that closes in the middle of a Modbus request, or of a gauge's
  command, leaves a loop that never waits again (`modbus_server.py:105`,
  `guardian_ast_server.py:173`), and with cooperative greenlets nothing else
  runs. `spin` is that state.
* A remote page that breaks off in its body leaves the remote header fields in
  the fallback's response (`command_responder.py:458`); TRACE tells no length;
  `load_entity` keeps a chunked field whose body is not sent in chunks.
  `LocalResponsesAreFramed` excludes these by name.
* The address format without dots, which the management port's help shows,
  always raises (`commands.py:773`).
* A decoder that raises leaves both sockets of a proxied connection open
  (`proxy.py:140`).
* A BACnet request that cannot be decoded, or a service without a response,
  such as a `whoIs` with an inverted range (`bacnet_app.py:130`),
  sends the response of an earlier request, to whoever sent it
  (`bacnet_app.py:237`). `DroppedIsNotSent` and `FoundIsAnswered` say what
  never goes wrong in spite of it.
* An order, or a reply that TCP cuts, shifts everything the vehicle's emulator
  receives afterwards (`dct.py:147`, `257`); what it stores as the vehicle's state
  may then be made of other bytes.
* Of a set request about several objects, the databus hears only of the first
  (`conpot_cmdrsp.py:292`); a mapped object behind it is answered with its old
  value. `SetIsReadBack` excludes it by name.
* An address in two blocks of a Modbus slave is in one or the other, depending on
  how many addresses a request is about (`LastWriteIsThere` excludes it by name).
* A request for the identification of hardware or firmware ends an S7comm connection
  with an exception (`s7.py:191-230`), although the template configures both.
  `ProperClientIsAnswered` says so. A packet that TCP cuts may be answered in part
  and end the connection with its rest.
* A remote system that stays silent holds an HTTP request for ever
  (`command_responder.py:279`, `453`), and a peer that takes nothing holds a proxied
  connection, whose other end's close is not noticed (`proxy.py:143`, `154`).
* A gauge's name that TCP cuts is stored in part, and the rest of its line ends the
  connection (`guardian_ast_server.py:173`).
* The events in a queue that was replaced by `purge_sessions`, and the one in
  hand when a logger raises, are not logged any more (`session_manager.py:58`,
  `log_worker.py:130`). `LogIsFaithful` counts them as queued and in hand.
* A command may run for a client whose session another client began, since they
  share one (`ipmi_server.py:109`).
* A list on the databus is changed in place (`databus.py:92`): who has read it sees it
  change, and storing it again finds it equal to itself. The model makes a new list
  at each change and cannot see this.
* What follows the end of a frame in one chunk is dropped by the decoder
  (`decoder_382.py:73`); `DecodesEveryFrame` is about streams without such chunks.
* A reset after a load that failed waits for ever for a simulator that waits for
  the databus (`usage_simulator.py:53`); `ResetReturns` speaks of an
  initialized databus.

## 7. Plan

1. *More proofs.* Every safety property and type invariant of the passing runs is
   proved; what is left are the safety parts of the liveness properties, such as the
   stability that `WriteWins` and `Settles` speak of, once they hold.
2. *Abstract specifications.* A register with eventually notified observers
   that `Databus` implements; a log, first in, first out, that `Sessions`
   implements.
3. *More of the system.* MMaster's conditions and index points, and the OPC UA
   template's methods, in `Gateway`; the retries of the hpfriends and MySQL
   loggers.
