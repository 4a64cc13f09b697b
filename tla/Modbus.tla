------------------------------- MODULE Modbus -------------------------------
(***************************************************************************)
(* The Modbus server: protocols/modbus/modbus_server.py, slave_db.py,      *)
(* slave.py, modbus_block_databus_mediator.py.  The blocks of the slaves   *)
(* are lists on the databus, written in place: no observer hears of it.    *)
(* A request is read byte by byte as its header says; when the client      *)
(* closes in the middle of one, recv returns nothing for ever, and the     *)
(* loop that counts bytes keeps the thread.  All blocks are of one type:   *)
(* those of different types never meet.                                    *)
(***************************************************************************)
EXTENDS Integers, Sequences, FiniteSets, SequencesExt

CONSTANTS Clients,
          Templates,   \* sequences of [slave, name, start, size]: the blocks
                       \* in their order, with the sizes of their lists
          Mode,        \* "tcp" or "serial"
          Units, Addresses, Values,
          MaxValues,   \* a write has up to so many of them
          MaxRequests

Entries == [slave : Nat, name : STRING, start : Int, size : Nat]

VARIABLES template, \* what is still to be configured
          blocks,   \* slave -> its blocks, in the order of _memory
          memory,   \* the databus: block -> its list
          inbox,    \* what has arrived of a connection and was not read
          gone,     \* has the client closed it?
          handler,  \* "recv", "more", "spin" or "closed"
          pending,  \* the request whose first bytes have been read
          requests,
          last      \* slave, address -> the last value written there

vars == <<template, blocks, memory, inbox, gone, handler, pending, requests, last>>
lines == <<inbox, gone, requests>>
configured == <<template, blocks>>

\* A request that writes one address or several in a row, or changes nothing:
\* it reads, or has a function that no slave has.  None for the header of no
\* length or a wrong one.
Orders == [unit : Units, function : {"other"}, address : {0}, values : {<<>>}]
            \cup [unit : Units, function : {"write"}, address : Addresses,
                  values : UNION {[1..n -> Values] : n \in 1..MaxValues}]
            \cup [unit : {0}, function : {"malformed"}, address : {0}, values : {<<>>}]
NoRequest == [unit |-> 0, function |-> "none", address |-> 0, values |-> <<>>]

\* The addresses that a client may write.
Cells == {a + n : a \in Addresses, n \in 0..(MaxValues - 1)}

\* What a client sends: a request whole, its beginning, the rest of it, less
\* than a header, or "quit.".
Pieces == [kind : {"whole", "begin"}, request : Orders]
          \cup [kind : {"rest", "short", "quit"}, request : {NoRequest}]

Init ==
    /\ template \in Templates
    /\ blocks = [s \in {} |-> <<>>]
    /\ memory = [name \in {b.name : b \in Range(template)} |->
         [n \in 0..(CHOOSE b \in Range(template) : b.name = name).size - 1 |-> 0]]
    /\ inbox = [c \in Clients |-> <<>>] /\ gone = [c \in Clients |-> FALSE]
    /\ handler = [c \in Clients |-> "recv"]
    /\ pending = [c \in Clients |-> NoRequest]
    /\ requests = 0
    /\ last = [s \in {b.slave : b \in Range(template)} |-> [a \in Cells |-> 0]]

TypeOK ==
    /\ \A c \in Clients :
         /\ inbox[c] \in Seq(Pieces) /\ gone[c] \in BOOLEAN
         /\ handler[c] \in {"recv", "more", "spin", "closed"}
         /\ pending[c] \in Orders \cup {NoRequest}
    /\ requests \in 0..MaxRequests
    /\ \A name \in DOMAIN memory : \A n \in DOMAIN memory[name] :
         memory[name][n] \in Values \cup {0}
    /\ DOMAIN blocks \subseteq DOMAIN last

----------------------------------------------------------------------------
\* is_in: would a block overlap this one?
IsIn(block, start, size) ==
    CASE start > block.start -> block.start + block.size > start
      [] start < block.start -> start + size > block.start
      [] OTHER -> TRUE

\* The loop of add_block: it ends at the first block that begins behind the
\* new one, which goes before that; without such a block, it goes first.
Behind(list, b) == {i \in DOMAIN list : list[i].start > b.start}
First(set) == CHOOSE i \in set : \A j \in set : i <= j
Seen(list, b) ==
    IF Behind(list, b) = {} THEN DOMAIN list ELSE 1..First(Behind(list, b))
Place(list, b) == IF Behind(list, b) = {} THEN 1 ELSE First(Behind(list, b))

Accepted(list, b) ==
    /\ b.size > 0
    /\ \A i \in DOMAIN list : list[i].name # b.name
    /\ \A i \in Seen(list, b) : ~IsIn(list[i], b.start, b.size)

\* _configure_slaves: the next block of the template.  One that is refused
\* ends the configuration; its slave is there without it.
AddBlock ==
    /\ template # <<>>
    /\ LET b == Head(template)
           list == IF b.slave \in DOMAIN blocks THEN blocks[b.slave] ELSE <<>>
       IN  /\ template' = IF Accepted(list, b) THEN Tail(template) ELSE <<>>
           /\ blocks' = [s \in DOMAIN blocks \cup {b.slave} |->
                IF s # b.slave THEN blocks[s]
                ELSE IF Accepted(list, b) THEN InsertAt(list, Place(list, b), b)
                ELSE list]
    /\ UNCHANGED <<memory, lines, handler, pending, last>>

----------------------------------------------------------------------------
\* Does a block have so many addresses from this one?
Holds(block, first, count) ==
    block.start <= first /\ first + count <= block.start + block.size

\* Where a slave finds them: in the first block that has them all.
Home(slave, first, count) ==
    LET list == blocks[slave]
    IN  {list[i] : i \in {j \in DOMAIN list :
                            /\ Holds(list[j], first, count)
                            /\ \A k \in 1..(j - 1) : ~Holds(list[k], first, count)}}

\* Mutant of Addressed: a broadcast ends with the first slave that takes it.
AddressedFirst(r) ==
    CASE Mode = "tcp" -> {r.unit} \cap {0, 255} \cap DOMAIN blocks
      [] Mode = "serial" /\ r.unit = 0 ->
           {s \in DOMAIN blocks : \A t \in DOMAIN blocks :
              Home(t, r.address, Len(r.values)) # {} => s <= t}
      [] OTHER -> {r.unit} \cap 1..247 \cap DOMAIN blocks

\* SlaveBase.handle_request: the slaves that carry out a request.  Over tcp
\* only 0 and 255 are listened to; on a serial line 0 means all of them.
Addressed(r) ==
    CASE Mode = "tcp" -> {r.unit} \cap {0, 255} \cap DOMAIN blocks
      [] Mode = "serial" /\ r.unit = 0 -> DOMAIN blocks
      [] OTHER -> {r.unit} \cap 1..247 \cap DOMAIN blocks

Broadcast(r) == Mode = "serial" /\ r.unit = 0

\* A request that is ignored, and ends the connection: one to a unit nobody
\* may be, every broadcast, and one that cannot be parsed.  A unit that
\* might exist is answered, if only with SLAVE_DEVICE_FAILURE.
Ignored(r) ==
    \/ r.function = "malformed" \/ Broadcast(r)
    \/ Mode = "tcp" /\ r.unit \notin {0, 255}
    \/ Mode = "serial" /\ r.unit > 247

Span(r) == r.address..(r.address + Len(r.values) - 1)
Value(r, a) == r.values[a - r.address + 1]

\* The blocks a write goes to, one in each slave that has its whole range, and
\* what it writes at a place of a block's list.
Written(r) == UNION {Home(s, r.address, Len(r.values)) : s \in Addressed(r)}
Change(r, name, n) ==
    {Value(r, b.start + n) : b \in {c \in Written(r) : c.name = name /\ c.start + n \in Span(r)}}

\* For the properties: a client may expect that this slave has done it.
Expected(s, r) ==
    /\ s \in DOMAIN blocks /\ (Broadcast(r) \/ (s = r.unit /\ ~Ignored(r)))
    /\ Home(s, r.address, Len(r.values)) # {}

\* handle_request of the slaves: a write changes the list on the databus, in
\* each slave with a block for all of it; the others answer an exception.
Execute(c, r) ==
    /\ handler' = [handler EXCEPT ![c] = IF Ignored(r) THEN "closed" ELSE "recv"]
    /\ pending' = [pending EXCEPT ![c] = NoRequest]
    /\ IF r.function # "write" THEN UNCHANGED <<memory, last>>
       ELSE /\ memory' = [name \in DOMAIN memory |-> [n \in DOMAIN memory[name] |->
                 IF Change(r, name, n) = {} THEN memory[name][n]
                 ELSE CHOOSE v \in Change(r, name, n) : TRUE]]
            /\ last' = [s \in DOMAIN last |-> [a \in DOMAIN last[s] |->
                 IF Expected(s, r) /\ a \in Span(r) THEN Value(r, a) ELSE last[s][a]]]

\* The server is started when it is configured.
Runs == template = <<>> /\ \A c \in Clients : handler[c] # "spin"

\* The handler reads what is next on its connection.
Receive(c) ==
    /\ Runs /\ handler[c] \in {"recv", "more"} /\ inbox[c] # <<>>
    /\ LET piece == Head(inbox[c]) IN
       \/ /\ handler[c] = "recv" /\ piece.kind = "whole"
          /\ Execute(c, piece.request)
       \/ /\ handler[c] = "recv" /\ piece.kind = "begin"
          /\ handler' = [handler EXCEPT ![c] = "more"]
          /\ pending' = [pending EXCEPT ![c] = piece.request]
          /\ UNCHANGED <<memory, last>>
       \/ /\ handler[c] = "recv" /\ piece.kind \in {"quit", "short"}
          /\ handler' = [handler EXCEPT ![c] = "closed"]
          /\ UNCHANGED <<memory, last, pending>>
       \/ /\ handler[c] = "more" /\ piece.kind = "rest"
          /\ Execute(c, pending[c])
    /\ inbox' = [inbox EXCEPT ![c] = Tail(@)]
    /\ UNCHANGED <<configured, gone, requests>>

\* The client has closed: at the start of a request the handler ends, in the
\* middle of one it goes on reading nothing.
EndOfStream(c) ==
    /\ Runs /\ handler[c] \in {"recv", "more"} /\ inbox[c] = <<>> /\ gone[c]
    /\ handler' = [handler EXCEPT ![c] = IF @ = "recv" THEN "closed" ELSE "spin"]
    /\ UNCHANGED <<configured, memory, lines, pending, last>>

\* Five seconds without a byte.
Timeout(c) ==
    /\ Runs /\ handler[c] \in {"recv", "more"} /\ inbox[c] = <<>> /\ ~gone[c]
    /\ handler' = [handler EXCEPT ![c] = "closed"]
    /\ pending' = [pending EXCEPT ![c] = NoRequest]
    /\ UNCHANGED <<configured, memory, lines, last>>

\* A client sends a request, or goes on with the one it has begun.
Send(c, piece) ==
    /\ template = <<>> /\ ~gone[c] /\ handler[c] # "closed" /\ inbox[c] = <<>> /\ requests < MaxRequests
    /\ (piece.kind = "rest") <=> (handler[c] = "more")
    /\ inbox' = [inbox EXCEPT ![c] = <<piece>>]
    /\ requests' = requests + 1
    /\ UNCHANGED <<configured, memory, gone, handler, pending, last>>

Close(c) ==
    /\ template = <<>> /\ ~gone[c] /\ gone' = [gone EXCEPT ![c] = TRUE]
    /\ UNCHANGED <<configured, memory, inbox, handler, pending, requests, last>>

Next ==
    \/ AddBlock
    \/ \E c \in Clients :
         \/ Receive(c) \/ EndOfStream(c) \/ Timeout(c) \/ Close(c)
         \/ \E piece \in Pieces : Send(c, piece)

Spec == Init /\ [][Next]_vars

----------------------------------------------------------------------------
\* "It must not have 2 holding registers at address 100" (slave.py:112-114):
\* the blocks of a slave have no address in common, in whatever order the
\* template lists them (slave.py:115-127).
BlocksDisjoint ==
    \A s \in DOMAIN blocks : \A i, j \in DOMAIN blocks[s], n \in Cells :
      Holds(blocks[s][i], n, 1) /\ Holds(blocks[s][j], n, 1) => i = j

\* The block at i is the only one of its slave with this address.
Sole(s, i, a) ==
    /\ Holds(blocks[s][i], a, 1)
    /\ \A j \in DOMAIN blocks[s] : Holds(blocks[s][j], a, 1) => j = i

\* What was written last to an address of a slave, alone or with others, by
\* any connection or by a broadcast to all the slaves, is what the slave has
\* there (slave_db.py:52-94, slave.py:62-97).  Of an address in two blocks of
\* the slave, which BlocksDisjoint denies and add_block lets happen, nothing
\* is said: it depends on its neighbours in a write which block it is in.
LastWriteIsThere ==
    \A s \in DOMAIN blocks : \A i \in DOMAIN blocks[s], a \in DOMAIN last[s] :
      Sole(s, i, a) => memory[blocks[s][i].name][a - blocks[s][i].start] = last[s][a]
=============================================================================
