--------------------------- MODULE KamstrupMeter ---------------------------
(***************************************************************************)
(* The Kamstrup meter server.  Sources, under protocols/kamstrup:          *)
(* meter_protocol/kamstrup_server.py, request_parser.py, messages.py and   *)
(* command_responder.py, and the restart of management_protocol.           *)
(*                                                                         *)
(* A client sends requests as frames of bytes, and TCP delivers them in    *)
(* chunks of any size.  Each connection has a parser of its own and is     *)
(* served by its own greenlet, which gives up control in recv and in the   *)
(* sleep before each answer.  A restart asked for on the management port   *)
(* reaches the server through the databus.                                 *)
(***************************************************************************)
EXTENDS Integers, Sequences, FiniteSets, SequencesExt

CONSTANTS Conns,       \* connections of clients
          Streams,     \* what clients send: noise, then requests, and
                       \* whether the network keeps the requests whole
          Address,     \* the meter's communication address
          Known,       \* the registers the template gives the meter
          MaxRestarts  \* bound on restarts asked for

Byte == 0..255
Word == 0..65535
Magic == 128
EndOfText == 13
Escape == 27
NeedEscape == {6, EndOfText, Escape, 64, Magic}
GetRegisters == 16
Flip(b) == 255 - b

Request == [addr : Byte, regs : Seq(Word)]

ASSUME KamstrupMeterAssumption ==
    /\ Address \in Byte
    /\ Known \subseteq Word
    /\ MaxRestarts \in Nat
    /\ \A s \in Streams :
          s.noise \in Seq(Byte) /\ s.requests \in Seq(Request) /\ s.whole \in BOOLEAN

VARIABLES sent,     \* what the client of each connection is sending
          coming,   \* the bytes of it that recv has not returned
          parser,   \* the connection's KamstrupRequestParser
          pc,       \* what its greenlet is doing
          handled,  \* history: the requests get_request returned
          answers,  \* the registers of each answer sent
          active,   \* server_active
          signal,   \* reboot_signal on the databus: 0 or 1
          notified, \* has KamstrupServer.reboot been called for it?
          reboots,  \* calls of set_reboot_done still to come
          restarts

conn == <<sent, coming, parser, pc, handled, answers>>
reboot == <<signal, notified, reboots, restarts>>
vars == <<conn, active, reboot>>

Parser == [bytes : Seq(Byte), parsing : BOOLEAN, escaped : BOOLEAN]
NoBytes == [bytes |-> <<>>, parsing |-> FALSE, escaped |-> FALSE]
Nothing == [noise |-> <<>>, requests |-> <<>>, whole |-> TRUE]

TypeOK ==
    /\ sent \in [Conns -> Streams \cup {Nothing}]
    /\ coming \in [Conns -> Seq(Byte)]
    /\ parser \in [Conns -> Parser]
    /\ pc \in [Conns -> {"new", "recv", "answering", "closed", "raised"}]
    /\ handled \in [Conns -> Seq(Request)]
    /\ answers \in [Conns -> Seq(Seq(Known))]
    /\ active \in BOOLEAN
    /\ signal \in {0, 1} /\ notified \in BOOLEAN
    /\ reboots \in Nat /\ restarts \in Nat

Init ==
    /\ sent = [c \in Conns |-> Nothing]
    /\ coming = [c \in Conns |-> <<>>]
    /\ parser = [c \in Conns |-> NoBytes]
    /\ pc = [c \in Conns |-> "new"]
    /\ handled = [c \in Conns |-> <<>>]
    /\ answers = [c \in Conns |-> <<>>]
    /\ active = TRUE
    /\ signal = 0 /\ notified = FALSE
    /\ reboots = 0 /\ restarts = 0
-----------------------------------------------------------------------------
(* What a client sends, external: a checksum in the place of the CRC, and  *)
(* everything between the first and the last byte escaped.                 *)
Crc(m) == LET sum == FoldLeft(LAMBDA n, b : n + b, 0, m)
          IN  <<(sum \div 256) % 256, sum % 256>>

Content(r) ==
    <<r.addr, GetRegisters, Len(r.regs)>>
    \o FlattenSeq([i \in DOMAIN r.regs |-> <<r.regs[i] \div 256, r.regs[i] % 256>>])

Escaped(m) ==
    FlattenSeq([i \in DOMAIN m |-> IF m[i] \in NeedEscape THEN <<Escape, Flip(m[i])>>
                                                          ELSE <<m[i]>>])

Body(r) == Content(r) \o Crc(Content(r))

Frame == [r \in UNION {ToSet(s.requests) : s \in Streams} |->
             <<Magic>> \o Escaped(Body(r)) \o <<EndOfText>>]

(* What a client has sent with its i-th request, and after it.             *)
WireTo(s, i) == s.noise \o FlattenSeq([j \in 1..i |-> Frame[s.requests[j]]])

Wire(s) == WireTo(s, Len(s.requests))

After(s, i) == Len(Wire(s)) - Len(WireTo(s, i))
-----------------------------------------------------------------------------
(* get_request goes over all bytes from the first, those it has unescaped  *)
(* before included, and ends at an unescaped end of text.  kept is what    *)
(* stays before position, rest what follows the end of text.               *)
Slice(s, first, butlast) == SubSeq(s, first + 1, Len(s) - butlast)

Scanned(acc, d) ==
    CASE acc.ended -> [acc EXCEPT !.rest = Append(@, d)]
      [] ~acc.ended /\ ~acc.parsing /\ d # Magic -> acc
      [] ~acc.ended /\ (acc.parsing \/ d = Magic) /\ acc.escaped ->
            [acc EXCEPT !.parsing = TRUE, !.escaped = FALSE, !.kept = Append(@, Flip(d))]
      [] ~acc.ended /\ (acc.parsing \/ d = Magic) /\ ~acc.escaped ->
            CASE d = Escape -> [acc EXCEPT !.parsing = TRUE, !.escaped = TRUE]
              [] d = EndOfText -> [acc EXCEPT !.ended = TRUE]
              [] OTHER -> [acc EXCEPT !.parsing = TRUE, !.kept = Append(@, d)]

Scan(p) ==
    LET upTo[i \in 0..Len(p.bytes)] ==
          IF i = 0
            THEN [kept |-> <<>>, rest |-> <<>>, ended |-> FALSE,
                  parsing |-> p.parsing, escaped |-> p.escaped]
            ELSE Scanned(upTo[i - 1], p.bytes[i])
    IN  upTo[Len(p.bytes)]

(* An index outside the message raises in valid_crc.                       *)
CrcRaises(s) == Len(s.kept) < 3
CrcValid(s) ==
    LET m == Slice(s.kept, 1, 0)
    IN  Slice(m, Len(m) - 2, 0) = Crc(Slice(m, 0, 2))

(* self.bytes when the message is cut out of it: after a wrong CRC the     *)
(* bytes before the end of text are gone, and what follows is taken for    *)
(* the message all the same.                                               *)
Buffer(s) == (IF CrcValid(s) THEN s.kept ELSE <<>>) \o <<EndOfText>> \o s.rest

Remaining(s) == Slice(Buffer(s), IF Len(s.kept) < Len(Buffer(s)) THEN Len(s.kept) + 1
                             ELSE Len(Buffer(s)), 0)

(* _parse_register_bytes, whose check lets through counts that run past    *)
(* the end of the message.                                                 *)
CountRaises(m) ==
    m = <<>> \/ 2 * (Len(m) - 1) < m[1] \/ Len(m) < 1 + 2 * m[1]

(* Mutant of Registers: the bytes of a register's number are swapped.      *)
RegistersSwapped(m) == [i \in 1..m[1] |-> m[2 * i] + 256 * m[2 * i + 1]]

Registers(m) == [i \in 1..m[1] |-> 256 * m[2 * i] + m[2 * i + 1]]

Message(s) == Slice(Buffer(s), 3, 3)

(* get_request raises on short messages and on register counts, and the    *)
(* CommandResponder's assertion fails on other commands sent to the meter. *)
Raises(s) ==
    \/ CrcRaises(s)
    \/ Len(Buffer(s)) < 3
    \/ IF Buffer(s)[3] = GetRegisters THEN CountRaises(Message(s))
       ELSE Buffer(s)[2] = Address

Parsed(s) ==
    [addr |-> Buffer(s)[2],
     regs |-> IF Buffer(s)[3] = GetRegisters THEN Registers(Message(s)) ELSE <<>>]
-----------------------------------------------------------------------------
(* The loop of handle, from the call of get_request on.  After the last    *)
(* complete request it goes back to recv, or closes if a reboot is         *)
(* pretended; each request is followed by a sleep.                         *)
Waiting(up) == IF up THEN "recv" ELSE "closed"

Parse(c, p) ==
    LET s == Scan(p)
    IN  /\ parser' = [parser EXCEPT ![c] =
                        [bytes |-> IF ~s.ended THEN s.kept
                                   ELSE IF CrcRaises(s) THEN s.kept \o <<EndOfText>> \o s.rest
                                   ELSE Remaining(s),
                         parsing |-> s.parsing /\ (s.ended => CrcRaises(s) \/ CrcValid(s)),
                         escaped |-> s.escaped]]
        /\ IF s.ended /\ ~Raises(s)
             THEN /\ handled' = [handled EXCEPT ![c] = Append(@, Parsed(s))]
                  /\ pc' = [pc EXCEPT ![c] = "answering"]
             ELSE /\ pc' = [pc EXCEPT ![c] = IF s.ended THEN "raised" ELSE Waiting(active)]
                  /\ UNCHANGED handled

(* A client connects; a reboot that is being pretended is over with it.    *)
Connect(c, s) ==
    /\ pc[c] = "new"
    /\ sent' = [sent EXCEPT ![c] = s]
    /\ pc' = [pc EXCEPT ![c] = "recv"]
    /\ active' = TRUE
    /\ coming' = [coming EXCEPT ![c] = Wire(s)]
    /\ UNCHANGED <<parser, handled, answers, reboot>>

(* Mutant of Chunk: a new chunk replaces what was left of the last one.    *)
ChunkAlone(c, n) == SubSeq(coming[c], 1, n)

Chunk(c, n) == parser[c].bytes \o SubSeq(coming[c], 1, n)

(* recv returns the next n bytes of the stream.                            *)
Receive(c, n) ==
    /\ pc[c] = "recv"
    /\ sent[c].whole =>
          \E i \in DOMAIN sent[c].requests : Len(coming[c]) - n = After(sent[c], i)
    /\ coming' = [coming EXCEPT ![c] = SubSeq(@, n + 1, Len(@))]
    /\ Parse(c, [parser[c] EXCEPT !.bytes = Chunk(c, n)])
    /\ UNCHANGED <<sent, answers, active, reboot>>

(* The client is gone: recv returns nothing, or send raises an error that  *)
(* leaves handle.                                                          *)
Disconnect(c) ==
    /\ \/ pc[c] = "recv"
       \/ pc[c] = "answering" /\ Last(handled[c]).addr = Address
    /\ pc' = [pc EXCEPT ![c] = "closed"]
    /\ UNCHANGED <<sent, coming, parser, handled, answers, active, reboot>>

Answer(r) == SelectSeq(r.regs, LAMBDA x : x \in Known)

(* The sleep ends.  A request for this meter is answered with the          *)
(* registers it has, and the loop goes on; one for another meter is not    *)
(* answered and ends the loop over what was received.                      *)
Respond(c) ==
    LET r == Last(handled[c])
    IN  /\ pc[c] = "answering"
        /\ IF r.addr = Address
             THEN /\ answers' = [answers EXCEPT ![c] = Append(@, Answer(r))]
                  /\ Parse(c, parser[c])
             ELSE /\ pc' = [pc EXCEPT ![c] = Waiting(active)]
                  /\ UNCHANGED <<parser, handled, answers>>
        /\ UNCHANGED <<sent, coming, active, reboot>>
-----------------------------------------------------------------------------
(* !RR on the management port sets reboot_signal, which nobody resets: the *)
(* databus notifies its observer of the first restart only.                *)
RequestRestart ==
    /\ restarts < MaxRestarts
    /\ restarts' = restarts + 1
    /\ signal' = 1
    /\ UNCHANGED <<conn, active, notified, reboots>>

(* The greenlet of notify_observers calls reboot.                          *)
Reboot ==
    /\ signal = 1 /\ ~notified
    /\ notified' = TRUE
    /\ active' = FALSE
    /\ reboots' = reboots + 1
    /\ UNCHANGED <<conn, signal, restarts>>

(* Mutant of SetRebootDone: the server stays inactive.                     *)
SetRebootDoneInactive ==
    /\ reboots > 0
    /\ reboots' = reboots - 1
    /\ UNCHANGED <<conn, active, signal, notified, restarts>>

(* Two seconds later.                                                      *)
SetRebootDone ==
    /\ reboots > 0
    /\ reboots' = reboots - 1
    /\ active' = TRUE
    /\ UNCHANGED <<conn, signal, notified, restarts>>
-----------------------------------------------------------------------------
Next ==
    \/ \E c \in Conns :
          \/ \E s \in Streams : Connect(c, s)
          \/ \E n \in DOMAIN coming[c] : Receive(c, n)
          \/ Respond(c)
          \/ Disconnect(c)
    \/ RequestRestart
    \/ Reboot
    \/ SetRebootDone

Spec == Init /\ [][Next]_vars
-----------------------------------------------------------------------------
(* However a stream is cut into chunks, get_request returns the requests   *)
(* of the client, unchanged, each once and in the order they were sent,    *)
(* and the k-th of those for this meter gets the k-th answer, with the     *)
(* registers it asked for.                                                 *)
Own(c, i) == {j \in 1..i : sent[c].requests[j].addr = Address}

HandledAsSent ==
    \A c \in Conns :
        /\ IsPrefix(handled[c], sent[c].requests)
        /\ Len(answers[c]) <= Cardinality(Own(c, Len(sent[c].requests)))
        /\ \A i \in Own(c, Len(sent[c].requests)) :
              LET k == Cardinality(Own(c, i))
              IN  k <= Len(answers[c]) => answers[c][k] = Answer(sent[c].requests[i])

(* test_kamstrup_meter_protocol.py:45, byte by byte: "parser returns None  *)
(* until it can put together an entire message".  When the greenlet waits  *)
(* for more it has handled every request that has arrived entirely, unless *)
(* the last one was for another meter, and no request makes it fail.       *)
Complete(c) ==
    Cardinality({i \in DOMAIN sent[c].requests : Len(coming[c]) <= After(sent[c], i)})

NothingLeft ==
    \A c \in Conns : pc[c] \in {"recv", "raised"} =>
        \/ Len(handled[c]) = Complete(c)
        \/ handled[c] # <<>> /\ Last(handled[c]).addr # Address

(* What the two are about, since get_request scans again what it has       *)
(* unescaped: nothing in the noise begins a request, and no byte of the    *)
(* requests needs an escape unless they arrive whole.                      *)
Fits(s) ==
    /\ \A i \in DOMAIN s.noise : s.noise[i] # Magic
    /\ \/ s.whole
       \/ \A r \in ToSet(s.requests) : \A i \in DOMAIN Body(r) : Body(r)[i] \notin NeedEscape

(* The server hangs up on nobody but in the two seconds after a restart,   *)
(* whatever connects and is answered meanwhile.                            *)
HangsUp(c) == pc'[c] = "closed" /\ pc[c] # "closed" /\ ~Disconnect(c)

HangsUpRebootingOnly == [][\A c \in Conns : HangsUp(c) => reboots > 0]_vars
=============================================================================
