-------------------------------- MODULE IPMI --------------------------------
(***************************************************************************)
(* The IPMI server: protocols/ipmi/ipmi_server.py, fakesession.py and      *)
(* fakebmc.py.  Every datagram is handled without a wait in between.  The  *)
(* server remembers which addresses it has heard from, but works with one  *)
(* session, the newest, and with one set of handshake values for all.      *)
(*                                                                         *)
(* Nonces stand for what os.urandom returns; Rc, which is new in every     *)
(* rakp1, stands for all that the hash of a handshake covers, so that      *)
(* the key of a session is a pair of kg and Rc.  A client may know any     *)
(* nonce that was sent: datagrams are delayed and duplicated.              *)
(***************************************************************************)
EXTENDS Integers, Sequences, FiniteSets

CONSTANTS Clients,    \* addresses of clients
          Names,      \* names a user may have
          Passwords,  \* passwords a user may have
          Users,      \* the configured users, in their order
          NoOne,      \* an attribute that is not set, and no session
          MaxNonces,  \* bound on open requests and on rakp1
          MaxCommands \* bound on commands that change something

VARIABLES known,       \* addresses in self.sessions
          current,     \* self.session
          shake,       \* the handshake values of the server
          clientpriv,
          authdata, privdata, channelaccessdata, \* ordered dictionaries
          activeusers,
          powerstate,  \* of the BMC
          nonce, commands,
          began        \* was rakp1 received in the current session?

users == <<authdata, privdata, channelaccessdata, activeusers>>
vars == <<known, current, shake, clientpriv, users, powerstate,
          nonce, commands, began>>

\* A user in the configuration.
Accounts == [name : Names, password : Passwords, priv : Nat, active : {0, 1}]

Keys(dict) == [i \in DOMAIN dict |-> dict[i][1]]
HasKey(dict, k) == \E i \in DOMAIN dict : dict[i][1] = k
At(dict, k) == dict[CHOOSE i \in DOMAIN dict : dict[i][1] = k][2]

\* What a loop over the old dictionary makes of it: user u gets the name n.
\* A dictionary has a name once, so that u and a user j with that name become
\* one, in the first of their places with the value of the second.
Renamed(dict, u, n) ==
    LET same == {j \in DOMAIN dict \ {u} : dict[j][1] = n}
        j == CHOOSE k \in same : TRUE
        first == IF u < j THEN u ELSE j
        second == IF u < j THEN j ELSE u
    IN  IF same = {} THEN [dict EXCEPT ![u] = <<n, dict[u][2]>>]
        ELSE [i \in 1..(Len(dict) - 1) |->
                CASE i = first -> <<n, dict[second][2]>>
                  [] i # first /\ i < second -> dict[i]
                  [] OTHER -> dict[i + 1]]

NewSession(c) ==
    [owner |-> c, stage |-> 0, version2 |-> FALSE, k1 |-> NoOne,
     localsid |-> 0, seq |-> 0, handles |-> FALSE]

\* What sending a response, in whatever frame, does to the session.
Answered(session) == [session EXCEPT !.stage = 1]

NoShake == [msid |-> 0, rc |-> 0, kuid |-> NoOne, kg |-> NoOne, maxpriv |-> 0]

Init ==
    /\ known = {} /\ current = NoOne
    /\ shake = NoShake /\ clientpriv = 0
    /\ authdata = [i \in DOMAIN Users |-> <<Users[i].name, Users[i].password>>]
    /\ privdata = [i \in DOMAIN Users |-> <<Users[i].name, Users[i].priv>>]
    /\ channelaccessdata = [i \in DOMAIN Users |-> <<Users[i].name, Users[i].active>>]
    /\ activeusers = [i \in DOMAIN Users |-> Users[i].active]
    /\ powerstate = "off"
    /\ nonce = 0 /\ commands = 0 /\ began = FALSE

TypeOK ==
    /\ known \subseteq Clients
    /\ current # NoOne =>
         /\ current.owner \in Clients /\ current.stage \in {0, 1}
         /\ current.k1 = NoOne \/ current.k1 \in Passwords \X (1..MaxNonces)
    /\ shake.kuid \in Passwords \cup {NoOne} /\ shake.kg \in Passwords \cup {NoOne}
    /\ clientpriv \in 0..4 /\ nonce \in 0..MaxNonces
    /\ Len(authdata) \in {Len(Users)} \cup 1..Len(Users)

----------------------------------------------------------------------------
\* close_server_session: the owner is forgotten, whoever sent the datagram.
CloseSession ==
    /\ known' = known \ {current.owner}
    /\ current' = NoOne

\* Mutant of NewSource: the key of an earlier handshake is kept.
NewSourceKeepsKey(c, packet) ==
    /\ c \notin known
    /\ IF packet = "refused"
       THEN known' = known /\ current' = NoOne
       ELSE /\ known' = known \cup {c}
            /\ current' = IF packet \in {"capabilities", "capabilities 2.0"}
                          THEN Answered([NewSession(c) EXCEPT
                                           !.version2 = (packet = "capabilities 2.0")])
                          ELSE NewSession(c)
    /\ began' = FALSE
    /\ UNCHANGED <<shake, clientpriv, users, powerstate, nonce, commands>>

\* The first datagram of an address: a request for the capabilities is
\* answered, anything refused closes the session, and an open request (which
\* pyghmi answers) or another request leaves it at stage 0.
NewSource(c, packet) ==
    /\ c \notin known
    /\ shake' = [shake EXCEPT !.kg = NoOne]
    /\ IF packet = "refused"
       THEN known' = known /\ current' = NoOne
       ELSE /\ known' = known \cup {c}
            /\ current' = IF packet \in {"capabilities", "capabilities 2.0"}
                          THEN Answered([NewSession(c) EXCEPT
                                           !.version2 = (packet = "capabilities 2.0")])
                          ELSE NewSession(c)
    /\ began' = FALSE
    /\ UNCHANGED <<clientpriv, users, powerstate, nonce, commands>>

\* A datagram of a known address that is not looked at: the session is at
\* stage 0 (closed) or gone (AttributeError).
Unread(c) ==
    /\ c \in known /\ current # NoOne /\ current.stage = 0
    /\ CloseSession
    /\ UNCHANGED <<shake, clientpriv, users, powerstate, nonce, commands, began>>

Reads(c) == c \in known /\ current # NoOne /\ current.stage > 0

\* A datagram that _got_request, _ipmi20 or a handshake handler refuses.
Refused(c) ==
    /\ Reads(c)
    /\ CloseSession
    /\ UNCHANGED <<shake, clientpriv, users, powerstate, nonce, commands, began>>

OpenRequest(c) ==
    /\ Reads(c) /\ nonce < MaxNonces
    /\ nonce' = nonce + 1
    /\ shake' = [shake EXCEPT !.msid = nonce + 1]
    /\ current' = Answered([current EXCEPT !.version2 = TRUE])
    /\ UNCHANGED <<known, clientpriv, users, powerstate, commands, began>>

\* rakp1 of a user that is in authdata.  Before any open request there is no
\* clientsessionid: the handler has set Rc when it raises.
Rakp1(c, name, max) ==
    /\ Reads(c) /\ HasKey(authdata, name) /\ nonce < MaxNonces
    /\ nonce' = nonce + 1
    /\ shake' = IF shake.msid = 0
                THEN [shake EXCEPT !.rc = nonce + 1, !.maxpriv = max]
                ELSE [shake EXCEPT !.rc = nonce + 1, !.maxpriv = max,
                                   !.kuid = At(authdata, name),
                                   !.kg = IF @ = NoOne THEN At(authdata, name) ELSE @]
    /\ current' = [current EXCEPT !.version2 = TRUE]
    /\ began' = (began \/ shake.msid # 0)
    /\ UNCHANGED <<known, clientpriv, users, powerstate, commands>>

\* rakp3 with the hash that a client who knows password makes of rc.  Without
\* rakp1, kg is None and the handler raises.
Rakp3(c, password, rc) ==
    /\ Reads(c) /\ shake.kg # NoOne
    /\ IF password = shake.kuid /\ rc = shake.rc
       THEN /\ current' = Answered([current EXCEPT
                             !.version2 = TRUE, !.k1 = <<shake.kg, shake.rc>>,
                             !.localsid = shake.msid, !.handles = TRUE])
            /\ known' = known
       ELSE CloseSession
    /\ UNCHANGED <<shake, clientpriv, users, powerstate, nonce, commands, began>>

----------------------------------------------------------------------------
\* The checks of _ipmi20 on a message: hash, session and sequence number.
Accepted(key, sid, seq) ==
    /\ current.k1 # NoOne
    /\ key = current.k1
    /\ sid = current.localsid
    /\ seq >= current.seq

\* Mutant of Rename: the rights stay under the old name.
RenameAccount(cmd) ==
    /\ authdata' = Renamed(authdata, cmd.user, cmd.name)
    /\ UNCHANGED <<privdata, channelaccessdata>>

Rename(cmd) ==
    /\ authdata' = Renamed(authdata, cmd.user, cmd.name)
    /\ privdata' = Renamed(privdata, cmd.user, cmd.name)
    /\ channelaccessdata' = Renamed(channelaccessdata, cmd.user, cmd.name)

Run(cmd) ==
    \/ /\ cmd.op = "privilege"
       /\ clientpriv' = IF cmd.level > 1 /\ cmd.level <= shake.maxpriv
                        THEN cmd.level ELSE clientpriv
       /\ UNCHANGED <<known, users, powerstate>>
    \/ /\ cmd.op = "rename" /\ cmd.user \in DOMAIN authdata
       /\ Rename(cmd)
       /\ UNCHANGED <<known, clientpriv, activeusers, powerstate>>
    \/ /\ cmd.op = "password" /\ cmd.user \in DOMAIN authdata
       /\ authdata' = [authdata EXCEPT ![cmd.user] = <<@[1], cmd.password>>]
       /\ UNCHANGED <<known, clientpriv, privdata, channelaccessdata,
                      activeusers, powerstate>>
    \/ /\ cmd.op = "enable" /\ cmd.user \in DOMAIN authdata
       /\ activeusers' = [activeusers EXCEPT ![cmd.user] = cmd.on]
       /\ UNCHANGED <<known, clientpriv, authdata, privdata,
                      channelaccessdata, powerstate>>
    \/ /\ cmd.op = "power"
       /\ powerstate' = IF cmd.how = "on" \/ (cmd.how = "cycle" /\ powerstate = "off")
                        THEN "on" ELSE "off"
       /\ UNCHANGED <<known, clientpriv, users>>

Commands ==
    [op : {"privilege"}, level : {1, 3, 4}]
    \cup [op : {"rename"}, user : DOMAIN Users, name : Names]
    \cup [op : {"password"}, user : DOMAIN Users, password : Passwords]
    \cup [op : {"enable"}, user : DOMAIN Users, on : {0, 1}]
    \cup [op : {"power"}, how : {"on", "off", "cycle"}]

\* What handle_client_request does; reading commands change nothing, and
\* neither does one that raises.  Before rakp3 nothing is done.
Dispatch ==
    \/ UNCHANGED <<known, clientpriv, users, powerstate, commands>>
    \/ /\ current.handles /\ commands < MaxCommands
       /\ \E cmd \in Commands : Run(cmd)
       /\ commands' = commands + 1

Message(c, key, sid, seq) ==
    /\ Reads(c) /\ Accepted(key, sid, seq)
    /\ \/ /\ Dispatch
          /\ current' = Answered([current EXCEPT !.seq = seq, !.version2 = TRUE])
       \/ /\ current.handles \* the command to close the session
          /\ CloseSession
          /\ UNCHANGED <<clientpriv, users, powerstate, commands>>
    /\ UNCHANGED <<shake, nonce, began>>

\* A message of IPMI 1.5, without a hash: only a session that has seen no
\* message of 2.0 takes it.
Message15(c) ==
    /\ Reads(c)
    /\ IF current.version2
       THEN CloseSession /\ UNCHANGED <<clientpriv, users, powerstate, commands>>
       ELSE Dispatch /\ current' = current
    /\ UNCHANGED <<shake, nonce, began>>

----------------------------------------------------------------------------
Issued == 1..nonce

Next ==
    \/ \E c \in Clients :
         \/ \E packet \in {"capabilities", "capabilities 2.0", "open", "refused"} : NewSource(c, packet)
         \/ Unread(c)
         \/ Refused(c)
         \/ Message15(c)
         \/ OpenRequest(c)
         \/ \E name \in Names, max \in {2, 4} : Rakp1(c, name, max)
         \/ \E password \in Passwords, rc \in Issued : Rakp3(c, password, rc)
         \/ \E key \in Passwords \X Issued, sid \in 0..nonce, seq \in {0, 1} :
              Message(c, key, sid, seq)

Spec == Init /\ [][Next]_vars

\* A command only runs in a session that has itself begun a handshake, and
\* whose key belongs to the newest rakp1 or to an earlier one of its own:
\* nothing of the server-wide values of other sessions gives access.
CommandsFollowHandshake ==
    [][commands' # commands => began /\ current.handles /\ current.version2]_vars

\* close_server_session finds its session in the table, so it never raises.
OpenSessionIsKnown == current # NoOne => current.owner \in known

\* The three dictionaries of users keep the same names in the same order,
\* and every user has a place in activeusers, though users are found by
\* position and names may be overwritten.
UsersInStep ==
    /\ Keys(privdata) = Keys(authdata)
    /\ Keys(channelaccessdata) = Keys(authdata)
    /\ Len(authdata) <= Len(activeusers)

\* The tables of the server agree: closing a session finds it, and a user has
\* one name in all of them (ipmi_server.py:181-187, 364-392).
TablesAgree == OpenSessionIsKnown /\ UsersInStep
=============================================================================
