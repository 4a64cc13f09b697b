----------------------------- MODULE IPMIProofs -----------------------------
(***************************************************************************)
(* The IPMI server: its tables of sessions and users agree, and a command  *)
(* runs only in a session that has begun a handshake of its own.           *)
(***************************************************************************)
EXTENDS Templates, SequenceTheorems, TLAPS

LEMMA IpmiSteps == Next => Ipmi!Next \/ UNCHANGED ipmi
  BY DEF Next, Only, ipmi

----------------------------------------------------------------------------
(***************************************************************************)
(* Users.  A renamed user may take the name of another; both of them then  *)
(* become one in each of the dictionaries, in the same place.              *)
(***************************************************************************)
\* Ordered dictionaries of users.
Dicts(V) == Seq(Names \X V)

Others(dict, u, n) == {j \in DOMAIN dict \ {u} : dict[j][1] = n}

Merged(dict, n, first, second) ==
    [i \in 1..(Len(dict) - 1) |->
       CASE i = first -> <<n, dict[second][2]>>
         [] i # first /\ i < second -> dict[i]
         [] OTHER -> dict[i + 1]]

LEMMA RenamedIs ==
  ASSUME NEW dict, NEW u, NEW n
  PROVE  Ipmi!Renamed(dict, u, n) =
           LET j == CHOOSE k \in Others(dict, u, n) : TRUE
           IN  IF Others(dict, u, n) = {} THEN [dict EXCEPT ![u] = <<n, dict[u][2]>>]
               ELSE Merged(dict, n, IF u < j THEN u ELSE j, IF u < j THEN j ELSE u)
  BY DEF Ipmi!Renamed, Others, Merged

LEMMA SeqOf ==
  ASSUME NEW S, NEW n \in Nat, NEW f \in [1..n -> S]
  PROVE  f \in Seq(S) /\ Len(f) = n
<1>1. f \in Seq(S)
  BY SeqDef
<1> QED
  BY <1>1, LenProperties

LEMMA MergedDicts ==
  ASSUME NEW V, NEW dict \in Dicts(V), NEW n \in Names,
         NEW first \in 1..Len(dict), NEW second \in 1..Len(dict), first < second
  PROVE  /\ Merged(dict, n, first, second) \in Dicts(V)
         /\ Len(Merged(dict, n, first, second)) = Len(dict) - 1
         /\ \A i \in 1..(Len(dict) - 1) :
              Merged(dict, n, first, second)[i][1] =
                IF i = first THEN n ELSE IF i < second THEN dict[i][1] ELSE dict[i + 1][1]
<1>1. Len(dict) \in Nat /\ \A i \in 1..Len(dict) : dict[i] \in Names \X V
  BY LenProperties, ElementOfSeq DEF Dicts
<1>2. Len(dict) - 1 \in Nat
  BY <1>1
<1>3. <<n, dict[second][2]>> \in Names \X V
  BY <1>1
<1>4. Merged(dict, n, first, second) \in [1..(Len(dict) - 1) -> Names \X V]
  <2>1. ASSUME NEW i \in 1..(Len(dict) - 1)
        PROVE  i \in 1..Len(dict) /\ i + 1 \in 1..Len(dict)
    BY <1>1
  <2> QED
    BY <1>1, <1>3, <2>1 DEF Merged
<1> QED
  BY <1>2, <1>4, SeqOf DEF Merged, Dicts

LEMMA SameKeys ==
  ASSUME NEW V, NEW W, NEW a \in Dicts(V), NEW b \in Dicts(W),
         Ipmi!Keys(a) = Ipmi!Keys(b)
  PROVE  /\ Len(a) \in Nat /\ DOMAIN a = 1..Len(a)
         /\ Len(b) = Len(a) /\ DOMAIN b = 1..Len(a)
         /\ \A i \in 1..Len(a) :
              /\ a[i] \in Names \X V /\ b[i] \in Names \X W
              /\ a[i][1] = b[i][1]
<1>1. DOMAIN a = DOMAIN b /\ \A i \in DOMAIN a : a[i][1] = b[i][1]
  BY DEF Ipmi!Keys
<1>2. /\ Len(a) \in Nat /\ DOMAIN a = 1..Len(a)
      /\ Len(b) \in Nat /\ DOMAIN b = 1..Len(b)
  BY LenProperties DEF Dicts
<1>3. Len(a) = Len(b)
  <2> DEFINE m == Len(a)
             n == Len(b)
  <2>1. m \in Nat /\ n \in Nat /\ 1..m = 1..n
    BY <1>1, <1>2
  <2> HIDE DEF m, n
  <2>2. m > 0 => m \in 1..m
    BY <2>1
  <2>3. n > 0 => n \in 1..n
    BY <2>1
  <2>4. m > 0 => m \in 1..n
    BY <2>1, <2>2
  <2>5. n > 0 => n \in 1..m
    BY <2>1, <2>3
  <2>6. m = n
    BY <2>1, <2>4, <2>5
  <2> QED
    BY <2>6 DEF m, n
<1>4. \A i \in 1..Len(a) : a[i] \in Names \X V
  BY <1>2, ElementOfSeq DEF Dicts
<1>5. \A i \in 1..Len(b) : b[i] \in Names \X W
  BY <1>2, ElementOfSeq DEF Dicts
<1> QED
  BY <1>1, <1>2, <1>3, <1>4, <1>5

LEMMA MergedKeys ==
  ASSUME NEW V, NEW W, NEW a \in Dicts(V), NEW b \in Dicts(W),
         Ipmi!Keys(a) = Ipmi!Keys(b), NEW n \in Names,
         NEW first \in 1..Len(a), NEW second \in 1..Len(a), first < second
  PROVE  /\ Merged(a, n, first, second) \in Dicts(V)
         /\ Merged(b, n, first, second) \in Dicts(W)
         /\ Ipmi!Keys(Merged(a, n, first, second)) = Ipmi!Keys(Merged(b, n, first, second))
         /\ Len(Merged(a, n, first, second)) = Len(a) - 1
<1>1. /\ Len(a) \in Nat /\ Len(b) = Len(a)
      /\ \A i \in 1..Len(a) : a[i][1] = b[i][1]
  BY SameKeys
<1> DEFINE c == Merged(a, n, first, second)
           d == Merged(b, n, first, second)
<1>2. /\ c \in Dicts(V) /\ Len(c) = Len(a) - 1
      /\ \A i \in 1..(Len(a) - 1) :
           c[i][1] = IF i = first THEN n ELSE IF i < second THEN a[i][1] ELSE a[i + 1][1]
  BY MergedDicts
<1>3. first \in 1..Len(b) /\ second \in 1..Len(b)
  BY <1>1
<1>4. /\ d \in Dicts(W) /\ Len(d) = Len(b) - 1
      /\ \A i \in 1..(Len(b) - 1) :
           d[i][1] = IF i = first THEN n ELSE IF i < second THEN b[i][1] ELSE b[i + 1][1]
  BY <1>3, MergedDicts
<1> HIDE DEF c, d
<1>5. DOMAIN c = 1..(Len(a) - 1) /\ DOMAIN d = 1..(Len(a) - 1)
  BY <1>1, <1>2, <1>4, LenProperties DEF Dicts
<1>6. ASSUME NEW i \in 1..(Len(a) - 1)
      PROVE  c[i][1] = d[i][1]
  <2>1. i \in 1..Len(a) /\ i + 1 \in 1..Len(a)
    BY <1>1
  <2>2. a[i][1] = b[i][1] /\ a[i + 1][1] = b[i + 1][1]
    BY <1>1, <2>1
  <2>3. /\ c[i][1] = IF i = first THEN n ELSE IF i < second THEN a[i][1] ELSE a[i + 1][1]
        /\ d[i][1] = IF i = first THEN n ELSE IF i < second THEN b[i][1] ELSE b[i + 1][1]
    BY <1>1, <1>2, <1>4
  <2> QED
    BY <2>2, <2>3
<1>7. Ipmi!Keys(c) = Ipmi!Keys(d)
  BY <1>5, <1>6 DEF Ipmi!Keys
<1> QED
  BY <1>2, <1>4, <1>7 DEF c, d

\* Two users may become one, but never none.
AtMostOneLess(short, dict) ==
    \/ Len(short) = Len(dict)
    \/ Len(dict) > 1 /\ Len(short) = Len(dict) - 1

LEMMA RenamedDicts ==
  ASSUME NEW V, NEW W, NEW a \in Dicts(V), NEW b \in Dicts(W),
         Ipmi!Keys(a) = Ipmi!Keys(b), NEW u \in DOMAIN a, NEW n \in Names
  PROVE  /\ Ipmi!Renamed(a, u, n) \in Dicts(V)
         /\ Ipmi!Renamed(b, u, n) \in Dicts(W)
         /\ Ipmi!Keys(Ipmi!Renamed(a, u, n)) = Ipmi!Keys(Ipmi!Renamed(b, u, n))
         /\ AtMostOneLess(Ipmi!Renamed(a, u, n), a)
<1>1. /\ Len(a) \in Nat /\ DOMAIN a = 1..Len(a)
      /\ Len(b) = Len(a) /\ DOMAIN b = 1..Len(a)
      /\ \A i \in 1..Len(a) : a[i] \in Names \X V /\ b[i] \in Names \X W /\ a[i][1] = b[i][1]
  BY SameKeys
<1>2. Others(a, u, n) = Others(b, u, n) /\ Others(a, u, n) \subseteq 1..Len(a)
  BY <1>1 DEF Others
<1>3. CASE Others(a, u, n) = {}
  <2>1. /\ Ipmi!Renamed(a, u, n) = [a EXCEPT ![u] = <<n, a[u][2]>>]
        /\ Ipmi!Renamed(b, u, n) = [b EXCEPT ![u] = <<n, b[u][2]>>]
    BY <1>2, <1>3, RenamedIs
  <2>2. <<n, a[u][2]>> \in Names \X V /\ <<n, b[u][2]>> \in Names \X W
    BY <1>1
  <2> DEFINE c == [a EXCEPT ![u] = <<n, a[u][2]>>]
             d == [b EXCEPT ![u] = <<n, b[u][2]>>]
  <2>3. /\ c \in Dicts(V) /\ Len(c) = Len(a) /\ DOMAIN c = 1..Len(a)
        /\ \A i \in 1..Len(a) : c[i] = IF i = u THEN <<n, a[u][2]>> ELSE a[i]
    BY <1>1, <2>2, ExceptSeq, LenProperties DEF Dicts
  <2>4. /\ d \in Dicts(W) /\ Len(d) = Len(a) /\ DOMAIN d = 1..Len(a)
        /\ \A i \in 1..Len(a) : d[i] = IF i = u THEN <<n, b[u][2]>> ELSE b[i]
    BY <1>1, <2>2, ExceptSeq, LenProperties DEF Dicts
  <2> HIDE DEF c, d
  <2>5. \A i \in 1..Len(a) : c[i][1] = d[i][1]
    BY <1>1, <2>3, <2>4
  <2>6. Ipmi!Keys(c) = Ipmi!Keys(d)
    BY <2>3, <2>4, <2>5 DEF Ipmi!Keys
  <2> QED
    BY <1>1, <2>1, <2>3, <2>4, <2>6 DEF c, d, AtMostOneLess
<1>4. CASE Others(a, u, n) # {}
  <2> DEFINE j == CHOOSE k \in Others(a, u, n) : TRUE
             first == IF u < j THEN u ELSE j
             second == IF u < j THEN j ELSE u
  <2>1. j \in 1..Len(a) /\ j # u
    BY <1>2, <1>4 DEF Others
  <2>2. first \in 1..Len(a) /\ second \in 1..Len(a) /\ first < second
    BY <1>1, <2>1
  <2>3. /\ Ipmi!Renamed(a, u, n) = Merged(a, n, first, second)
        /\ Ipmi!Renamed(b, u, n) = Merged(b, n, first, second)
    BY <1>2, <1>4, RenamedIs
  <2> HIDE DEF j, first, second
  <2>4. /\ Merged(a, n, first, second) \in Dicts(V)
        /\ Merged(b, n, first, second) \in Dicts(W)
        /\ Ipmi!Keys(Merged(a, n, first, second)) = Ipmi!Keys(Merged(b, n, first, second))
        /\ Len(Merged(a, n, first, second)) = Len(a) - 1
    BY <2>2, MergedKeys
  <2>5. Len(a) > 1
    BY <1>1, <2>2
  <2> QED
    BY <2>3, <2>4, <2>5 DEF AtMostOneLess
<1> QED
  BY <1>3, <1>4

----------------------------------------------------------------------------
AccountsAreTyped ==
    /\ authdata \in Dicts(Passwords)
    /\ privdata \in Dicts(Nat)
    /\ channelaccessdata \in Dicts({0, 1})
    /\ activeusers \in Seq({0, 1})

\* Renaming leaves a user.
UsersAreLeft == Len(authdata) \in {Len(Users)} \cup 1..Len(Users)

AccountsInv == AccountsAreTyped /\ Ipmi!UsersInStep /\ UsersAreLeft

LEMMA CommandFields ==
  ASSUME NEW cmd \in Ipmi!Commands
  PROVE  /\ cmd.op = "rename" => cmd.name \in Names
         /\ cmd.op = "password" => cmd.password \in Passwords
         /\ cmd.op = "enable" => cmd.on \in {0, 1}
  BY DEF Ipmi!Commands

LEMMA AccountsAtStart == Init => AccountsInv
<1> SUFFICES ASSUME Ipmi!Init PROVE AccountsInv
  BY DEF Init
<1> USE DEF Ipmi!Init
<1>1. /\ Len(Users) \in Nat /\ DOMAIN Users = 1..Len(Users)
      /\ \A i \in 1..Len(Users) : Users[i] \in Ipmi!Accounts
  BY IpmiAssumption, LenProperties, ElementOfSeq
<1>2. \A i \in 1..Len(Users) :
        /\ Users[i].name \in Names /\ Users[i].password \in Passwords
        /\ Users[i].priv \in Nat /\ Users[i].active \in {0, 1}
  BY <1>1 DEF Ipmi!Accounts
<1>3. /\ authdata \in [1..Len(Users) -> Names \X Passwords]
      /\ privdata \in [1..Len(Users) -> Names \X Nat]
      /\ channelaccessdata \in [1..Len(Users) -> Names \X {0, 1}]
      /\ activeusers \in [1..Len(Users) -> {0, 1}]
  BY <1>1, <1>2
<1>4. /\ AccountsAreTyped
      /\ Len(authdata) = Len(Users) /\ Len(activeusers) = Len(Users)
  BY <1>1, <1>3, SeqOf DEF AccountsAreTyped, Dicts
<1>5. /\ Ipmi!Keys(privdata) = Ipmi!Keys(authdata)
      /\ Ipmi!Keys(channelaccessdata) = Ipmi!Keys(authdata)
  BY <1>1 DEF Ipmi!Keys
<1> QED
  BY <1>1, <1>4, <1>5 DEF AccountsInv, Ipmi!UsersInStep, UsersAreLeft

LEMMA PasswordChanged ==
  ASSUME AccountsInv, NEW u \in DOMAIN authdata, NEW p \in Passwords,
         authdata' = [authdata EXCEPT ![u] = <<@[1], p>>],
         UNCHANGED <<privdata, channelaccessdata, activeusers>>
  PROVE  AccountsInv'
<1>1. /\ Len(authdata) \in Nat /\ DOMAIN authdata = 1..Len(authdata)
      /\ \A i \in 1..Len(authdata) : authdata[i] \in Names \X Passwords
  BY LenProperties, ElementOfSeq DEF AccountsInv, AccountsAreTyped, Dicts
<1>2. <<authdata[u][1], p>> \in Names \X Passwords
  BY <1>1
<1>3. authdata' \in Dicts(Passwords) /\ Len(authdata') = Len(authdata)
  BY <1>1, <1>2, ExceptSeq DEF AccountsInv, AccountsAreTyped, Dicts
<1>4. Ipmi!Keys(authdata)' = Ipmi!Keys(authdata)
  BY <1>1 DEF Ipmi!Keys
<1> QED
  BY <1>3, <1>4 DEF AccountsInv, AccountsAreTyped, Ipmi!UsersInStep, UsersAreLeft, Ipmi!Keys

LEMMA UserEnabled ==
  ASSUME AccountsInv, NEW u \in DOMAIN authdata, NEW on \in {0, 1},
         activeusers' = [activeusers EXCEPT ![u] = on],
         UNCHANGED <<authdata, privdata, channelaccessdata>>
  PROVE  AccountsInv'
<1>1. /\ DOMAIN authdata = 1..Len(authdata) /\ Len(authdata) \in Nat
      /\ Len(activeusers) \in Nat /\ Len(authdata) <= Len(activeusers)
  BY LenProperties DEF AccountsInv, AccountsAreTyped, Ipmi!UsersInStep, Dicts
<1>2. u \in 1..Len(activeusers)
  BY <1>1
<1>3. activeusers' \in Seq({0, 1}) /\ Len(activeusers') = Len(activeusers)
  BY <1>2, ExceptSeq DEF AccountsInv, AccountsAreTyped
<1> QED
  BY <1>3 DEF AccountsInv, AccountsAreTyped, Ipmi!UsersInStep, UsersAreLeft, Ipmi!Keys

LEMMA UserRenamed ==
  ASSUME AccountsInv, NEW cmd, cmd.user \in DOMAIN authdata, cmd.name \in Names,
         Ipmi!Rename(cmd), activeusers' = activeusers
  PROVE  AccountsInv'
<1> DEFINE u == cmd.user
           n == cmd.name
<1>1. /\ authdata \in Dicts(Passwords) /\ privdata \in Dicts(Nat)
      /\ channelaccessdata \in Dicts({0, 1})
      /\ activeusers \in Seq({0, 1})
      /\ Ipmi!Keys(authdata) = Ipmi!Keys(privdata)
      /\ Ipmi!Keys(authdata) = Ipmi!Keys(channelaccessdata)
      /\ Len(authdata) <= Len(activeusers)
      /\ Len(authdata) \in {Len(Users)} \cup 1..Len(Users)
  BY DEF AccountsInv, AccountsAreTyped, Ipmi!UsersInStep, UsersAreLeft
<1>2. u \in DOMAIN authdata /\ n \in Names
  OBVIOUS
<1>3. /\ authdata' = Ipmi!Renamed(authdata, u, n)
      /\ privdata' = Ipmi!Renamed(privdata, u, n)
      /\ channelaccessdata' = Ipmi!Renamed(channelaccessdata, u, n)
  BY DEF Ipmi!Rename
<1> HIDE DEF u, n
<1>4. /\ authdata' \in Dicts(Passwords) /\ privdata' \in Dicts(Nat)
      /\ Ipmi!Keys(authdata') = Ipmi!Keys(privdata')
      /\ AtMostOneLess(authdata', authdata)
  <2>1. /\ Ipmi!Renamed(authdata, u, n) \in Dicts(Passwords)
        /\ Ipmi!Renamed(privdata, u, n) \in Dicts(Nat)
        /\ Ipmi!Keys(Ipmi!Renamed(authdata, u, n)) = Ipmi!Keys(Ipmi!Renamed(privdata, u, n))
        /\ AtMostOneLess(Ipmi!Renamed(authdata, u, n), authdata)
    BY <1>1, <1>2, RenamedDicts
  <2> QED
    BY <1>3, <2>1
<1>5. /\ channelaccessdata' \in Dicts({0, 1})
      /\ Ipmi!Keys(authdata') = Ipmi!Keys(channelaccessdata')
  BY <1>1, <1>2, <1>3, RenamedDicts
<1>6. /\ Len(authdata) \in Nat /\ Len(authdata') \in Nat /\ Len(activeusers) \in Nat
  BY <1>1, <1>4, LenProperties DEF Dicts
<1>7. Len(authdata') <= Len(activeusers')
  BY <1>1, <1>4, <1>6 DEF AtMostOneLess
<1>8. Len(authdata') \in {Len(Users)} \cup 1..Len(Users)
  <2>1. Len(Users) \in Nat
    BY IpmiAssumption, LenProperties
  <2> QED
    BY <1>1, <1>4, <1>6, <2>1 DEF AtMostOneLess
<1> QED
  BY <1>1, <1>4, <1>5, <1>7, <1>8
     DEF AccountsInv, AccountsAreTyped, Ipmi!UsersInStep, UsersAreLeft, Ipmi!Keys

LEMMA AccountsSameUsers == AccountsInv /\ UNCHANGED Ipmi!users => AccountsInv'
  BY DEF AccountsInv, AccountsAreTyped, Ipmi!UsersInStep, UsersAreLeft, Ipmi!users, Ipmi!Keys

LEMMA AccountsRun ==
  ASSUME AccountsInv, NEW cmd \in Ipmi!Commands, Ipmi!Run(cmd)
  PROVE  AccountsInv'
<1>1. CASE cmd.op = "privilege" \/ cmd.op = "power"
  BY <1>1, AccountsSameUsers DEF Ipmi!Run, Ipmi!users
<1>2. CASE cmd.op = "rename"
  <2>1. cmd.name \in Names
    BY <1>2, CommandFields
  <2>2. /\ cmd.user \in DOMAIN authdata /\ Ipmi!Rename(cmd) /\ activeusers' = activeusers
    BY <1>2 DEF Ipmi!Run
  <2> QED
    BY <2>1, <2>2, UserRenamed
<1>3. CASE cmd.op = "password"
  <2>1. cmd.password \in Passwords
    BY <1>3, CommandFields
  <2>2. /\ cmd.user \in DOMAIN authdata
        /\ authdata' = [authdata EXCEPT ![cmd.user] = <<@[1], cmd.password>>]
        /\ UNCHANGED <<privdata, channelaccessdata, activeusers>>
    BY <1>3 DEF Ipmi!Run
  <2> QED
    BY <2>1, <2>2, PasswordChanged
<1>4. CASE cmd.op = "enable"
  <2>1. cmd.on \in {0, 1}
    BY <1>4, CommandFields
  <2>2. /\ cmd.user \in DOMAIN authdata
        /\ activeusers' = [activeusers EXCEPT ![cmd.user] = cmd.on]
        /\ UNCHANGED <<authdata, privdata, channelaccessdata>>
    BY <1>4 DEF Ipmi!Run
  <2> QED
    BY <2>1, <2>2, UserEnabled
<1> QED
  BY <1>1, <1>2, <1>3, <1>4 DEF Ipmi!Run

LEMMA AccountsDispatch == AccountsInv /\ Ipmi!Dispatch => AccountsInv'
  BY AccountsRun, AccountsSameUsers DEF Ipmi!Dispatch, Ipmi!users

----------------------------------------------------------------------------
(***************************************************************************)
(* The session.                                                            *)
(***************************************************************************)
SessionFields == {"owner", "stage", "version2", "k1", "localsid", "seq", "handles"}
ShakeFields == {"msid", "rc", "kuid", "kg", "maxpriv"}

SessionInv ==
    /\ DOMAIN shake = ShakeFields
    /\ current # NoOne => DOMAIN current = SessionFields
    /\ Ipmi!OpenSessionIsKnown

\* The key of the server is the key of a handshake that the session has begun.
HandshakeInv ==
    /\ shake.kg # NoOne => began
    /\ current # NoOne /\ current.handles => began /\ current.version2

LEMMA SessionAtStart == Init => SessionInv /\ HandshakeInv
<1> SUFFICES ASSUME Ipmi!Init PROVE SessionInv /\ HandshakeInv
  BY DEF Init
<1> QED
  BY DEF Ipmi!Init, Ipmi!NoShake, SessionInv, HandshakeInv, Ipmi!OpenSessionIsKnown,
         ShakeFields

\* The session of a new source: nothing of earlier handshakes is left to it.
LEMMA NewSourceKeeps ==
  ASSUME SessionInv, HandshakeInv, NEW c \in Clients, NEW packet,
         Ipmi!NewSource(c, packet)
  PROVE  SessionInv' /\ HandshakeInv'
<1>1. /\ DOMAIN shake' = ShakeFields /\ shake'.kg = NoOne
  BY DEF Ipmi!NewSource, SessionInv, ShakeFields
<1>2. /\ DOMAIN Ipmi!NewSession(c) = SessionFields
      /\ Ipmi!NewSession(c).handles = FALSE
      /\ Ipmi!NewSession(c).owner = c
  BY DEF Ipmi!NewSession, SessionFields
<1>3. CASE packet = "refused"
  BY <1>1, <1>3 DEF Ipmi!NewSource, SessionInv, HandshakeInv, Ipmi!OpenSessionIsKnown
<1>4. CASE packet \in {"capabilities", "capabilities 2.0"}
  <2>1. /\ current' = [[Ipmi!NewSession(c) EXCEPT !.version2 = (packet = "capabilities 2.0")]
                        EXCEPT !.stage = 1]
        /\ known' = known \cup {c}
    BY <1>4 DEF Ipmi!NewSource, Ipmi!Answered
  <2> DEFINE second == [Ipmi!NewSession(c) EXCEPT !.version2 = (packet = "capabilities 2.0")]
  <2>2. DOMAIN second = SessionFields /\ second.handles = Ipmi!NewSession(c).handles /\ second.owner = c
    BY <1>2 DEF SessionFields
  <2> HIDE DEF second
  <2>3. /\ DOMAIN current' = SessionFields
        /\ current'.handles = second.handles /\ current'.owner = c
    BY <2>1, <2>2 DEF SessionFields, second
  <2>4. ~current'.handles
    BY <1>2, <2>2, <2>3, Zenon
  <2>5. current'.owner = c /\ DOMAIN current' = SessionFields
    BY <2>3
  <2>6. SessionInv'
    BY <1>1, <2>1, <2>5 DEF SessionInv, Ipmi!OpenSessionIsKnown
  <2>7. HandshakeInv'
    BY <1>1, <2>4, Zenon DEF HandshakeInv
  <2> QED
    BY <2>6, <2>7
<1>5. CASE packet \notin {"capabilities", "capabilities 2.0", "refused"}
  <2>1. current' = Ipmi!NewSession(c) /\ known' = known \cup {c}
    BY <1>5 DEF Ipmi!NewSource
  <2>2. ~current'.handles
    BY <1>2, <2>1, Zenon
  <2> QED
    BY <1>1, <1>2, <2>1, <2>2 DEF SessionInv, HandshakeInv, Ipmi!OpenSessionIsKnown
<1> QED
  BY <1>3, <1>4, <1>5

LEMMA SessionClosed ==
  ASSUME SessionInv, HandshakeInv, Ipmi!CloseSession, shake' = shake, began' = began
  PROVE  SessionInv' /\ HandshakeInv'
<1>1. SessionInv'
  BY DEF Ipmi!CloseSession, SessionInv, Ipmi!OpenSessionIsKnown
<1>2. shake'.kg # NoOne => began'
  <2>1. shake.kg # NoOne => began
    BY Zenon DEF HandshakeInv
  <2> QED
    BY <2>1, Zenon
<1>3. current' = NoOne
  BY DEF Ipmi!CloseSession
<1> QED
  BY <1>1, <1>2, <1>3, Zenon DEF HandshakeInv

LEMMA OpenRequestKeeps ==
  ASSUME SessionInv, HandshakeInv, NEW c, Ipmi!OpenRequest(c)
  PROVE  SessionInv' /\ HandshakeInv'
<1>1. /\ current # NoOne /\ DOMAIN current = SessionFields /\ known' = known
      /\ began' = began
      /\ DOMAIN shake = ShakeFields
      /\ current' = [[current EXCEPT !.version2 = TRUE] EXCEPT !.stage = 1]
  BY DEF Ipmi!OpenRequest, Ipmi!Reads, Ipmi!Answered, SessionInv
<1>2. DOMAIN shake' = ShakeFields /\ shake'.kg = shake.kg
  BY <1>1 DEF Ipmi!OpenRequest, ShakeFields
<1>3. DOMAIN current' = SessionFields /\ current'.owner = current.owner
  BY <1>1 DEF SessionFields
<1>4. current'.version2 = TRUE /\ current'.handles = current.handles
  BY <1>1 DEF SessionFields
<1>5. SessionInv'
  BY <1>1, <1>2, <1>3 DEF SessionInv, Ipmi!OpenSessionIsKnown
<1>6. HandshakeInv'
  BY <1>1, <1>2, <1>4, Zenon DEF HandshakeInv
<1> QED
  BY <1>5, <1>6

LEMMA Rakp1Keeps ==
  ASSUME SessionInv, HandshakeInv, NEW c, NEW name, NEW max, Ipmi!Rakp1(c, name, max)
  PROVE  SessionInv' /\ HandshakeInv'
<1>1. /\ current # NoOne /\ DOMAIN current = SessionFields /\ known' = known
      /\ DOMAIN shake = ShakeFields
      /\ current' = [current EXCEPT !.version2 = TRUE]
  BY DEF Ipmi!Rakp1, Ipmi!Reads, SessionInv
<1>2. DOMAIN shake' = ShakeFields /\ (shake.msid = 0 => shake'.kg = shake.kg)
  BY <1>1 DEF Ipmi!Rakp1, ShakeFields
<1>3. began' <=> began \/ shake.msid # 0
  BY Zenon DEF Ipmi!Rakp1
<1>4. shake'.kg # NoOne => began'
  BY <1>2, <1>3, Zenon DEF HandshakeInv
<1>5. DOMAIN current' = SessionFields /\ current'.owner = current.owner
  BY <1>1 DEF SessionFields
<1>6. current'.version2 = TRUE /\ current'.handles = current.handles
  BY <1>1 DEF SessionFields
<1>7. current'.handles => began'
  BY <1>1, <1>3, <1>6, Zenon DEF HandshakeInv
<1>8. SessionInv'
  BY <1>1, <1>2, <1>5 DEF SessionInv, Ipmi!OpenSessionIsKnown
<1>9. HandshakeInv'
  BY <1>4, <1>6, <1>7, Zenon DEF HandshakeInv
<1> QED
  BY <1>8, <1>9

\* The key is there, so a handshake was begun, in this session.
LEMMA Rakp3Keeps ==
  ASSUME SessionInv, HandshakeInv, NEW c, NEW password, NEW rc,
         Ipmi!Rakp3(c, password, rc)
  PROVE  SessionInv' /\ HandshakeInv'
<1>1. /\ current # NoOne /\ DOMAIN current = SessionFields
      /\ shake.kg # NoOne /\ shake' = shake /\ began' = began
  BY DEF Ipmi!Rakp3, Ipmi!Reads, SessionInv
<1>2. CASE Ipmi!CloseSession
  BY <1>1, <1>2, SessionClosed
<1>3. CASE password = shake.kuid /\ rc = shake.rc
  <2>1. /\ known' = known
        /\ current' = [[current EXCEPT !.version2 = TRUE, !.k1 = <<shake.kg, shake.rc>>,
                                       !.localsid = shake.msid, !.handles = TRUE]
                        EXCEPT !.stage = 1]
    BY <1>3 DEF Ipmi!Rakp3, Ipmi!Answered
  <2>2. DOMAIN current' = SessionFields /\ current'.owner = current.owner
    BY <1>1, <2>1 DEF SessionFields
  <2>3. current'.version2 = TRUE
    BY <1>1, <2>1 DEF SessionFields
  <2>4. began /\ began'
    BY <1>1, Zenon DEF HandshakeInv
  <2>5. SessionInv'
    BY <1>1, <2>1, <2>2 DEF SessionInv, Ipmi!OpenSessionIsKnown
  <2>6. HandshakeInv'
    BY <2>3, <2>4, Zenon DEF HandshakeInv
  <2> QED
    BY <2>5, <2>6
<1> QED
  BY <1>2, <1>3 DEF Ipmi!Rakp3

\* A message changes at most the sequence number of the session.
LEMMA MessageKeeps ==
  ASSUME SessionInv, HandshakeInv, NEW c, NEW key, NEW sid, NEW seq,
         Ipmi!Message(c, key, sid, seq)
  PROVE  SessionInv' /\ HandshakeInv'
<1>1. /\ current # NoOne /\ DOMAIN current = SessionFields
      /\ shake' = shake /\ began' = began
  BY DEF Ipmi!Message, Ipmi!Reads, SessionInv
<1>2. CASE Ipmi!CloseSession
  BY <1>1, <1>2, SessionClosed
<1>3. CASE Ipmi!Dispatch /\ current' = Ipmi!Answered([current EXCEPT !.seq = seq, !.version2 = TRUE])
  <2>1. known' = known
    BY <1>3 DEF Ipmi!Dispatch, Ipmi!Run
  <2>2. current' = [[current EXCEPT !.seq = seq, !.version2 = TRUE] EXCEPT !.stage = 1]
    BY <1>3 DEF Ipmi!Answered
  <2>3. DOMAIN current' = SessionFields /\ current'.owner = current.owner
    BY <1>1, <2>2 DEF SessionFields
  <2>4. current'.version2 = TRUE /\ current'.handles = current.handles
    BY <1>1, <2>2 DEF SessionFields
  <2>5. SessionInv'
    BY <1>1, <2>1, <2>3 DEF SessionInv, Ipmi!OpenSessionIsKnown
  <2>6. HandshakeInv'
    BY <1>1, <2>4, Zenon DEF HandshakeInv
  <2> QED
    BY <2>5, <2>6
<1> QED
  BY <1>2, <1>3 DEF Ipmi!Message

LEMMA Message15Keeps ==
  ASSUME SessionInv, HandshakeInv, NEW c, Ipmi!Message15(c)
  PROVE  SessionInv' /\ HandshakeInv'
<1>1. /\ current # NoOne /\ shake' = shake /\ began' = began
  BY DEF Ipmi!Message15, Ipmi!Reads
<1>2. CASE Ipmi!CloseSession
  BY <1>1, <1>2, SessionClosed
<1>3. CASE Ipmi!Dispatch /\ current' = current
  <2>1. known' = known
    BY <1>3 DEF Ipmi!Dispatch, Ipmi!Run
  <2>2. SessionInv'
    BY <1>1, <1>3, <2>1 DEF SessionInv, Ipmi!OpenSessionIsKnown
  <2>3. HandshakeInv'
    BY <1>1, <1>3, Zenon DEF HandshakeInv
  <2> QED
    BY <2>2, <2>3
<1> QED
  BY <1>2, <1>3 DEF Ipmi!Message15

----------------------------------------------------------------------------
IpmiInv == AccountsInv /\ SessionInv /\ HandshakeInv

LEMMA IpmiStep == IpmiInv /\ Ipmi!Next => IpmiInv'
<1> SUFFICES ASSUME IpmiInv, Ipmi!Next
             PROVE  IpmiInv'
  OBVIOUS
<1>0. SessionInv /\ HandshakeInv /\ AccountsInv
  BY DEF IpmiInv
<1>1. ASSUME NEW c \in Clients, NEW packet, Ipmi!NewSource(c, packet)
      PROVE  IpmiInv'
  <2>1. UNCHANGED Ipmi!users
    BY <1>1 DEF Ipmi!NewSource
  <2> QED
    BY <1>0, <1>1, <2>1, NewSourceKeeps, AccountsSameUsers DEF IpmiInv
<1>2. ASSUME NEW c, Ipmi!Unread(c) \/ Ipmi!Refused(c)
      PROVE  IpmiInv'
  <2>1. UNCHANGED Ipmi!users /\ Ipmi!CloseSession /\ shake' = shake /\ began' = began
    BY <1>2 DEF Ipmi!Unread, Ipmi!Refused
  <2> QED
    BY <1>0, <2>1, SessionClosed, AccountsSameUsers DEF IpmiInv
<1>3. ASSUME NEW c, Ipmi!Message15(c)
      PROVE  IpmiInv'
  <2>1. AccountsInv'
    BY <1>0, <1>3, AccountsDispatch, AccountsSameUsers DEF Ipmi!Message15, Ipmi!users
  <2> QED
    BY <1>0, <1>3, <2>1, Message15Keeps DEF IpmiInv
<1>4. ASSUME NEW c, Ipmi!OpenRequest(c)
      PROVE  IpmiInv'
  <2>1. UNCHANGED Ipmi!users
    BY <1>4 DEF Ipmi!OpenRequest
  <2> QED
    BY <1>0, <1>4, <2>1, OpenRequestKeeps, AccountsSameUsers DEF IpmiInv
<1>5. ASSUME NEW c, NEW name, NEW max, Ipmi!Rakp1(c, name, max)
      PROVE  IpmiInv'
  <2>1. UNCHANGED Ipmi!users
    BY <1>5 DEF Ipmi!Rakp1
  <2> QED
    BY <1>0, <1>5, <2>1, Rakp1Keeps, AccountsSameUsers DEF IpmiInv
<1>6. ASSUME NEW c, NEW password, NEW rc, Ipmi!Rakp3(c, password, rc)
      PROVE  IpmiInv'
  <2>1. UNCHANGED Ipmi!users
    BY <1>6 DEF Ipmi!Rakp3
  <2> QED
    BY <1>0, <1>6, <2>1, Rakp3Keeps, AccountsSameUsers DEF IpmiInv
<1>7. ASSUME NEW c, NEW key, NEW sid, NEW seq, Ipmi!Message(c, key, sid, seq)
      PROVE  IpmiInv'
  <2>1. AccountsInv'
    BY <1>0, <1>7, AccountsDispatch, AccountsSameUsers DEF Ipmi!Message, Ipmi!users
  <2> QED
    BY <1>0, <1>7, <2>1, MessageKeeps DEF IpmiInv
<1> QED
  BY <1>1, <1>2, <1>3, <1>4, <1>5, <1>6, <1>7 DEF Ipmi!Next

LEMMA IpmiSame == IpmiInv /\ UNCHANGED ipmi => IpmiInv'
<1> SUFFICES ASSUME IpmiInv, UNCHANGED ipmi PROVE IpmiInv'
  OBVIOUS
<1>1. AccountsInv'
  BY AccountsSameUsers DEF IpmiInv, ipmi, Ipmi!users
<1>2. SessionInv'
  BY DEF IpmiInv, SessionInv, Ipmi!OpenSessionIsKnown, ipmi
<1>3. shake' = shake /\ current' = current /\ (began <=> began')
  BY Zenon DEF ipmi
<1>4. HandshakeInv'
  BY <1>3, Zenon DEF IpmiInv, HandshakeInv
<1> QED
  BY <1>1, <1>2, <1>4 DEF IpmiInv

LEMMA IpmiInvariant == Spec => []IpmiInv
<1>1. Init => IpmiInv
  BY AccountsAtStart, SessionAtStart DEF IpmiInv
<1>2. IpmiInv /\ [Next]_vars => IpmiInv'
  <2>1. UNCHANGED vars => UNCHANGED ipmi
    BY DEF vars
  <2> QED
    BY <2>1, IpmiSteps, IpmiStep, IpmiSame
<1> QED
  BY <1>1, <1>2, PTL DEF Spec

\* For any users and any traffic, the session that the server works with is
\* in its table, and the dictionaries of users keep the same names in the same
\* places, however users are renamed into each other (ipmi_server.py).
THEOREM TablesKeepAgreeing == Spec => []TablesAgree
<1>1. IpmiInv => TablesAgree
  BY DEF IpmiInv, AccountsInv, SessionInv, TablesAgree, Ipmi!TablesAgree
<1> QED
  BY <1>1, IpmiInvariant, PTL

LEMMA CommandNeedsHandshake ==
  ASSUME IpmiInv, Ipmi!Next, commands' # commands
  PROVE  began /\ current.handles /\ current.version2
<1>1. PICK c \in Clients : \/ Ipmi!Message15(c)
                           \/ \E key, sid, seq : Ipmi!Message(c, key, sid, seq)
  BY DEF Ipmi!Next, Ipmi!NewSource, Ipmi!Unread, Ipmi!Refused, Ipmi!OpenRequest,
         Ipmi!Rakp1, Ipmi!Rakp3
<1>2. current # NoOne /\ Ipmi!Dispatch
  BY <1>1 DEF Ipmi!Message15, Ipmi!Message, Ipmi!Reads
<1>3. current.handles
  BY <1>2, Zenon DEF Ipmi!Dispatch
<1> QED
  BY <1>2, <1>3, Zenon DEF IpmiInv, HandshakeInv

\* For any users and any traffic, a command changes something only in a session
\* that has begun a handshake itself and finished one: the key, the nonce and
\* the session id that the server keeps for all of its sessions give no
\* session the rights of another (ipmi_server.py).
THEOREM CommandsNeedHandshakes == Spec => CommandsFollowHandshake
<1>1. IpmiInv /\ [Next]_vars =>
        [commands' # commands => began /\ current.handles /\ current.version2]_(Ipmi!vars)
  <2>1. UNCHANGED vars => UNCHANGED ipmi
    BY DEF vars
  <2>2. UNCHANGED ipmi => commands' = commands
    BY DEF ipmi
  <2> QED
    BY <2>1, <2>2, IpmiSteps, CommandNeedsHandshake
<1> QED
  BY <1>1, IpmiInvariant, PTL DEF Spec, CommandsFollowHandshake, Ipmi!CommandsFollowHandshake

----------------------------------------------------------------------------
(***************************************************************************)
(* Types.  A key that is set belongs to a rakp1, whose number it keeps.    *)
(***************************************************************************)
Issued == 1..MaxNonces

IsSession(s) ==
    /\ DOMAIN s = SessionFields
    /\ s.owner \in Clients /\ s.stage \in {0, 1}
    /\ s.k1 = NoOne \/ s.k1 \in Passwords \X Issued

IsShake(s) ==
    /\ DOMAIN s = ShakeFields
    /\ s.kuid \in Passwords \cup {NoOne} /\ s.kg \in Passwords \cup {NoOne}
    /\ s.kg # NoOne => s.rc \in Issued
    /\ s.maxpriv \in 0..4

IpmiTypes ==
    /\ known \subseteq Clients
    /\ current # NoOne => IsSession(current)
    /\ IsShake(shake)
    /\ clientpriv \in 0..4 /\ nonce \in 0..MaxNonces

LEMMA IpmiTypesAtStart == Init => IpmiTypes
<1> SUFFICES ASSUME Ipmi!Init PROVE IpmiTypes
  BY DEF Init
<1>1. IsShake(shake)
  BY DEF Ipmi!Init, Ipmi!NoShake, IsShake, ShakeFields
<1>2. 0 \in 0..MaxNonces
  BY BoundsAssumption
<1> QED
  BY <1>1, <1>2 DEF Ipmi!Init, IpmiTypes

LEMMA SessionFieldsSet ==
  ASSUME NEW s, IsSession(s), NEW v
  PROVE  /\ IsSession([s EXCEPT !.version2 = v]) /\ IsSession([s EXCEPT !.seq = v])
         /\ IsSession([s EXCEPT !.localsid = v]) /\ IsSession([s EXCEPT !.handles = v])
         /\ v \in Passwords \X Issued => IsSession([s EXCEPT !.k1 = v])
<1> HIDE DEF Issued
<1> QED
  BY DEF IsSession, SessionFields

LEMMA AnsweredIs == ASSUME NEW s, IsSession(s) PROVE IsSession(Ipmi!Answered(s))
<1> HIDE DEF Issued
<1> QED
  BY DEF IsSession, SessionFields, Ipmi!Answered

LEMMA NewSessionIs == \A c \in Clients : IsSession(Ipmi!NewSession(c))
  BY DEF IsSession, SessionFields, Ipmi!NewSession

LEMMA SessionIsClosed ==
  ASSUME IpmiTypes, Ipmi!CloseSession
  PROVE  known' \subseteq Clients /\ (current' # NoOne => IsSession(current'))
  BY DEF IpmiTypes, Ipmi!CloseSession

LEMMA NewSourceTyped ==
  ASSUME IpmiTypes, NEW c \in Clients, NEW packet, Ipmi!NewSource(c, packet)
  PROVE  IpmiTypes'
<1>1. IsShake(shake')
  BY DEF Ipmi!NewSource, IpmiTypes, IsShake, ShakeFields
<1>2. known' \subseteq Clients
  BY DEF Ipmi!NewSource, IpmiTypes
<1>3. UNCHANGED <<clientpriv, nonce>>
  BY DEF Ipmi!NewSource
<1>4. IsSession(Ipmi!NewSession(c))
  BY NewSessionIs
<1>5. current' # NoOne => IsSession(current')
  <2>1. \A v : IsSession(Ipmi!Answered([Ipmi!NewSession(c) EXCEPT !.version2 = v]))
    BY <1>4, SessionFieldsSet, AnsweredIs
  <2>2. \/ current' = NoOne \/ current' = Ipmi!NewSession(c)
        \/ \E v : current' = Ipmi!Answered([Ipmi!NewSession(c) EXCEPT !.version2 = v])
    BY DEF Ipmi!NewSource
  <2> QED
    BY <1>4, <2>1, <2>2
<1> QED
  BY <1>1, <1>2, <1>3, <1>5 DEF IpmiTypes

LEMMA OpenRequestTyped ==
  ASSUME IpmiTypes, NEW c, Ipmi!OpenRequest(c)
  PROVE  IpmiTypes'
<1>1. IsShake(shake')
  BY DEF Ipmi!OpenRequest, IpmiTypes, IsShake, ShakeFields
<1>2. nonce' \in 0..MaxNonces
  BY BoundsAssumption DEF Ipmi!OpenRequest, IpmiTypes
<1>3. UNCHANGED <<known, clientpriv>>
  BY DEF Ipmi!OpenRequest
<1>4. IsSession(current)
  BY DEF Ipmi!OpenRequest, Ipmi!Reads, IpmiTypes
<1>5. IsSession(current')
  BY <1>4, SessionFieldsSet, AnsweredIs DEF Ipmi!OpenRequest
<1> QED
  BY <1>1, <1>2, <1>3, <1>5 DEF IpmiTypes

LEMMA PasswordOf ==
  ASSUME AccountsInv, NEW name, Ipmi!HasKey(authdata, name)
  PROVE  Ipmi!At(authdata, name) \in Passwords
<1> DEFINE i == CHOOSE i \in DOMAIN authdata : authdata[i][1] = name
<1>1. i \in DOMAIN authdata
  BY DEF Ipmi!HasKey
<1>2. \A k \in DOMAIN authdata : authdata[k] \in Names \X Passwords
  BY LenProperties, ElementOfSeq DEF AccountsInv, AccountsAreTyped, Dicts
<1> QED
  BY <1>1, <1>2 DEF Ipmi!At

LEMMA Rakp1Typed ==
  ASSUME IpmiTypes, AccountsInv, NEW c, NEW name, NEW max \in {2, 4}, Ipmi!Rakp1(c, name, max)
  PROVE  IpmiTypes'
<1>1. nonce' \in 0..MaxNonces /\ nonce + 1 \in Issued
  BY BoundsAssumption DEF Ipmi!Rakp1, IpmiTypes, Issued
<1>2. Ipmi!At(authdata, name) \in Passwords
  BY PasswordOf DEF Ipmi!Rakp1
<1>3. UNCHANGED <<known, clientpriv>>
  BY DEF Ipmi!Rakp1
<1>4. IsSession(current)
  BY DEF Ipmi!Rakp1, Ipmi!Reads, IpmiTypes
<1>5. IsSession(current')
  BY <1>4, SessionFieldsSet DEF Ipmi!Rakp1
<1>6. IsShake(shake')
  <2> DEFINE p == Ipmi!At(authdata, name)
             m == nonce + 1
  <2>1. shake' = IF shake.msid = 0
                 THEN [shake EXCEPT !.rc = m, !.maxpriv = max]
                 ELSE [shake EXCEPT !.rc = m, !.maxpriv = max, !.kuid = p,
                                    !.kg = IF @ = NoOne THEN p ELSE @]
    BY DEF Ipmi!Rakp1
  <2>2. p \in Passwords /\ m \in Issued /\ max \in 0..4
    BY <1>1, <1>2
  <2>3. IsShake(shake)
    BY DEF IpmiTypes
  <2> HIDE DEF p, m
  <2> QED
    BY <2>1, <2>2, <2>3 DEF IsShake, ShakeFields
<1> QED
  BY <1>1, <1>3, <1>5, <1>6 DEF IpmiTypes

LEMMA Rakp3Typed ==
  ASSUME IpmiTypes, NEW c, NEW password, NEW rc, Ipmi!Rakp3(c, password, rc)
  PROVE  IpmiTypes'
<1>1. UNCHANGED <<shake, clientpriv, nonce>> /\ shake.kg # NoOne /\ IsSession(current)
  BY DEF Ipmi!Rakp3, Ipmi!Reads, IpmiTypes
<1>2. CASE Ipmi!CloseSession
  BY <1>1, <1>2, SessionIsClosed DEF IpmiTypes
<1>3. CASE password = shake.kuid /\ rc = shake.rc
  <2>1. <<shake.kg, shake.rc>> \in Passwords \X Issued
    BY <1>1 DEF IpmiTypes, IsShake
  <2> DEFINE s1 == [current EXCEPT !.version2 = TRUE]
             s2 == [s1 EXCEPT !.k1 = <<shake.kg, shake.rc>>]
             s3 == [s2 EXCEPT !.localsid = shake.msid]
             s4 == [s3 EXCEPT !.handles = TRUE]
  <2>2. IsSession(s1)
    BY <1>1, SessionFieldsSet
  <2>3. IsSession(s2)
    BY <2>1, <2>2, SessionFieldsSet
  <2>4. IsSession(s3)
    BY <2>3, SessionFieldsSet
  <2>5. IsSession(s4)
    BY <2>4, SessionFieldsSet
  <2>6. known' = known /\ current' = Ipmi!Answered(s4)
    BY <1>3 DEF Ipmi!Rakp3
  <2>7. IsSession(current')
    BY <2>5, <2>6, AnsweredIs
  <2> QED
    BY <1>1, <2>6, <2>7 DEF IpmiTypes
<1> QED
  BY <1>2, <1>3 DEF Ipmi!Rakp3

LEMMA DispatchTyped ==
  ASSUME IpmiTypes, Ipmi!Dispatch
  PROVE  known' = known /\ clientpriv' \in 0..4
<1>1. ASSUME NEW cmd \in Ipmi!Commands, Ipmi!Run(cmd)
      PROVE  known' = known /\ clientpriv' \in 0..4
  <2>1. cmd.op = "privilege" => cmd.level \in 0..4
    BY DEF Ipmi!Commands
  <2>2. clientpriv \in 0..4
    BY DEF IpmiTypes
  <2> QED
    BY <1>1, <2>1, <2>2 DEF Ipmi!Run
<1> QED
  BY <1>1 DEF Ipmi!Dispatch, IpmiTypes

LEMMA MessageTyped ==
  ASSUME IpmiTypes, NEW c, NEW key, NEW sid, NEW seq, Ipmi!Message(c, key, sid, seq)
  PROVE  IpmiTypes'
<1>1. UNCHANGED <<shake, nonce>> /\ IsSession(current)
  BY DEF Ipmi!Message, Ipmi!Reads, IpmiTypes
<1>2. CASE Ipmi!CloseSession /\ clientpriv' = clientpriv
  BY <1>1, <1>2, SessionIsClosed DEF IpmiTypes
<1>3. CASE Ipmi!Dispatch /\ current' = Ipmi!Answered([current EXCEPT !.seq = seq, !.version2 = TRUE])
  <2>1. IsSession([current EXCEPT !.seq = seq])
    BY <1>1, SessionFieldsSet
  <2>2. IsSession([[current EXCEPT !.seq = seq] EXCEPT !.version2 = TRUE])
    BY <2>1, SessionFieldsSet
  <2>3. IsSession(current')
    BY <1>3, <2>2, AnsweredIs
  <2> QED
    BY <1>1, <1>3, <2>3, DispatchTyped DEF IpmiTypes
<1> QED
  BY <1>2, <1>3 DEF Ipmi!Message

LEMMA Message15Typed ==
  ASSUME IpmiTypes, NEW c, Ipmi!Message15(c)
  PROVE  IpmiTypes'
<1>1. UNCHANGED <<shake, nonce>>
  BY DEF Ipmi!Message15
<1>2. CASE Ipmi!CloseSession /\ clientpriv' = clientpriv
  BY <1>1, <1>2, SessionIsClosed DEF IpmiTypes
<1>3. CASE Ipmi!Dispatch /\ current' = current
  BY <1>1, <1>3, DispatchTyped DEF IpmiTypes
<1> QED
  BY <1>2, <1>3 DEF Ipmi!Message15

LEMMA IpmiTypesStep == IpmiTypes /\ AccountsInv /\ Ipmi!Next => IpmiTypes'
<1> SUFFICES ASSUME IpmiTypes, AccountsInv, Ipmi!Next
             PROVE  IpmiTypes'
  OBVIOUS
<1>1. ASSUME NEW c, Ipmi!Unread(c) \/ Ipmi!Refused(c)
      PROVE  IpmiTypes'
  <2>1. Ipmi!CloseSession /\ UNCHANGED <<shake, clientpriv, nonce>>
    BY <1>1 DEF Ipmi!Unread, Ipmi!Refused
  <2> QED
    BY <2>1, SessionIsClosed DEF IpmiTypes
<1>2. PICK c \in Clients :
        \/ \E packet \in {"capabilities", "capabilities 2.0", "open", "refused"} :
             Ipmi!NewSource(c, packet)
        \/ Ipmi!Unread(c) \/ Ipmi!Refused(c) \/ Ipmi!Message15(c) \/ Ipmi!OpenRequest(c)
        \/ \E name \in Names, max \in {2, 4} : Ipmi!Rakp1(c, name, max)
        \/ \E password \in Passwords, rc \in Ipmi!Issued : Ipmi!Rakp3(c, password, rc)
        \/ \E key \in Passwords \X Ipmi!Issued, sid \in 0..nonce, seq \in {0, 1} :
             Ipmi!Message(c, key, sid, seq)
  BY DEF Ipmi!Next
<1> QED
  BY <1>1, <1>2, NewSourceTyped, Message15Typed, OpenRequestTyped, Rakp1Typed,
     Rakp3Typed, MessageTyped

LEMMA IpmiTyped == Spec => []Ipmi!TypeOK
<1>1. Init => IpmiInv /\ IpmiTypes
  BY AccountsAtStart, SessionAtStart, IpmiTypesAtStart DEF IpmiInv
<1>2. IpmiInv /\ IpmiTypes /\ [Next]_vars => (IpmiInv /\ IpmiTypes)'
  <2>1. UNCHANGED vars => UNCHANGED ipmi
    BY DEF vars
  <2>2. UNCHANGED ipmi /\ IpmiTypes => IpmiTypes'
    BY DEF ipmi, IpmiTypes
  <2>3. IpmiInv => AccountsInv
    BY DEF IpmiInv
  <2> QED
    BY <2>1, <2>2, <2>3, IpmiSteps, IpmiStep, IpmiSame, IpmiTypesStep
<1>3. IpmiInv /\ IpmiTypes => Ipmi!TypeOK
  BY DEF IpmiInv, AccountsInv, UsersAreLeft, IpmiTypes, IsSession, IsShake, Issued, Ipmi!TypeOK
<1> QED
  BY <1>1, <1>2, <1>3, PTL DEF Spec
=============================================================================
