--------------------------- MODULE SessionsProofs ---------------------------
(***************************************************************************)
(* Attack sessions and the log worker: what holds of them for any clients, *)
(* any timeout and any number of sessions, events and purges.              *)
(***************************************************************************)
EXTENDS Sessions, SequenceTheorems, FiniteSetTheorems, WellFoundedInduction, TLAPS

LEMMA Smallest ==
  ASSUME NEW set \in SUBSET Nat, set # {}
  PROVE  \E n \in set : \A m \in set : n <= m
<1> DEFINE less == OpToRel(<, Nat)
<1>1. \A m, n \in Nat : <<m, n>> \in less <=> m < n
  BY DEF OpToRel
<1>2. IsWellFoundedOn(less, Nat)
  BY NatLessThanWellFounded
<1> HIDE DEF less
<1>3. PICK n \in set : \A m \in set : <<m, n>> \notin less
  BY <1>2, WFMin
<1>4. ASSUME NEW m \in set PROVE n <= m
  <2>1. m \in Nat /\ n \in Nat /\ ~(m < n)
    BY <1>1, <1>3
  <2> QED
    BY <2>1
<1> QED
  BY <1>4

-----------------------------------------------------------------------------
(***************************************************************************)
(* The sweep of _process_sessions.                                         *)
(***************************************************************************)

\* f is what the loop computes of the first k listed sessions.
IsSweep(f, k) ==
    f = [i \in 0..k |-> IF i = 0 THEN Unswept ELSE SweepStep(f[i - 1], listed[i])]

LEMMA SweepNext ==
  ASSUME NEW k \in Nat, NEW f, IsSweep(f, k)
  PROVE  \E g : IsSweep(g, k + 1)
<1> DEFINE g == [i \in 0..(k + 1) |-> IF i <= k THEN f[i] ELSE SweepStep(f[k], listed[k + 1])]
<1>1. ASSUME NEW i \in 0..(k + 1)
      PROVE  g[i] = IF i = 0 THEN Unswept ELSE SweepStep(g[i - 1], listed[i])
  <2>1. CASE i <= k
    <3>1. i \in 0..k /\ g[i] = f[i] /\ (i # 0 => i - 1 \in 0..k /\ g[i - 1] = f[i - 1])
      BY <2>1
    <3> QED
      BY <3>1 DEF IsSweep
  <2>2. CASE i = k + 1
    <3>1. i # 0 /\ i - 1 = k /\ ~(i <= k) /\ k \in 0..(k + 1)
      BY <2>2
    <3>2. g[i] = SweepStep(f[k], listed[k + 1]) /\ g[k] = f[k]
      BY <2>2, <3>1
    <3> QED
      BY <2>2, <3>1, <3>2
  <2> QED
    BY <2>1, <2>2
<1> HIDE DEF g
<1>2. g = [i \in 0..(k + 1) |-> g[i]]
  BY DEF g
<1> QED
  BY <1>1, <1>2 DEF IsSweep

LEMMA SweepExists ==
  ASSUME NEW n \in Nat
  PROVE  \E f : IsSweep(f, n)
<1> DEFINE bad == {k \in Nat : ~\E f : IsSweep(f, k)}
<1>1. SUFFICES ASSUME bad # {} PROVE FALSE
  OBVIOUS
<1>2. PICK k \in bad : \A m \in bad : k <= m
  BY <1>1, Smallest
<1>3. k # 0
  <2> DEFINE f == [i \in 0..0 |-> Unswept]
  <2>1. \A i \in 0..0 : i = 0
    OBVIOUS
  <2>2. IsSweep(f, 0)
    BY <2>1 DEF IsSweep
  <2> QED
    BY <2>2
<1>4. k - 1 \in Nat /\ k - 1 + 1 = k /\ ~(k <= k - 1)
  BY <1>3
<1>5. \E f : IsSweep(f, k - 1)
  BY <1>2, <1>4
<1>6. \E f : IsSweep(f, k - 1 + 1)
  BY <1>4, <1>5, SweepNext
<1> QED
  BY <1>4, <1>6

LEMMA SweptIs ==
  ASSUME Len(listed) \in Nat
  PROVE  /\ Swept[0] = Unswept
         /\ \A i \in 1..Len(listed) : Swept[i] = SweepStep(Swept[i - 1], listed[i])
<1>1. PICK f : IsSweep(f, Len(listed))
  BY SweepExists
<1>2. Swept = [i \in 0..Len(listed) |->
                 IF i = 0 THEN Unswept ELSE SweepStep(Swept[i - 1], listed[i])]
  BY <1>1 DEF Swept, IsSweep
<1> QED
  BY <1>2

\* What the loop has made of the first i listed sessions: it keeps some of them,
\* no two of one client, and those it does not keep have timed out.
SweptRight(i) ==
    /\ Swept[i].kept \in Seq(DOMAIN sessions)
    /\ \A p \in DOMAIN Swept[i].kept : \E k \in 1..i : Swept[i].kept[p] = listed[k]
    /\ \A p, q \in DOMAIN Swept[i].kept :
         sessions[Swept[i].kept[p]].client = sessions[Swept[i].kept[q]].client => p = q
    /\ \A k \in 1..i : \/ \E p \in DOMAIN Swept[i].kept : Swept[i].kept[p] = listed[k]
                       \/ TimedOut(listed[k])

LEMMA SweptStep ==
  ASSUME listed \in Seq(DOMAIN sessions), OneListedPerClient,
         NEW i \in Nat, i < Len(listed), SweptRight(i)
  PROVE  SweptRight(i + 1)
<1> DEFINE old == Swept[i].kept
           new == Swept[i + 1].kept
           s == listed[i + 1]
<1>1. /\ Len(listed) \in Nat /\ DOMAIN listed = 1..Len(listed)
      /\ i + 1 \in 1..Len(listed) /\ i + 1 - 1 = i
      /\ \A k \in 1..i : k \in 1..Len(listed) /\ k # i + 1
  BY LenProperties
<1>2. s \in DOMAIN sessions
  BY <1>1, ElementOfSeq
<1>3. Swept[i + 1] = SweepStep(Swept[i], s)
  BY <1>1, SweptIs
<1>4. /\ old \in Seq(DOMAIN sessions)
      /\ \A p \in DOMAIN old : \E k \in 1..i : old[p] = listed[k]
      /\ \A p, q \in DOMAIN old : sessions[old[p]].client = sessions[old[q]].client => p = q
      /\ \A k \in 1..i : (\E p \in DOMAIN old : old[p] = listed[k]) \/ TimedOut(listed[k])
  BY DEF SweptRight
<1>5. \A k \in 1..(i + 1) : k \in 1..i \/ k = i + 1
  OBVIOUS
<1>6. CASE new = old /\ TimedOut(s)
  <2> HIDE DEF old, new
  <2>1. \A k \in 1..(i + 1) : (\E p \in DOMAIN new : new[p] = listed[k]) \/ TimedOut(listed[k])
    BY <1>4, <1>5, <1>6
  <2>2. \A p \in DOMAIN new : \E k \in 1..(i + 1) : new[p] = listed[k]
    BY <1>4, <1>6
  <2>3. \A p, q \in DOMAIN new : sessions[new[p]].client = sessions[new[q]].client => p = q
    BY <1>4, <1>6
  <2> QED
    BY <1>4, <1>6, <2>1, <2>2, <2>3 DEF SweptRight, new
<1>7. CASE new = Append(old, s)
  <2> HIDE DEF old, new, s
  <2>1. /\ Len(old) \in Nat /\ DOMAIN old = 1..Len(old)
        /\ new \in Seq(DOMAIN sessions) /\ DOMAIN new = 1..(Len(old) + 1)
        /\ \A p \in 1..Len(old) : new[p] = old[p]
        /\ new[Len(old) + 1] = s
    BY <1>2, <1>4, <1>7, AppendProperties, LenProperties
  <2>2. \A p \in DOMAIN new : (p \in DOMAIN old /\ new[p] = old[p]) \/ (p = Len(old) + 1 /\ new[p] = s)
    BY <2>1
  <2>3. \A p \in DOMAIN new : \E k \in 1..(i + 1) : new[p] = listed[k]
    BY <1>4, <2>2 DEF s
  <2>4. \A p \in DOMAIN old : sessions[old[p]].client # sessions[s].client
    BY <1>1, <1>4 DEF s, OneListedPerClient
  <2>5. \A p, q \in DOMAIN new : sessions[new[p]].client = sessions[new[q]].client => p = q
    BY <1>4, <2>2, <2>4
  <2>6. \A p \in DOMAIN old : p \in DOMAIN new /\ new[p] = old[p]
    BY <2>1
  <2>7. Len(old) + 1 \in DOMAIN new /\ new[Len(old) + 1] = s
    BY <2>1
  <2>8. \A k \in 1..(i + 1) : (\E p \in DOMAIN new : new[p] = listed[k]) \/ TimedOut(listed[k])
    BY <1>4, <1>5, <2>6, <2>7 DEF s
  <2> QED
    BY <2>1, <2>3, <2>5, <2>8 DEF SweptRight, new
<1>8. (new = old /\ TimedOut(s)) \/ new = Append(old, s)
  <2>1. CASE Swept[i].skip \/ ~TimedOut(s)
    BY <1>3, <2>1 DEF SweepStep
  <2>2. CASE ~(Swept[i].skip \/ ~TimedOut(s))
    <3>1. TimedOut(s)
      BY <2>2, Zenon
    <3>2. new = old
      BY <1>3, <2>2 DEF SweepStep
    <3> QED
      BY <3>1, <3>2
  <2> QED
    BY <2>1, <2>2
<1> QED
  BY <1>6, <1>7, <1>8

LEMMA SweepIsRight ==
  ASSUME listed \in Seq(DOMAIN sessions), OneListedPerClient
  PROVE  SweptRight(Len(listed))
<1> DEFINE n == Len(listed)
           bad == {k \in Nat : k <= n /\ ~SweptRight(k)}
<1>1. n \in Nat
  BY LenProperties
<1>2. SweptRight(0)
  <2>1. Swept[0].kept = <<>>
    BY <1>1, SweptIs DEF Unswept
  <2> QED
    BY <2>1, EmptySeq DEF SweptRight
<1>3. SUFFICES ASSUME bad # {} PROVE FALSE
  BY <1>1
<1>4. PICK k \in bad : \A m \in bad : k <= m
  BY <1>3, Smallest
<1>5. k \in Nat /\ k <= n /\ ~SweptRight(k) /\ k # 0
  BY <1>2, <1>4
<1>6. k - 1 \in Nat /\ k - 1 < n /\ k - 1 + 1 = k /\ ~(k <= k - 1) /\ k - 1 <= n
  BY <1>1, <1>5
<1>7. SweptRight(k - 1)
  BY <1>4, <1>6
<1>8. SweptRight(k - 1 + 1)
  BY <1>6, <1>7, SweptStep
<1> QED
  BY <1>5, <1>6, <1>8

-----------------------------------------------------------------------------
(***************************************************************************)
(* Types.                                                                  *)
(***************************************************************************)
LEMMA FunctionIsSeq ==
  ASSUME NEW S, NEW n \in Nat, NEW f \in [1..n -> S]
  PROVE  f \in Seq(S) /\ Len(f) = n
<1>1. f \in Seq(S)
  BY SeqDef
<1> QED
  BY <1>1, LenProperties

LEMMA Fields ==
  ASSUME NEW r \in Session
  PROVE  /\ r.client \in Clients /\ r.start \in Nat /\ r.ended \in BOOLEAN
         /\ r.queue \in Nat \ {0} /\ r.data \in SUBSET Stored /\ r.last \in Nat
  BY DEF Session

LEMMA EndedSession ==
  ASSUME NEW r \in Session, NEW b \in BOOLEAN
  PROVE  /\ [r EXCEPT !.ended = b] \in Session
         /\ [r EXCEPT !.ended = b].client = r.client
         /\ [r EXCEPT !.ended = b].start = r.start
         /\ [r EXCEPT !.ended = b].queue = r.queue
         /\ [r EXCEPT !.ended = b].data = r.data
         /\ [r EXCEPT !.ended = b].last = r.last
  BY DEF Session

\* A session with an event more.
Active(r, d, t) == [r EXCEPT !.data = d, !.last = t]

LEMMA ActiveSession ==
  ASSUME NEW r \in Session, NEW d \in SUBSET Stored, NEW t \in Nat
  PROVE  /\ Active(r, d, t) \in Session
         /\ Active(r, d, t).client = r.client
         /\ Active(r, d, t).start = r.start
         /\ Active(r, d, t).queue = r.queue
         /\ Active(r, d, t).data = d
         /\ Active(r, d, t).last = t
  BY DEF Session, Active

LEMMA Lengths ==
  ASSUME TypeOK
  PROVE  /\ Len(sessions) \in Nat /\ DOMAIN sessions = 1..Len(sessions)
         /\ Len(listed) \in Nat /\ DOMAIN listed = 1..Len(listed)
         /\ Len(events) \in Nat /\ DOMAIN events = 1..Len(events)
         /\ Len(queues) \in Nat \ {0} /\ DOMAIN queues = 1..Len(queues)
         /\ \A s \in DOMAIN sessions : sessions[s] \in Session
         /\ \A i \in DOMAIN listed : listed[i] \in DOMAIN sessions
         /\ \A e \in DOMAIN events : events[e] \in DOMAIN sessions
         /\ \A q \in DOMAIN queues : queues[q] \in Seq(DOMAIN events)
<1>1. /\ Len(sessions) \in Nat /\ DOMAIN sessions = 1..Len(sessions)
      /\ \A s \in DOMAIN sessions : sessions[s] \in Session
  BY LenProperties, ElementOfSeq DEF TypeOK
<1>2. /\ Len(listed) \in Nat /\ DOMAIN listed = 1..Len(listed)
      /\ \A i \in DOMAIN listed : listed[i] \in DOMAIN sessions
  BY LenProperties, ElementOfSeq DEF TypeOK
<1>3. /\ Len(events) \in Nat /\ DOMAIN events = 1..Len(events)
      /\ \A e \in DOMAIN events : events[e] \in DOMAIN sessions
  BY LenProperties, ElementOfSeq DEF TypeOK
<1>4. /\ Len(queues) \in Nat \ {0} /\ DOMAIN queues = 1..Len(queues)
      /\ \A q \in DOMAIN queues : queues[q] \in Seq(DOMAIN events)
  BY LenProperties, ElementOfSeq, EmptySeq DEF TypeOK
<1> QED
  BY <1>1, <1>2, <1>3, <1>4

\* What neither closing nor expiring a session changes of it.
Alike ==
    /\ DOMAIN sessions' = DOMAIN sessions
    /\ \A s \in DOMAIN sessions :
         /\ sessions'[s].client = sessions[s].client
         /\ sessions'[s].start = sessions[s].start
         /\ sessions'[s].queue = sessions[s].queue
         /\ sessions'[s].data = sessions[s].data
         /\ sessions'[s].last = sessions[s].last

LEMMA NewTyped ==
  ASSUME TypeOK, NEW c \in Clients
  PROVE  New(c) \in Session
<1>1. Len(queues) \in Nat \ {0} /\ now \in Nat
  BY Lengths DEF TypeOK
<1>2. {} \in SUBSET Stored
  OBVIOUS
<1> HIDE DEF Stored
<1> QED
  BY <1>1, <1>2 DEF New, Session

LEMMA GetSessionTyped ==
  ASSUME TypeOK, NEW c \in Clients, GetSession(c)
  PROVE  TypeOK'
<1>1. UNCHANGED <<now, enabled, worker, current, logged, events, queues>>
  BY DEF GetSession, Handlers
<1>2. CASE SessionOf(c) # {}
  <2>1. /\ held' = held \cup SessionOf(c) /\ sessions' = sessions /\ listed' = listed
    BY <1>2 DEF GetSession
  <2>2. SessionOf(c) \subseteq DOMAIN sessions
    BY Lengths DEF SessionOf, ToSet
  <2> QED
    BY <1>1, <2>1, <2>2 DEF TypeOK
<1>3. CASE SessionOf(c) = {}
  <2>1. /\ sessions' = Append(sessions, New(c))
        /\ listed' = Append(listed, Len(sessions'))
        /\ held' = held \cup {Len(sessions')}
    BY <1>3 DEF GetSession
  <2>2. sessions' \in Seq(Session) /\ Len(sessions') = Len(sessions) + 1
    BY <2>1, NewTyped, AppendProperties DEF TypeOK
  <2>3. /\ DOMAIN sessions' = 1..(Len(sessions) + 1)
        /\ Len(sessions') \in DOMAIN sessions'
        /\ DOMAIN sessions \subseteq DOMAIN sessions'
    BY <2>2, Lengths, LenProperties
  <2>4. listed \in Seq(DOMAIN sessions') /\ events \in Seq(DOMAIN sessions')
    BY <2>3, SeqMonotonic DEF TypeOK
  <2>5. listed' \in Seq(DOMAIN sessions')
    BY <2>1, <2>3, <2>4, AppendProperties
  <2>6. held' \subseteq DOMAIN sessions'
    BY <2>1, <2>3 DEF TypeOK
  <2> QED
    BY <1>1, <2>2, <2>4, <2>5, <2>6 DEF TypeOK
<1> QED
  BY <1>2, <1>3

LEMMA CloseTyped ==
  ASSUME TypeOK, NEW s \in held, Close(s)
  PROVE  TypeOK' /\ Alike
<1>1. PICK proxied \in BOOLEAN : sessions' = [sessions EXCEPT ![s].ended = @ \/ proxied]
  BY DEF Close
<1> DEFINE b == sessions[s].ended \/ proxied
           r == [sessions[s] EXCEPT !.ended = b]
<1>2. s \in 1..Len(sessions) /\ sessions[s] \in Session /\ b \in BOOLEAN
  BY Lengths DEF TypeOK
<1>3. sessions' = [sessions EXCEPT ![s] = r]
  BY <1>1
<1> HIDE DEF b
<1>4. /\ r \in Session
      /\ r.client = sessions[s].client /\ r.start = sessions[s].start
      /\ r.queue = sessions[s].queue /\ r.data = sessions[s].data /\ r.last = sessions[s].last
  BY <1>2, EndedSession
<1> HIDE DEF r
<1>5. /\ sessions' \in Seq(Session) /\ DOMAIN sessions' = DOMAIN sessions
      /\ \A j \in DOMAIN sessions : sessions'[j] = IF j = s THEN r ELSE sessions[j]
  BY <1>2, <1>3, <1>4, Lengths, ExceptSeq DEF TypeOK
<1>6. Alike
  BY <1>4, <1>5 DEF Alike
<1>7. UNCHANGED <<now, enabled, worker, current, logged, listed, events, queues>> /\ held' \subseteq held
  BY DEF Close, Handlers
<1>8. TypeOK'
  BY <1>5, <1>7 DEF TypeOK
<1> QED
  BY <1>6, <1>8

-----------------------------------------------------------------------------
(***************************************************************************)
(* The keys of a session's events.                                         *)
(***************************************************************************)

\* From the present on, the keys that are taken leave no gap: a key lies ahead
\* of the clock only because the milliseconds before it are taken.
KeysInv ==
    \A s \in DOMAIN sessions :
      /\ sessions[s].start <= now
      /\ IsFiniteSet(Keys(s))
      /\ \A k \in Keys(s) : \A n \in Elapsed(s)..k : n \in Keys(s)
      /\ \A x \in sessions[s].data : x.id \in DOMAIN events
      /\ \/ sessions[s].last = sessions[s].start
         \/ \E k \in Keys(s) : sessions[s].last - sessions[s].start <= k

LEMMA KeysAreNat ==
  ASSUME TypeOK, NEW s \in DOMAIN sessions
  PROVE  /\ Keys(s) \subseteq Nat
         /\ \A x \in sessions[s].data : x.ms \in Nat /\ x.id \in Nat \ {0} /\ x.ms \in Keys(s)
<1>1. sessions[s].data \in SUBSET Stored
  BY Lengths, Fields
<1> QED
  BY <1>1 DEF Keys, Stored

\* There is a free millisecond where the search looks, by counting.
LEMMA KeyForIs ==
  ASSUME TypeOK, NEW s \in DOMAIN sessions, sessions[s].start <= now, IsFiniteSet(Keys(s))
  PROVE  /\ Elapsed(s) \in Nat /\ KeyFor(s) \in Nat /\ Elapsed(s) <= KeyFor(s)
         /\ KeyFor(s) \notin Keys(s)
         /\ \A n \in Elapsed(s)..(KeyFor(s) - 1) : n \in Keys(s)
<1> DEFINE a == Elapsed(s)
           c == Cardinality(Keys(s))
           free == {m \in a..(a + c) : m \notin Keys(s)}
<1>1. a \in Nat /\ c \in Nat
  <2>1. sessions[s].start \in Nat /\ now \in Nat
    BY Lengths, Fields DEF TypeOK
  <2> QED
    BY <2>1, FS_CardinalityType DEF Elapsed
<1> HIDE DEF a, c
<1>2. free # {}
  <2>1. SUFFICES ASSUME a..(a + c) \subseteq Keys(s) PROVE FALSE
    OBVIOUS
  <2>2. Cardinality(a..(a + c)) <= c
    BY <2>1, FS_Subset DEF c
  <2>3. Cardinality(a..(a + c)) = a + c - a + 1
    <3>1. a + c \in Nat /\ a <= a + c
      BY <1>1
    <3> QED
      BY <1>1, <3>1, FS_Interval
  <2> QED
    BY <1>1, <2>2, <2>3
<1>3. PICK m \in free : \A n \in free : m <= n
  <2>1. free \in SUBSET Nat
    BY <1>1
  <2> HIDE DEF free
  <2> QED
    BY <1>2, <2>1, Smallest
<1>4. /\ m \in a..(a + c) /\ m \notin Keys(s)
      /\ \A n \in a..(m - 1) : n \in Keys(s)
  <2>1. ASSUME NEW n \in a..(m - 1) PROVE n \in Keys(s)
    <3>1. n \in a..(a + c) /\ ~(m <= n)
      BY <1>1, <1>3
    <3> QED
      BY <1>3, <3>1
  <2> QED
    BY <1>3, <2>1
<1>5. /\ KeyFor(s) \in a..(a + c) /\ KeyFor(s) \notin Keys(s)
      /\ \A n \in a..(KeyFor(s) - 1) : n \in Keys(s)
  BY <1>4 DEF KeyFor, a, c
<1> QED
  BY <1>1, <1>5 DEF a

\* So the key of a new event is later than every key of its session.
LEMMA KeyIsLatest ==
  ASSUME TypeOK, KeysInv, NEW s \in DOMAIN sessions
  PROVE  \A k \in Keys(s) : k < KeyFor(s)
<1>1. SUFFICES ASSUME NEW k \in Keys(s), KeyFor(s) <= k
               PROVE  FALSE
  <2>1. Keys(s) \subseteq Nat /\ KeyFor(s) \in Nat
    BY KeyForIs, KeysAreNat DEF KeysInv
  <2> QED
    BY <2>1
<1>2. /\ Keys(s) \subseteq Nat /\ KeyFor(s) \in Nat /\ Elapsed(s) \in Nat
      /\ Elapsed(s) <= KeyFor(s) /\ KeyFor(s) \notin Keys(s)
  BY KeyForIs, KeysAreNat DEF KeysInv
<1>3. KeyFor(s) \in Elapsed(s)..k
  BY <1>1, <1>2
<1> QED
  BY <1>2, <1>3 DEF KeysInv

\* The session to which an event was added.
LEMMA EventAdded ==
  ASSUME TypeOK, KeysInv, NEW s \in held, AddEvent(s)
  PROVE  /\ s \in DOMAIN sessions
         /\ sessions' \in Seq(Session) /\ DOMAIN sessions' = DOMAIN sessions
         /\ \A t \in DOMAIN sessions :
              /\ t # s => sessions'[t] = sessions[t]
              /\ sessions'[t].client = sessions[t].client
              /\ sessions'[t].start = sessions[t].start
              /\ sessions'[t].queue = sessions[t].queue
         /\ sessions'[s].last = now
         /\ sessions'[s].data = sessions[s].data
                                   \cup {[ms |-> KeyFor(s), id |-> Len(events) + 1]}
<1> DEFINE e == Len(events) + 1
           d == Assign(sessions[s].data, KeyFor(s), e)
           r == Active(sessions[s], d, now)
<1>1. /\ s \in DOMAIN sessions /\ sessions[s] \in Session /\ now \in Nat
      /\ e \in Nat \ {0} /\ DOMAIN sessions = 1..Len(sessions)
  BY Lengths DEF TypeOK
<1>2. KeyFor(s) \in Nat /\ KeyFor(s) \notin Keys(s)
  BY <1>1, KeyForIs DEF KeysInv
<1>3. sessions[s].data \in SUBSET Stored /\ [ms |-> KeyFor(s), id |-> e] \in Stored
  BY <1>1, <1>2, Fields DEF Stored
<1>4. d = sessions[s].data \cup {[ms |-> KeyFor(s), id |-> e]}
  BY <1>2 DEF Assign, Keys
<1>5. d \in SUBSET Stored
  BY <1>3, <1>4
<1>6. sessions' = [sessions EXCEPT ![s] = r]
  BY DEF AddEvent, Active
<1> HIDE DEF d, e
<1>7. /\ r \in Session /\ r.client = sessions[s].client /\ r.start = sessions[s].start
      /\ r.queue = sessions[s].queue /\ r.data = d /\ r.last = now
  BY <1>1, <1>5, ActiveSession
<1> HIDE DEF r
<1>8. /\ sessions' \in Seq(Session) /\ DOMAIN sessions' = DOMAIN sessions
      /\ \A j \in DOMAIN sessions : sessions'[j] = IF j = s THEN r ELSE sessions[j]
  BY <1>1, <1>6, <1>7, Lengths, ExceptSeq DEF TypeOK
<1> QED
  BY <1>1, <1>4, <1>7, <1>8 DEF e

-----------------------------------------------------------------------------
QueuesInv == \A s \in DOMAIN sessions : sessions[s].queue \in DOMAIN queues

LEMMA QueuesOfMore ==
  ASSUME NEW S, NEW T, S \subseteq T, NEW qs \in Seq(Seq(S))
  PROVE  qs \in Seq(Seq(T))
<1>1. Seq(S) \subseteq Seq(T)
  BY SeqMonotonic
<1> QED
  BY <1>1, SeqMonotonic

LEMMA AddEventTyped ==
  ASSUME TypeOK, KeysInv, QueuesInv, NEW s \in held, AddEvent(s)
  PROVE  /\ TypeOK'
         /\ events' = Append(events, s) /\ Len(events') = Len(events) + 1
         /\ DOMAIN events' = DOMAIN events \cup {Len(events) + 1}
         /\ \A e \in DOMAIN events : events'[e] = events[e]
         /\ events'[Len(events) + 1] = s
         /\ DOMAIN queues' = DOMAIN queues
         /\ \A q \in DOMAIN queues :
              queues'[q] = IF q = sessions[s].queue THEN Append(queues[q], Len(events) + 1)
                           ELSE queues[q]
<1> DEFINE e == Len(events) + 1
           q == sessions[s].queue
           more == Append(queues[q], e)
<1>1. /\ UNCHANGED <<now, enabled, worker, current, logged, listed, held>>
      /\ events' = Append(events, s)
      /\ queues' = [queues EXCEPT ![q] = Append(@, e)]
  BY DEF AddEvent, Handlers
<1>2. /\ s \in DOMAIN sessions /\ DOMAIN sessions' = DOMAIN sessions
      /\ sessions' \in Seq(Session)
  BY EventAdded
<1>3. Len(events) \in Nat /\ DOMAIN events = 1..Len(events)
  BY Lengths
<1>4. /\ events' \in Seq(DOMAIN sessions') /\ Len(events') = e
      /\ \A i \in DOMAIN events : events'[i] = events[i]
      /\ events'[e] = s
  BY <1>1, <1>2, <1>3, AppendProperties DEF TypeOK
<1>5. DOMAIN events' = 1..e
  BY <1>4, LenProperties
<1>6. DOMAIN events' = DOMAIN events \cup {e} /\ e \in DOMAIN events'
  BY <1>3, <1>5
<1>7. DOMAIN events \subseteq DOMAIN events'
  BY <1>6
<1>8. /\ queues \in Seq(Seq(DOMAIN events')) /\ current \in Seq(DOMAIN events')
      /\ logged \in Seq(DOMAIN events')
  BY <1>7, QueuesOfMore, SeqMonotonic DEF TypeOK
<1>9. q \in 1..Len(queues) /\ DOMAIN queues = 1..Len(queues) /\ queues[q] \in Seq(DOMAIN events')
  BY <1>2, <1>8, Lengths, ElementOfSeq DEF QueuesInv
<1>10. more \in Seq(DOMAIN events')
  BY <1>6, <1>9, AppendProperties
<1>11. queues' = [queues EXCEPT ![q] = more]
  BY <1>1
<1> HIDE DEF more, q
<1>12. /\ queues' \in Seq(Seq(DOMAIN events')) /\ DOMAIN queues' = DOMAIN queues
       /\ \A i \in DOMAIN queues : queues'[i] = IF i = q THEN more ELSE queues[i]
  BY <1>8, <1>9, <1>10, <1>11, ExceptSeq
<1>13. queues' # <<>>
  BY <1>9, <1>12
<1>14. TypeOK'
  BY <1>1, <1>2, <1>4, <1>8, <1>12, <1>13 DEF TypeOK
<1> QED
  BY <1>1, <1>4, <1>6, <1>12, <1>14 DEF q, more

LEMMA PurgeTyped ==
  ASSUME TypeOK, PurgeSessions
  PROVE  /\ TypeOK' /\ DOMAIN queues \subseteq DOMAIN queues'
         /\ \A q \in DOMAIN queues : queues'[q] = queues[q]
<1>1. /\ queues' = Append(queues, <<>>)
      /\ UNCHANGED <<now, enabled, worker, current, logged, sessions, listed, held, events>>
  BY DEF PurgeSessions, Handlers
<1>2. <<>> \in Seq(DOMAIN events)
  BY EmptySeq
<1>3. /\ queues' \in Seq(Seq(DOMAIN events)) /\ queues' # <<>>
      /\ Len(queues') = Len(queues) + 1
      /\ \A q \in 1..Len(queues) : queues'[q] = queues[q]
  <2> DEFINE S == Seq(DOMAIN events)
  <2>1. queues \in Seq(S) /\ <<>> \in S /\ queues' = Append(queues, <<>>)
    BY <1>1, <1>2 DEF TypeOK
  <2> HIDE DEF S
  <2>2. /\ queues' \in Seq(S) /\ queues' # <<>>
        /\ Len(queues') = Len(queues) + 1
        /\ \A q \in 1..Len(queues) : queues'[q] = queues[q]
    BY <2>1, AppendProperties
  <2> QED
    BY <2>2 DEF S
<1>4. DOMAIN queues \subseteq DOMAIN queues'
  BY <1>3, Lengths, LenProperties
<1> QED
  BY <1>1, <1>3, <1>4, Lengths DEF TypeOK

LEMMA TakeTyped ==
  ASSUME TypeOK, Take
  PROVE  /\ TypeOK' /\ DOMAIN queues' = DOMAIN queues
         /\ queues'[1] = Tail(queues[1]) /\ queues[1] # <<>>
         /\ current' = <<Head(queues[1])>>
<1>1. /\ UNCHANGED <<now, held, events, sessions, listed, enabled, logged>>
      /\ queues[1] # <<>> /\ worker' = "logging"
      /\ current' = <<Head(queues[1])>>
      /\ queues' = [queues EXCEPT ![1] = Tail(queues[1])]
  BY DEF Take, Worker
<1>2. 1 \in 1..Len(queues) /\ DOMAIN queues = 1..Len(queues) /\ queues[1] \in Seq(DOMAIN events)
  BY Lengths
<1>3. Head(queues[1]) \in DOMAIN events /\ Tail(queues[1]) \in Seq(DOMAIN events)
  BY <1>1, <1>2, HeadTailProperties
<1>4. current' \in Seq(DOMAIN events)
  BY <1>1, <1>3
<1>5. /\ queues' \in Seq(Seq(DOMAIN events)) /\ DOMAIN queues' = DOMAIN queues
      /\ queues'[1] = Tail(queues[1])
  BY <1>1, <1>2, <1>3, ExceptSeq DEF TypeOK
<1>6. queues' # <<>>
  BY <1>2, <1>5
<1> QED
  BY <1>1, <1>4, <1>5, <1>6 DEF TypeOK

LEMMA LoggedTyped ==
  ASSUME TypeOK, Logged
  PROVE  TypeOK'
<1>1. /\ UNCHANGED <<now, held, events, sessions, listed, enabled, queues>>
      /\ logged' = logged \o current /\ current' = <<>> /\ worker' = NextTurn
  BY DEF Logged, Worker
<1>2. logged' \in Seq(DOMAIN events) /\ current' \in Seq(DOMAIN events)
  BY <1>1, ConcatProperties, EmptySeq DEF TypeOK
<1>3. worker' \in {"getting", "stopped"}
  BY <1>1 DEF NextTurn
<1> QED
  BY <1>1, <1>2, <1>3 DEF TypeOK

LEMMA ProcessTyped ==
  ASSUME TypeOK, OneListedPerClient, ProcessSessions
  PROVE  TypeOK' /\ Alike
<1>1. /\ UNCHANGED <<now, held, events, queues, enabled, current, logged>>
      /\ sessions' = [s \in DOMAIN sessions |->
                        [sessions[s] EXCEPT !.ended = @ \/ s \in Sweep.gone]]
      /\ listed' = Sweep.kept /\ worker' = NextTurn
  BY DEF ProcessSessions, Worker
<1>2. listed' \in Seq(DOMAIN sessions)
  BY <1>1, SweepIsRight DEF TypeOK, SweptRight, Sweep
<1>3. ASSUME NEW s \in DOMAIN sessions
      PROVE  /\ sessions'[s] \in Session
             /\ sessions'[s].client = sessions[s].client
             /\ sessions'[s].start = sessions[s].start
             /\ sessions'[s].queue = sessions[s].queue
             /\ sessions'[s].data = sessions[s].data
             /\ sessions'[s].last = sessions[s].last
  <2> DEFINE b == sessions[s].ended \/ s \in Sweep.gone
  <2>1. sessions[s] \in Session /\ b \in BOOLEAN
    BY Lengths
  <2>2. sessions'[s] = [sessions[s] EXCEPT !.ended = b]
    BY <1>1
  <2> HIDE DEF b
  <2> QED
    BY <2>1, <2>2, EndedSession
<1>4. Len(sessions) \in Nat /\ DOMAIN sessions = 1..Len(sessions)
  BY Lengths
<1>5. sessions' \in [1..Len(sessions) -> Session]
  BY <1>1, <1>3, <1>4
<1>6. sessions' \in Seq(Session) /\ DOMAIN sessions' = DOMAIN sessions
  BY <1>4, <1>5, FunctionIsSeq
<1>7. worker' \in {"getting", "stopped"}
  BY <1>1 DEF NextTurn
<1>8. TypeOK'
  BY <1>1, <1>2, <1>6, <1>7 DEF TypeOK
<1> QED
  BY <1>3, <1>6, <1>8 DEF Alike

-----------------------------------------------------------------------------
(***************************************************************************)
(* Steps that add no event leave what was stored where it is.              *)
(***************************************************************************)
LEMMA AlikeKeeps ==
  ASSUME TypeOK, KeysInv, QueuesInv, DumpIsComplete, Alike, events' = events,
         now' \in Nat, now <= now', DOMAIN queues \subseteq DOMAIN queues'
  PROVE  KeysInv' /\ QueuesInv' /\ DumpIsComplete'
<1>1. /\ DOMAIN sessions' = DOMAIN sessions
      /\ \A s \in DOMAIN sessions :
           /\ sessions'[s].start = sessions[s].start
           /\ sessions'[s].queue = sessions[s].queue
           /\ sessions'[s].data = sessions[s].data
           /\ sessions'[s].last = sessions[s].last
  BY DEF Alike
<1>2. ASSUME NEW s \in DOMAIN sessions
      PROVE  /\ Keys(s)' = Keys(s)
             /\ sessions'[s].start <= now'
             /\ IsFiniteSet(Keys(s)')
             /\ \A k \in Keys(s)' : \A n \in Elapsed(s)'..k : n \in Keys(s)'
             /\ \A x \in sessions'[s].data : x.id \in DOMAIN events'
             /\ \/ sessions'[s].last = sessions'[s].start
                \/ \E k \in Keys(s)' : sessions'[s].last - sessions'[s].start <= k
  <2>1. Keys(s)' = Keys(s) /\ Keys(s) \subseteq Nat
    BY <1>1, KeysAreNat DEF Keys
  <2>2. sessions[s].start \in Nat /\ now \in Nat /\ sessions[s].start <= now
    BY Lengths, Fields DEF TypeOK, KeysInv
  <2>3. sessions'[s].start <= now'
    BY <1>1, <2>2
  <2>4. IsFiniteSet(Keys(s)')
    BY <2>1 DEF KeysInv
  <2>5. ASSUME NEW k \in Keys(s), NEW n \in Elapsed(s)'..k
        PROVE  n \in Keys(s)
    <3>1. Elapsed(s)' = now' - sessions[s].start /\ Elapsed(s) = now - sessions[s].start /\ k \in Nat
      BY <1>1, <2>1 DEF Elapsed
    <3>2. n \in Elapsed(s)..k
      BY <2>2, <3>1
    <3> QED
      BY <3>2 DEF KeysInv
  <2>6. \A x \in sessions'[s].data : x.id \in DOMAIN events'
    BY <1>1 DEF KeysInv
  <2>7. \/ sessions[s].last = sessions[s].start
        \/ \E k \in Keys(s) : sessions[s].last - sessions[s].start <= k
    BY DEF KeysInv
  <2>8. \/ sessions'[s].last = sessions'[s].start
        \/ \E k \in Keys(s)' : sessions'[s].last - sessions'[s].start <= k
    BY <1>1, <2>1, <2>7
  <2> QED
    BY <2>1, <2>3, <2>4, <2>5, <2>6, <2>8
<1>3. KeysInv'
  BY <1>1, <1>2 DEF KeysInv
<1>4. QueuesInv'
  BY <1>1 DEF QueuesInv
<1>5. DumpIsComplete'
  BY <1>1, Lengths DEF DumpIsComplete
<1> QED
  BY <1>3, <1>4, <1>5

LEMMA GetSessionKeeps ==
  ASSUME TypeOK, KeysInv, QueuesInv, DumpIsComplete, OneListedPerClient,
         NEW c \in Clients, GetSession(c)
  PROVE  /\ KeysInv' /\ QueuesInv' /\ DumpIsComplete' /\ OneListedPerClient'
         /\ \A s \in DOMAIN sessions : s \in DOMAIN sessions' /\ sessions'[s] = sessions[s]
<1>1. UNCHANGED <<now, events, queues>>
  BY DEF GetSession, Handlers
<1>2. CASE SessionOf(c) # {}
  <2>1. UNCHANGED <<sessions, listed>>
    BY <1>2 DEF GetSession
  <2>2. Alike /\ now' \in Nat /\ now <= now'
    BY <1>1, <2>1 DEF Alike, TypeOK
  <2> QED
    BY <1>1, <2>1, <2>2, AlikeKeeps DEF OneListedPerClient
<1>3. CASE SessionOf(c) = {}
  <2>0. PICK n \in Nat : n = Len(sessions) + 1
    BY Lengths
  <2>1. sessions' = Append(sessions, New(c)) /\ listed' = Append(listed, Len(sessions'))
    BY <1>3 DEF GetSession
  <2>2. /\ Len(sessions) \in Nat /\ DOMAIN sessions = 1..Len(sessions)
        /\ New(c) \in Session
    BY Lengths, NewTyped
  <2>3. /\ sessions' \in Seq(Session) /\ Len(sessions') = n
        /\ \A s \in DOMAIN sessions : sessions'[s] = sessions[s]
        /\ sessions'[n] = New(c)
    BY <2>0, <2>1, <2>2, AppendProperties DEF TypeOK
  <2>4. DOMAIN sessions' = DOMAIN sessions \cup {n} /\ n \notin DOMAIN sessions
    BY <2>0, <2>2, <2>3, LenProperties
  <2>5. /\ sessions'[n].start = now /\ sessions'[n].last = now /\ sessions'[n].data = {}
        /\ sessions'[n].queue = Len(queues) /\ sessions'[n].client = c
    BY <2>3 DEF New
  <2>6. ASSUME NEW s \in DOMAIN sessions
        PROVE  Keys(s)' = Keys(s) /\ Elapsed(s)' = Elapsed(s)
    <3>1. sessions'[s] = sessions[s] /\ now' = now
      BY <1>1, <2>3
    <3> QED
      BY <3>1 DEF Keys, Elapsed
  <2>7. Keys(n)' = {}
    BY <2>5 DEF Keys
  <2>8. KeysInv'
    <3>1. now \in Nat /\ IsFiniteSet({})
      BY FS_EmptySet DEF TypeOK
    <3>2. ASSUME NEW s \in DOMAIN sessions
          PROVE  /\ sessions'[s].start <= now'
                 /\ IsFiniteSet(Keys(s)')
                 /\ \A k \in Keys(s)' : \A m \in Elapsed(s)'..k : m \in Keys(s)'
                 /\ \A x \in sessions'[s].data : x.id \in DOMAIN events'
                 /\ \/ sessions'[s].last = sessions'[s].start
                    \/ \E k \in Keys(s)' : sessions'[s].last - sessions'[s].start <= k
      BY <1>1, <2>3, <2>6 DEF KeysInv
    <3>3. /\ sessions'[n].start <= now'
          /\ IsFiniteSet(Keys(n)')
          /\ \A k \in Keys(n)' : \A m \in Elapsed(n)'..k : m \in Keys(n)'
          /\ \A x \in sessions'[n].data : x.id \in DOMAIN events'
          /\ sessions'[n].last = sessions'[n].start
      BY <1>1, <2>5, <2>7, <3>1
    <3>4. ASSUME NEW s \in DOMAIN sessions'
          PROVE  /\ sessions'[s].start <= now'
                 /\ IsFiniteSet(Keys(s)')
                 /\ \A k \in Keys(s)' : \A m \in Elapsed(s)'..k : m \in Keys(s)'
                 /\ \A x \in sessions'[s].data : x.id \in DOMAIN events'
                 /\ \/ sessions'[s].last = sessions'[s].start
                    \/ \E k \in Keys(s)' : sessions'[s].last - sessions'[s].start <= k
      <4>1. CASE s \in DOMAIN sessions
        BY <3>2, <4>1
      <4>2. CASE s = n
        BY <3>3, <4>2
      <4> QED
        BY <2>4, <4>1, <4>2
    <3> QED
      BY <3>4 DEF KeysInv
  <2>9. QueuesInv'
    BY <1>1, <2>3, <2>4, <2>5, Lengths DEF QueuesInv
  <2>10. DumpIsComplete'
    BY <1>1, <2>3, <2>4, <2>5, Lengths DEF DumpIsComplete
  <2>11. OneListedPerClient'
    <3>1. /\ Len(listed) \in Nat /\ DOMAIN listed = 1..Len(listed)
          /\ \A i \in DOMAIN listed : listed[i] \in DOMAIN sessions
          /\ listed \in Seq(DOMAIN sessions')
      BY <2>4, Lengths, SeqMonotonic DEF TypeOK
    <3>2. /\ Len(listed') = Len(listed) + 1 /\ listed' \in Seq(DOMAIN sessions')
          /\ \A i \in 1..Len(listed) : listed'[i] = listed[i]
          /\ listed'[Len(listed) + 1] = n
      BY <2>0, <2>1, <2>3, <2>4, <3>1, AppendProperties
    <3>3. \A i \in DOMAIN listed' :
            \/ i \in DOMAIN listed /\ listed'[i] = listed[i]
            \/ i = Len(listed) + 1 /\ listed'[i] = n
      BY <3>1, <3>2, LenProperties
    <3>4. \A i \in DOMAIN listed : sessions[listed[i]].client # c
      BY <1>3 DEF SessionOf, ToSet
    <3> QED
      BY <2>3, <2>5, <3>1, <3>3, <3>4 DEF OneListedPerClient
  <2> QED
    BY <2>3, <2>4, <2>8, <2>9, <2>10, <2>11
<1> QED
  BY <1>2, <1>3

\* The event that is added gets the latest key of its session and the latest
\* number of all.
LEMMA AddEventKeeps ==
  ASSUME TypeOK, KeysInv, QueuesInv, DumpIsComplete, OneListedPerClient,
         NEW s \in held, AddEvent(s)
  PROVE  KeysInv' /\ QueuesInv' /\ DumpIsComplete' /\ OneListedPerClient'
<1> DEFINE e == Len(events) + 1
           m == KeyFor(s)
           x0 == [ms |-> m, id |-> e]
<1>1. /\ s \in DOMAIN sessions /\ DOMAIN sessions' = DOMAIN sessions
      /\ \A t \in DOMAIN sessions :
           /\ t # s => sessions'[t] = sessions[t]
           /\ sessions'[t].client = sessions[t].client
           /\ sessions'[t].start = sessions[t].start
           /\ sessions'[t].queue = sessions[t].queue
      /\ sessions'[s].last = now
      /\ sessions'[s].data = sessions[s].data \cup {x0}
  BY EventAdded
<1>2. /\ DOMAIN events' = DOMAIN events \cup {e}
      /\ \A i \in DOMAIN events : events'[i] = events[i]
      /\ events'[e] = s
      /\ DOMAIN queues' = DOMAIN queues
  BY AddEventTyped
<1>3. now' = now /\ listed' = listed
  BY DEF AddEvent, Handlers
<1>4. /\ Elapsed(s) \in Nat /\ m \in Nat /\ Elapsed(s) <= m
      /\ m \notin Keys(s) /\ \A n \in Elapsed(s)..(m - 1) : n \in Keys(s)
      /\ \A k \in Keys(s) : k < m
  BY <1>1, KeyForIs, KeyIsLatest DEF KeysInv
<1>5. /\ Len(events) \in Nat /\ DOMAIN events = 1..Len(events)
      /\ \A t \in DOMAIN sessions : \A x \in sessions[t].data : x.id \in DOMAIN events /\ x.ms \in Keys(t)
  BY Lengths, KeysAreNat DEF KeysInv
<1>6. x0.ms = m /\ x0.id = e
  OBVIOUS
<1> HIDE DEF m, x0
<1>7. Keys(s)' = Keys(s) \cup {m}
  BY <1>1, <1>6 DEF Keys
<1>8. \A t \in DOMAIN sessions : t # s => Keys(t)' = Keys(t)
  BY <1>1 DEF Keys
<1>9. \A t \in DOMAIN sessions : Elapsed(t)' = Elapsed(t)
  BY <1>1, <1>3 DEF Elapsed
<1>10. KeysInv'
  <2>1. ASSUME NEW t \in DOMAIN sessions, t # s
        PROVE  /\ sessions'[t].start <= now'
               /\ IsFiniteSet(Keys(t)')
               /\ \A k \in Keys(t)' : \A n \in Elapsed(t)'..k : n \in Keys(t)'
               /\ \A x \in sessions'[t].data : x.id \in DOMAIN events'
               /\ \/ sessions'[t].last = sessions'[t].start
                  \/ \E k \in Keys(t)' : sessions'[t].last - sessions'[t].start <= k
    BY <1>1, <1>2, <1>3, <1>8, <1>9, <2>1 DEF KeysInv
  <2>2. sessions'[s].start <= now'
    BY <1>1, <1>3 DEF KeysInv
  <2>3. IsFiniteSet(Keys(s)')
    BY <1>1, <1>7, FS_AddElement DEF KeysInv
  <2>4. ASSUME NEW k \in Keys(s)', NEW n \in Elapsed(s)'..k
        PROVE  n \in Keys(s)'
    <3>1. CASE k \in Keys(s)
      BY <1>1, <1>7, <1>9, <2>4, <3>1 DEF KeysInv
    <3>2. CASE k = m
      <4>1. n \in Elapsed(s)..m
        BY <1>1, <1>9, <2>4, <3>2
      <4>2. n = m \/ n \in Elapsed(s)..(m - 1)
        BY <1>4, <4>1
      <4> QED
        BY <1>4, <1>7, <4>2
    <3> QED
      BY <1>7, <3>1, <3>2
  <2>5. \A x \in sessions'[s].data : x.id \in DOMAIN events'
    BY <1>1, <1>2, <1>5, <1>6
  <2>6. sessions'[s].last - sessions'[s].start <= m
    BY <1>1, <1>4 DEF Elapsed
  <2>7. \E k \in Keys(s)' : sessions'[s].last - sessions'[s].start <= k
    BY <1>7, <2>6
  <2> QED
    BY <1>1, <2>1, <2>2, <2>3, <2>4, <2>5, <2>7 DEF KeysInv
<1>11. QueuesInv'
  BY <1>1, <1>2 DEF QueuesInv
<1>12. DumpIsComplete'
  <2>1. ASSUME NEW i \in DOMAIN events'
        PROVE  \E x \in sessions'[events'[i]].data : x.id = i
    <3>1. CASE i = e
      BY <1>1, <1>2, <1>6, <3>1
    <3>2. CASE i \in DOMAIN events
      <4>1. /\ events'[i] = events[i] /\ events[i] \in DOMAIN sessions
            /\ \E x \in sessions[events[i]].data : x.id = i
        BY <1>2, <3>2, Lengths DEF DumpIsComplete
      <4>2. sessions[events[i]].data \subseteq sessions'[events[i]].data
        BY <1>1, <4>1
      <4> QED
        BY <4>1, <4>2
    <3> QED
      BY <1>2, <3>1, <3>2
  <2>2. ASSUME NEW t \in DOMAIN sessions, NEW x \in sessions'[t].data,
               NEW y \in sessions'[t].data, x.id < y.id
        PROVE  x.ms < y.ms
    <3>1. CASE x \in sessions[t].data /\ y \in sessions[t].data
      BY <2>2, <3>1 DEF DumpIsComplete
    <3>2. CASE x \in sessions[t].data /\ y = x0 /\ t = s
      BY <1>4, <1>5, <1>6, <3>2
    <3>3. CASE x = x0 /\ t = s
      <4>1. y \in sessions[s].data \/ y = x0
        BY <1>1, <3>3
      <4>2. y.id \in 1..Len(events) \/ y.id = e
        BY <1>1, <1>5, <1>6, <4>1
      <4> QED
        BY <1>5, <1>6, <2>2, <3>3, <4>2
    <3>4. CASE t # s
      BY <1>1, <3>1, <3>4
    <3> QED
      BY <1>1, <3>1, <3>2, <3>3, <3>4
  <2> QED
    BY <1>1, <2>1, <2>2 DEF DumpIsComplete
<1>13. OneListedPerClient'
  <2>1. \A i \in DOMAIN listed : listed[i] \in DOMAIN sessions
    BY Lengths
  <2> QED
    BY <1>1, <1>3, <2>1 DEF OneListedPerClient
<1> QED
  BY <1>10, <1>11, <1>12, <1>13

-----------------------------------------------------------------------------
(***************************************************************************)
(* The log: what is logged, in hand and queued is one sequence, and no     *)
(* step of the worker changes it.                                          *)
(***************************************************************************)
WorkerInv == worker = "getting" => current = <<>>

All == logged \o current \o queues[1]
OnFirst == {e \in DOMAIN events : QueuedOn(e) = 1}

LEMMA FaithfulIs ==
  LogIsFaithful <=> /\ ToSet(All) = OnFirst
                    /\ \A i, j \in DOMAIN All : i < j => All[i] < All[j]
  BY DEF LogIsFaithful, All, OnFirst

LEMMA LogSame ==
  ASSUME LogIsFaithful, All' = All, OnFirst' = OnFirst
  PROVE  LogIsFaithful'
  BY FaithfulIs DEF LogIsFaithful, All, OnFirst

LEMMA OnFirstSame ==
  ASSUME TypeOK, events' = events,
         \A s \in DOMAIN sessions : sessions'[s].queue = sessions[s].queue
  PROVE  OnFirst' = OnFirst
  BY Lengths DEF OnFirst, QueuedOn

LEMMA AllTyped ==
  ASSUME TypeOK
  PROVE  All \in Seq(DOMAIN events)
<1>1. queues[1] \in Seq(DOMAIN events)
  BY Lengths
<1> QED
  BY <1>1, ConcatProperties DEF All, TypeOK

LEMMA TakenFromQueue ==
  ASSUME NEW S, NEW a \in Seq(S), NEW b \in Seq(S), b # <<>>
  PROVE  (a \o <<Head(b)>>) \o Tail(b) = (a \o <<>>) \o b
<1>1. /\ Head(b) \in S /\ Tail(b) \in Seq(S) /\ Len(Tail(b)) = Len(b) - 1
      /\ \A i \in 1..Len(Tail(b)) : Tail(b)[i] = b[i + 1]
      /\ Len(b) \in Nat \ {0} /\ Head(b) = b[1]
  BY HeadTailProperties, EmptySeq
<1>2. <<Head(b)>> \in Seq(S) /\ Len(<<Head(b)>>) = 1 /\ <<Head(b)>>[1] = Head(b)
  BY <1>1
<1> DEFINE h == <<Head(b)>>
           t == Tail(b)
<1>3. /\ h \o t \in Seq(S) /\ Len(h \o t) = 1 + (Len(b) - 1)
      /\ \A i \in 1..Len(h \o t) : (h \o t)[i] = IF i <= 1 THEN h[i] ELSE t[i - 1]
  BY <1>1, <1>2, ConcatProperties
<1>4. \A i \in 1..Len(b) : (h \o t)[i] = b[i]
  <2> HIDE DEF h, t
  <2>1. ASSUME NEW i \in 1..Len(b)
        PROVE  (h \o t)[i] = b[i]
    <3>1. CASE i = 1
      BY <1>1, <1>2, <1>3, <3>1 DEF h
    <3>2. CASE i # 1
      <4>1. i - 1 \in 1..Len(t) /\ i - 1 + 1 = i /\ ~(i <= 1)
        BY <1>1, <3>2 DEF t
      <4>2. t[i - 1] = b[i]
        BY <1>1, <4>1 DEF t
      <4> QED
        BY <1>1, <1>3, <4>1, <4>2
    <3> QED
      BY <3>1, <3>2
  <2> QED
    BY <2>1
<1>5. h \o t = b
  <2> HIDE DEF h, t
  <2>1. Len(h \o t) = Len(b)
    BY <1>1, <1>3
  <2> QED
    BY <1>3, <1>4, <2>1, SeqEqual
<1>6. (a \o h) \o t = a \o (h \o t)
  BY <1>1, <1>2, ConcatAssociative
<1>7. a \o <<>> = a
  BY ConcatEmptySeq
<1> QED
  BY <1>5, <1>6, <1>7

LEMMA TakeKeepsLog ==
  ASSUME TypeOK, WorkerInv, LogIsFaithful, Take
  PROVE  LogIsFaithful' /\ WorkerInv'
<1>1. /\ current = <<>> /\ worker' = "logging"
      /\ UNCHANGED <<sessions, events, logged>>
      /\ queues'[1] = Tail(queues[1]) /\ queues[1] # <<>>
      /\ current' = <<Head(queues[1])>>
  BY TakeTyped DEF Take, Worker, WorkerInv
<1>2. logged \in Seq(DOMAIN events) /\ queues[1] \in Seq(DOMAIN events)
  BY Lengths DEF TypeOK
<1>3. All' = All
  BY <1>1, <1>2, TakenFromQueue DEF All
<1>4. OnFirst' = OnFirst
  BY <1>1 DEF OnFirst, QueuedOn
<1> QED
  BY <1>1, <1>3, <1>4, LogSame DEF WorkerInv

LEMMA LoggedKeepsLog ==
  ASSUME TypeOK, LogIsFaithful, Logged
  PROVE  LogIsFaithful' /\ WorkerInv'
<1>1. /\ UNCHANGED <<sessions, events, queues>>
      /\ logged' = logged \o current /\ current' = <<>>
  BY DEF Logged, Worker
<1>2. logged \o current \in Seq(DOMAIN events)
  BY ConcatProperties DEF TypeOK
<1>3. (logged \o current) \o <<>> = logged \o current
  BY <1>2, ConcatEmptySeq
<1>4. All' = All
  BY <1>1, <1>3 DEF All
<1>5. OnFirst' = OnFirst
  BY <1>1 DEF OnFirst, QueuedOn
<1> QED
  BY <1>1, <1>4, <1>5, LogSame DEF WorkerInv

LEMMA AppendToJoined ==
  ASSUME NEW x \in Seq(Nat), NEW y \in Seq(Nat), NEW n \in Nat
  PROVE  x \o Append(y, n) = Append(x \o y, n)
<1>1. x \o y \in Seq(Nat) /\ <<n>> \in Seq(Nat)
  BY ConcatProperties
<1>2. Append(y, n) = y \o <<n>> /\ Append(x \o y, n) = (x \o y) \o <<n>>
  BY <1>1, AppendIsConcat
<1>3. (x \o y) \o <<n>> = x \o (y \o <<n>>)
  BY <1>1, ConcatAssociative
<1> QED
  BY <1>2, <1>3

LEMMA AddEventKeepsLog ==
  ASSUME TypeOK, KeysInv, QueuesInv, WorkerInv, LogIsFaithful, NEW s \in held, AddEvent(s)
  PROVE  LogIsFaithful' /\ WorkerInv'
<1>0. PICK e \in Nat : e = Len(events) + 1
  BY Lengths
<1>1. /\ s \in DOMAIN sessions
      /\ \A t \in DOMAIN sessions : sessions'[t].queue = sessions[t].queue
  BY EventAdded
<1>2. /\ DOMAIN events' = DOMAIN events \cup {e}
      /\ \A i \in DOMAIN events : events'[i] = events[i] /\ events[i] \in DOMAIN sessions
      /\ events'[e] = s
      /\ \A q \in DOMAIN queues :
           queues'[q] = IF q = sessions[s].queue THEN Append(queues[q], e) ELSE queues[q]
      /\ 1 \in DOMAIN queues /\ queues[1] \in Seq(DOMAIN events)
  <2>1. /\ DOMAIN events' = DOMAIN events \cup {Len(events) + 1}
        /\ \A i \in DOMAIN events : events'[i] = events[i]
        /\ events'[Len(events) + 1] = s
        /\ \A q \in DOMAIN queues :
             queues'[q] = IF q = sessions[s].queue THEN Append(queues[q], Len(events) + 1)
                          ELSE queues[q]
    BY AddEventTyped
  <2>2. /\ \A i \in DOMAIN events : events[i] \in DOMAIN sessions
        /\ 1 \in DOMAIN queues /\ queues[1] \in Seq(DOMAIN events)
    BY Lengths
  <2> QED
    BY <1>0, <2>1, <2>2
<1>3. UNCHANGED <<worker, current, logged>>
  BY DEF AddEvent, Handlers
<1>4. WorkerInv'
  BY <1>3 DEF WorkerInv
<1>5. CASE sessions[s].queue # 1
  <2>1. All' = All
    BY <1>2, <1>3, <1>5 DEF All
  <2>2. OnFirst' = OnFirst
    BY <1>1, <1>2, <1>5 DEF OnFirst, QueuedOn
  <2> QED
    BY <1>4, <2>1, <2>2, LogSame
<1>6. CASE sessions[s].queue = 1
  <2> DEFINE a == logged \o current
             b == queues[1]
  <2>1. /\ a \in Seq(DOMAIN events) /\ b \in Seq(DOMAIN events)
        /\ a \in Seq(Nat) /\ b \in Seq(Nat)
    <3>1. DOMAIN events \subseteq Nat
      BY Lengths
    <3>2. a \in Seq(DOMAIN events) /\ b \in Seq(DOMAIN events)
      BY <1>2, ConcatProperties DEF TypeOK
    <3> QED
      BY <3>1, <3>2, SeqMonotonic
  <2>2. All = a \o b /\ All' = a \o Append(b, e)
    BY <1>2, <1>3, <1>6 DEF All
  <2> HIDE DEF a, b
  <2>3. a \o Append(b, e) = Append(a \o b, e)
    BY <2>1, AppendToJoined
  <2>4. /\ All \in Seq(DOMAIN events) /\ All \in Seq(Nat) /\ All' = Append(All, e)
        /\ Len(All) \in Nat /\ DOMAIN All = 1..Len(All)
        /\ \A i \in DOMAIN All : All[i] \in DOMAIN events
    BY <2>1, <2>2, <2>3, ConcatProperties, LenProperties, ElementOfSeq
  <2>5. /\ Len(All') = Len(All) + 1 /\ All' \in Seq(Nat)
        /\ \A i \in 1..Len(All) : All'[i] = All[i]
        /\ All'[Len(All) + 1] = e
    BY <2>4, AppendProperties
  <2>12. DOMAIN All' = 1..(Len(All) + 1)
    BY <2>5, LenProperties
  <2>6. \A i \in DOMAIN All' :
          \/ i \in DOMAIN All /\ All'[i] = All[i]
          \/ i = Len(All) + 1 /\ All'[i] = e
    BY <2>4, <2>5, <2>12
  <2>7. \A i \in DOMAIN All : i \in DOMAIN All' /\ All'[i] = All[i]
    BY <2>4, <2>5, <2>12
  <2>8. Len(All) + 1 \in DOMAIN All'
    BY <2>4, <2>12
  <2>9. OnFirst' = OnFirst \cup {e}
    BY <1>1, <1>2, <1>6 DEF OnFirst, QueuedOn
  <2>10. ToSet(All)' = OnFirst'
    <3>1. ToSet(All) = OnFirst
      BY FaithfulIs
    <3>2. ToSet(All)' = ToSet(All) \cup {e}
      BY <2>5, <2>6, <2>7, <2>8 DEF ToSet
    <3> QED
      BY <2>9, <3>1, <3>2
  <2>11. \A i, j \in DOMAIN All' : i < j => All'[i] < All'[j]
    <3>1. \A i, j \in DOMAIN All : i < j => All[i] < All[j]
      BY FaithfulIs
    <3>2. \A i \in DOMAIN All : All[i] < e
      <4>1. DOMAIN events = 1..Len(events) /\ Len(events) \in Nat
        BY Lengths
      <4> QED
        BY <1>0, <2>4, <4>1
    <3>3. \A i \in DOMAIN All : ~(Len(All) + 1 < i)
      BY <2>4
    <3> QED
      BY <2>4, <2>6, <3>1, <3>2, <3>3
  <2> QED
    BY <1>4, <2>10, <2>11 DEF LogIsFaithful, All, OnFirst
<1> QED
  BY <1>5, <1>6

-----------------------------------------------------------------------------
(***************************************************************************)
(* The inductive invariant.                                                *)
(***************************************************************************)
Stores == KeysInv /\ QueuesInv /\ DumpIsComplete /\ OneListedPerClient
SessionsInv == TypeOK /\ Stores /\ WorkerInv /\ LogIsFaithful

LEMMA SessionsAtStart == Init => SessionsInv
<1> SUFFICES ASSUME Init PROVE SessionsInv
  OBVIOUS
<1> USE DEF Init
<1>1. \A S : <<>> \in Seq(S) /\ Len(<<>>) = 0
  BY EmptySeq
<1>2. DOMAIN sessions = {} /\ DOMAIN listed = {} /\ DOMAIN events = {}
  OBVIOUS
<1>3. /\ queues \in Seq(Seq(DOMAIN events)) /\ queues # <<>>
  BY <1>1
<1>4. TypeOK
  BY <1>1, <1>3 DEF TypeOK
<1>5. Stores
  BY <1>2 DEF Stores, KeysInv, QueuesInv, DumpIsComplete, OneListedPerClient
<1>6. WorkerInv
  BY DEF WorkerInv
<1>7. All = <<>>
  <2>1. <<>> \o <<>> = <<>>
    BY <1>1, ConcatEmptySeq
  <2> QED
    BY <2>1 DEF All
<1>8. ToSet(All) = {} /\ DOMAIN All = {}
  BY <1>7 DEF ToSet
<1>9. OnFirst = {}
  BY <1>2 DEF OnFirst
<1>10. LogIsFaithful
  BY <1>8, <1>9, FaithfulIs
<1> QED
  BY <1>4, <1>5, <1>6, <1>10 DEF SessionsInv

\* A step that adds no event and does not touch the log.
LEMMA QuietKeeps ==
  ASSUME SessionsInv, Alike, events' = events, now' \in Nat, now <= now',
         DOMAIN queues \subseteq DOMAIN queues', queues'[1] = queues[1],
         current' = current, logged' = logged,
         listed' = listed \/ OneListedPerClient'
  PROVE  Stores' /\ LogIsFaithful'
<1>1. TypeOK /\ KeysInv /\ QueuesInv /\ DumpIsComplete /\ OneListedPerClient /\ LogIsFaithful
  BY DEF SessionsInv, Stores
<1>2. KeysInv' /\ QueuesInv' /\ DumpIsComplete'
  BY <1>1, AlikeKeeps
<1>3. OneListedPerClient'
  <2>1. CASE listed' = listed
    BY <1>1, <2>1, Lengths DEF OneListedPerClient, Alike
  <2> QED
    BY <2>1
<1>4. OnFirst' = OnFirst
  BY <1>1, OnFirstSame DEF Alike
<1>5. All' = All
  BY DEF All
<1> QED
  BY <1>1, <1>2, <1>3, <1>4, <1>5, LogSame DEF Stores

LEMMA Unchanged ==
  ASSUME sessions' = sessions
  PROVE  Alike
  BY DEF Alike

LEMMA SessionsStep == SessionsInv /\ [Next]_vars => SessionsInv'
<1> SUFFICES ASSUME SessionsInv, [Next]_vars
             PROVE  SessionsInv'
  OBVIOUS
<1>1. /\ TypeOK /\ KeysInv /\ QueuesInv /\ DumpIsComplete /\ OneListedPerClient
      /\ WorkerInv /\ LogIsFaithful /\ now \in Nat
  BY DEF SessionsInv, Stores, TypeOK
<1>2. CASE Tick
  <2>1. /\ now' = now + 1
        /\ UNCHANGED <<sessions, listed, held, events, queues, enabled, worker, current, logged>>
    BY <1>2 DEF Tick
  <2>2. TypeOK' /\ now <= now' /\ now' \in Nat
    BY <1>1, <2>1 DEF TypeOK
  <2> QED
    BY <1>1, <2>1, <2>2, Unchanged, QuietKeeps DEF SessionsInv, WorkerInv
<1>3. ASSUME NEW c \in Clients, GetSession(c)
      PROVE  SessionsInv'
  <2>1. /\ KeysInv' /\ QueuesInv' /\ DumpIsComplete' /\ OneListedPerClient'
        /\ \A s \in DOMAIN sessions : sessions'[s] = sessions[s]
    BY <1>1, <1>3, GetSessionKeeps
  <2>2. UNCHANGED <<events, queues, worker, current, logged>>
    BY <1>3 DEF GetSession, Handlers
  <2>3. OnFirst' = OnFirst /\ All' = All
    BY <1>1, <2>1, <2>2, OnFirstSame DEF All
  <2> QED
    BY <1>1, <1>3, <2>1, <2>2, <2>3, GetSessionTyped, LogSame DEF SessionsInv, Stores, WorkerInv
<1>4. ASSUME NEW s \in held, AddEvent(s)
      PROVE  SessionsInv'
  BY <1>1, <1>4, AddEventTyped, AddEventKeeps, AddEventKeepsLog DEF SessionsInv, Stores
<1>5. ASSUME NEW s \in held, Close(s)
      PROVE  SessionsInv'
  <2>1. UNCHANGED <<now, events, queues, worker, current, logged, listed>>
    BY <1>5 DEF Close, Handlers
  <2>2. TypeOK' /\ Alike
    BY <1>1, <1>5, CloseTyped
  <2> QED
    BY <1>1, <2>1, <2>2, QuietKeeps DEF SessionsInv, WorkerInv
<1>6. CASE PurgeSessions
  <2>1. UNCHANGED <<now, sessions, events, worker, current, logged, listed>>
    BY <1>6 DEF PurgeSessions, Handlers
  <2>2. TypeOK' /\ DOMAIN queues \subseteq DOMAIN queues' /\ queues'[1] = queues[1]
    BY <1>1, <1>6, PurgeTyped, Lengths
  <2> QED
    BY <1>1, <2>1, <2>2, Unchanged, QuietKeeps DEF SessionsInv, WorkerInv
<1>7. CASE Take
  <2>1. UNCHANGED <<now, sessions, events, listed>>
    BY <1>7 DEF Take, Worker
  <2>2. TypeOK' /\ DOMAIN queues' = DOMAIN queues /\ LogIsFaithful' /\ WorkerInv'
    BY <1>1, <1>7, TakeTyped, TakeKeepsLog
  <2>3. KeysInv' /\ QueuesInv' /\ DumpIsComplete'
    BY <1>1, <2>1, <2>2, Unchanged, AlikeKeeps
  <2> QED
    BY <1>1, <2>1, <2>2, <2>3 DEF SessionsInv, Stores, OneListedPerClient
<1>8. CASE Logged
  <2>1. UNCHANGED <<now, sessions, events, listed, queues>>
    BY <1>8 DEF Logged, Worker
  <2>2. TypeOK' /\ LogIsFaithful' /\ WorkerInv'
    BY <1>1, <1>8, LoggedTyped, LoggedKeepsLog
  <2>3. KeysInv' /\ QueuesInv' /\ DumpIsComplete'
    BY <1>1, <2>1, <2>2, Unchanged, AlikeKeeps
  <2> QED
    BY <1>1, <2>1, <2>2, <2>3 DEF SessionsInv, Stores, OneListedPerClient
<1>9. CASE LoggerRaises \/ Stop
  <2>1. /\ UNCHANGED <<now, sessions, events, listed, queues, current, logged, held>>
        /\ worker' \in {worker, "dead"} /\ enabled' \in BOOLEAN
    BY <1>1, <1>9 DEF LoggerRaises, Stop, Worker, TypeOK
  <2>2. TypeOK' /\ WorkerInv'
    BY <1>1, <2>1 DEF TypeOK, WorkerInv
  <2> QED
    BY <1>1, <2>1, <2>2, Unchanged, QuietKeeps DEF SessionsInv
<1>10. CASE ProcessSessions
  <2>1. /\ UNCHANGED <<now, events, queues, current, logged>>
        /\ listed' = Sweep.kept /\ worker = "getting"
    BY <1>10 DEF ProcessSessions, Worker
  <2>2. TypeOK' /\ Alike
    BY <1>1, <1>10, ProcessTyped
  <2>3. OneListedPerClient'
    <3>1. /\ SweptRight(Len(listed)) /\ listed' \in Seq(DOMAIN sessions)
          /\ listed' = Swept[Len(listed)].kept
      BY <1>1, <2>1, SweepIsRight DEF TypeOK, SweptRight, Sweep
    <3>2. \A i \in DOMAIN listed' : listed'[i] \in DOMAIN sessions
      BY <3>1, LenProperties, ElementOfSeq
    <3> QED
      BY <2>2, <3>1, <3>2 DEF SweptRight, OneListedPerClient, Alike
  <2>4. WorkerInv'
    BY <1>1, <2>1 DEF WorkerInv
  <2> QED
    BY <1>1, <2>1, <2>2, <2>3, <2>4, QuietKeeps DEF SessionsInv
<1>11. CASE UNCHANGED vars
  <2>1. UNCHANGED <<now, sessions, listed, held, events, queues, enabled, worker, current, logged>>
    BY <1>11 DEF vars
  <2>2. TypeOK' /\ WorkerInv'
    BY <1>1, <2>1 DEF TypeOK, WorkerInv
  <2> QED
    BY <1>1, <2>1, <2>2, Unchanged, QuietKeeps DEF SessionsInv
<1> QED
  BY <1>2, <1>3, <1>4, <1>5, <1>6, <1>7, <1>8, <1>9, <1>10, <1>11 DEF Next, Serve

LEMMA SessionsInvariant == Spec => []SessionsInv
  BY SessionsAtStart, SessionsStep, PTL DEF Spec

THEOREM SessionsAreTyped == Spec => []TypeOK
  BY SessionsInvariant, PTL DEF SessionsInv

\* However long a client stays away and whatever expires meanwhile, in
\* whichever order the sweep passes over the list, get_session never has two
\* sessions of a client to choose from (session_manager.py, log_worker.py).
THEOREM OneListed == Spec => []OneListedPerClient
  BY SessionsInvariant, PTL DEF SessionsInv, Stores

\* For any clock and any burst of events, the dump of a session has every event
\* that was added to it, each under a later key than the one before
\* (attack_session.py).
THEOREM DumpsAreComplete == Spec => []DumpIsComplete
  BY SessionsInvariant, PTL DEF SessionsInv, Stores

\* Through stops, purges and loggers that raise, the loggers have got the events
\* of the worker's queue in their order, each once and none left out
\* (log_worker.py, attack_session.py).
THEOREM LogsAreFaithful == Spec => []LogIsFaithful
  BY SessionsInvariant, PTL DEF SessionsInv

-----------------------------------------------------------------------------
(***************************************************************************)
(* What is dropped was idle.                                               *)
(***************************************************************************)
LEMMA LargestExists ==
  ASSUME NEW set \in SUBSET Nat, IsFiniteSet(set), set # {}
  PROVE  \E m \in set : \A n \in set : n <= m
<1> DEFINE Bad(S) == S # {} /\ ~\E m \in S : \A n \in S : n <= m
           sizes == {c \in Nat : \E S \in SUBSET Nat :
                                   IsFiniteSet(S) /\ Cardinality(S) = c /\ Bad(S)}
<1>1. SUFFICES ASSUME Bad(set) PROVE FALSE
  OBVIOUS
<1>2. sizes # {} /\ sizes \in SUBSET Nat
  <2>1. Cardinality(set) \in Nat
    BY FS_CardinalityType
  <2>2. Cardinality(set) \in sizes
    <3> HIDE DEF Bad
    <3> QED
      BY <1>1, <2>1
  <2> QED
    BY <2>2
<1>3. PICK c \in sizes : \A b \in sizes : c <= b
  <2> HIDE DEF sizes
  <2> QED
    BY <1>2, Smallest
<1>4. PICK S \in SUBSET Nat : IsFiniteSet(S) /\ Cardinality(S) = c /\ Bad(S)
  BY <1>3
<1>5. PICK x \in S : TRUE
  BY <1>4
<1>6. c \in Nat /\ IsFiniteSet(S \ {x}) /\ Cardinality(S \ {x}) = c - 1 /\ c - 1 \in Nat
  <2>1. c \in Nat
    BY <1>3
  <2>2. IsFiniteSet(S \ {x}) /\ Cardinality(S \ {x}) = c - 1
    BY <1>4, <1>5, FS_RemoveElement
  <2>3. Cardinality(S \ {x}) \in Nat
    BY <2>2, FS_CardinalityType
  <2> QED
    BY <2>1, <2>2, <2>3
<1>7. ~Bad(S \ {x})
  <2>1. c - 1 \notin sizes
    BY <1>3, <1>6
  <2> QED
    BY <1>6, <2>1
<1>8. CASE S \ {x} = {}
  <2>1. \A n \in S : n = x /\ n \in Nat
    BY <1>8
  <2> QED
    BY <1>4, <1>5, <2>1
<1>9. CASE S \ {x} # {}
  <2>1. PICK m \in S \ {x} : \A n \in S \ {x} : n <= m
    BY <1>7, <1>9
  <2>2. m \in Nat /\ x \in Nat
    BY <1>5
  <2>3. CASE x <= m
    BY <1>4, <2>1, <2>3
  <2>4. CASE m <= x
    <3>1. \A n \in S : n \in Nat /\ n <= x
      <4>1. \A n \in S : n \in Nat /\ (n = x \/ n <= m)
        BY <2>1
      <4> QED
        BY <2>2, <2>4, <4>1
    <3> QED
      BY <1>4, <1>5, <3>1
  <2> QED
    BY <2>2, <2>3, <2>4
<1> QED
  BY <1>8, <1>9

LEMMA DivIs ==
  ASSUME NEW a \in Nat, NEW m \in Nat \ {0}
  PROVE  a \div m \in Nat /\ m * (a \div m) <= a /\ a < m * (a \div m) + m
  OBVIOUS

LEMMA TimesKeepsOrder ==
  ASSUME NEW a \in Int, NEW b \in Int, NEW m \in Nat, a <= b
  PROVE  m * a <= m * b
  OBVIOUS

\* What whole seconds lose: a session that seems idle for T seconds has been
\* idle for more than T - 2.
LEMMA WholeSeconds ==
  ASSUME NEW a \in Nat, NEW b \in Nat, NEW k \in Nat, NEW l \in Nat, l - b <= k,
         NEW m \in Nat \ {0}, NEW T \in Nat,
         (a \div m) - ((b \div m) + (k \div m)) >= T
  PROVE  a - l > (T - 2) * m
<1> DEFINE qa == a \div m
           qb == b \div m
           qk == k \div m
<1>1. qa \in Nat /\ m * qa <= a /\ a < m * qa + m
  BY DivIs
<1>2. qb \in Nat /\ m * qb <= b /\ b < m * qb + m
  BY DivIs
<1>3. qk \in Nat /\ m * qk <= k /\ k < m * qk + m
  BY DivIs
<1>4. T <= qa - (qb + qk)
  BY <1>1, <1>2, <1>3
<1> HIDE DEF qa, qb, qk
<1>5. m * T <= m * (qa - (qb + qk))
  BY <1>1, <1>2, <1>3, <1>4, TimesKeepsOrder
<1>6. m * (qa - (qb + qk)) = m * qa - m * qb - m * qk
  BY <1>1, <1>2, <1>3
<1>7. (T - 2) * m = m * T - 2 * m
  OBVIOUS
<1>8. m * T \in Int /\ m * qa \in Int /\ m * qb \in Int /\ m * qk \in Int
  BY <1>1, <1>2, <1>3
<1> QED
  BY <1>1, <1>2, <1>3, <1>5, <1>6, <1>7, <1>8

LEMMA TimedOutIsIdle ==
  ASSUME SessionsInv, NEW s \in DOMAIN sessions, TimedOut(s)
  PROVE  now - sessions[s].last > (Timeout - 2) * MsPerSec
<1> DEFINE a == now
           b == sessions[s].start
           k == LastKey(s)
           l == sessions[s].last
<1>1. TypeOK /\ KeysInv
  BY DEF SessionsInv, Stores
<1>2. a \in Nat /\ b \in Nat /\ l \in Nat
  BY <1>1, Lengths, Fields DEF TypeOK
<1>3. /\ Keys(s) \subseteq Nat /\ IsFiniteSet(Keys(s))
      /\ l = b \/ \E n \in Keys(s) : l - b <= n
  BY <1>1, KeysAreNat DEF KeysInv
<1>4. k \in Nat /\ l - b <= k
  <2>1. CASE Keys(s) = {}
    BY <1>2, <1>3, <2>1 DEF LastKey
  <2>2. CASE Keys(s) # {}
    <3>1. \E m \in Keys(s) : \A n \in Keys(s) : n <= m
      BY <1>3, <2>2, LargestExists
    <3>2. k \in Keys(s) /\ \A n \in Keys(s) : n <= k
      BY <2>2, <3>1 DEF LastKey, Largest
    <3> HIDE DEF k
    <3>3. k \in Nat
      BY <1>3, <3>2
    <3>4. CASE l = b
      BY <1>2, <3>3, <3>4
    <3>5. ASSUME NEW n \in Keys(s), l - b <= n
          PROVE  l - b <= k
      <4>1. n \in Nat /\ n <= k
        BY <1>3, <3>2
      <4> QED
        BY <1>2, <3>3, <3>5, <4>1
    <3> QED
      BY <1>3, <3>3, <3>4, <3>5
  <2> QED
    BY <2>1, <2>2
<1>5. (a \div MsPerSec) - ((b \div MsPerSec) + (k \div MsPerSec)) >= Timeout
  BY DEF TimedOut, Secs
<1>6. MsPerSec \in Nat \ {0} /\ Timeout \in Nat
  BY SessionsAssumption
<1> HIDE DEF a, b, k, l
<1>7. a - l > (Timeout - 2) * MsPerSec
  BY <1>2, <1>4, <1>5, <1>6, WholeSeconds
<1> QED
  BY <1>7 DEF a, l

LEMMA DroppedIsIdle ==
  ASSUME SessionsInv, [Next]_vars
  PROVE  \A s \in ToSet(listed) \ ToSet(listed') :
           now - sessions[s].last > (Timeout - 2) * MsPerSec
<1>1. SUFFICES ASSUME NEW s \in ToSet(listed), s \notin ToSet(listed')
               PROVE  now - sessions[s].last > (Timeout - 2) * MsPerSec
  OBVIOUS
<1>2. TypeOK /\ OneListedPerClient
  BY DEF SessionsInv, Stores
<1>3. listed' # listed
  BY <1>1
<1>4. ASSUME NEW c \in Clients, GetSession(c)
      PROVE  FALSE
  <2>1. \A x : listed' = Append(listed, x) => s \in ToSet(listed')
    <3>1. ASSUME NEW x, listed' = Append(listed, x)
          PROVE  s \in ToSet(listed')
      <4>1. PICK i \in DOMAIN listed : listed[i] = s
        BY DEF ToSet
      <4>2. Len(listed) \in Nat /\ DOMAIN listed = 1..Len(listed)
        BY <1>2, Lengths
      <4>3. i \in DOMAIN listed' /\ listed'[i] = s
        BY <3>1, <4>1, <4>2
      <4> QED
        BY <4>3 DEF ToSet
    <3> QED
      BY <3>1
  <2> QED
    BY <1>1, <1>3, <1>4, <2>1 DEF GetSession
<1>5. ProcessSessions
  BY <1>3, <1>4 DEF Next, Serve, vars, Tick, AddEvent, Close, PurgeSessions, Take, Logged,
                    LoggerRaises, Stop
<1>6. s \in DOMAIN sessions /\ \E k \in 1..Len(listed) : listed[k] = s
  BY <1>2, Lengths DEF ToSet
<1>7. TimedOut(s)
  <2>1. SweptRight(Len(listed)) /\ listed' = Swept[Len(listed)].kept
    BY <1>2, <1>5, SweepIsRight DEF TypeOK, ProcessSessions, Sweep
  <2> QED
    BY <1>1, <1>6, <2>1 DEF SweptRight, ToSet
<1> QED
  BY <1>6, <1>7, TimedOutIsIdle

\* For any timeout and any clock, a session whose client was active in the last
\* Timeout - 2 seconds is not dropped, though keys run ahead of the clock and
\* only whole seconds are compared (log_worker.py).
THEOREM ExpiredAreIdle == Spec => ExpiresOnlyIdle
<1>1. SessionsInv /\ [Next]_vars =>
        [\A s \in ToSet(listed) \ ToSet(listed') :
           now - sessions[s].last > (Timeout - 2) * MsPerSec]_vars
  BY DroppedIsIdle
<1> QED
  BY <1>1, SessionsInvariant, PTL DEF Spec, ExpiresOnlyIdle
=============================================================================
