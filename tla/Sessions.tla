------------------------------ MODULE Sessions ------------------------------
(***************************************************************************)
(* Attack sessions and the log worker.  Sources: core/session_manager.py,  *)
(* core/attack_session.py, core/loggers/log_worker.py.                     *)
(*                                                                         *)
(* A protocol handler asks the session manager for the session of its      *)
(* client and adds events to it; each event goes into the session and onto *)
(* the log queue.  The log worker hands queued events to the loggers and,  *)
(* when the queue stays empty, drops the sessions that timed out.          *)
(* Time is in milliseconds; a second is MsPerSec of them.                  *)
(***************************************************************************)
EXTENDS Integers, Sequences, FiniteSets, SequencesExt

CONSTANTS Clients,       \* pairs of protocol and source address
          MsPerSec,      \* milliseconds in a second
          Timeout,       \* session timeout in seconds
          TimeoutIsText, \* the timeout was read from a [session] section
          MaxSessions,   \* bound on the sessions ever created
          MaxEvents,     \* bound on the events ever added
          LastActivity,  \* bound on the time of the last handler step
          MaxNow,        \* bound on time
          MaxPurges      \* bound on purge_sessions

ASSUME SessionsAssumption ==
    /\ MsPerSec \in Nat \ {0}
    /\ Timeout \in Nat
    /\ TimeoutIsText \in BOOLEAN
    /\ {MaxSessions, MaxEvents, LastActivity, MaxNow, MaxPurges} \subseteq Nat

VARIABLES now,       \* the clock
          sessions,  \* every session created, in order of creation
          listed,    \* SessionManager._sessions, as indices of sessions
          held,      \* sessions some open connection still holds
          events,    \* every event added, in order: the session it is of
          queues,    \* every log queue created; the last is the manager's
          enabled,   \* LogWorker.enabled
          worker,    \* what the log worker's greenlet is doing
          current,   \* the event it took from its queue, if any
          logged     \* the events every logger has got

vars == <<now, sessions, listed, held, events, queues, enabled, worker,
          current, logged>>

Stored == [ms : Nat, id : Nat \ {0}]
Session == [client : Clients, start : Nat, ended : BOOLEAN, queue : Nat \ {0},
            data : SUBSET Stored, last : Nat]

TypeOK ==
    /\ now \in Nat
    /\ sessions \in Seq(Session)
    /\ listed \in Seq(DOMAIN sessions)
    /\ held \subseteq DOMAIN sessions
    /\ events \in Seq(DOMAIN sessions)
    /\ queues \in Seq(Seq(DOMAIN events)) /\ queues # <<>>
    /\ enabled \in BOOLEAN
    /\ worker \in {"getting", "logging", "stopped", "dead"}
    /\ current \in Seq(DOMAIN events)
    /\ logged \in Seq(DOMAIN events)

Init ==
    /\ now = 0
    /\ sessions = <<>>
    /\ listed = <<>>
    /\ held = {}
    /\ events = <<>>
    /\ queues = <<(<<>>)>>
    /\ enabled = TRUE
    /\ worker = "getting"
    /\ current = <<>>
    /\ logged = <<>>

Tick == /\ now < MaxNow
        /\ now' = now + 1
        /\ UNCHANGED <<sessions, listed, held, events, queues, enabled, worker, current, logged>>
-----------------------------------------------------------------------------
(* Mutant of SessionOf: ended sessions are not reused.                     *)
RunningSessionOf(c) ==
    {s \in ToSet(listed) : sessions[s].client = c /\ ~sessions[s].ended}

(* Handlers.  get_session returns the listed session of the client, ended  *)
(* or not, and creates and lists one otherwise.                            *)
SessionOf(c) == {s \in ToSet(listed) : sessions[s].client = c}

New(c) == [client |-> c, start |-> now, ended |-> FALSE, queue |-> Len(queues),
           data |-> {}, last |-> now]

Handlers == /\ now <= LastActivity
            /\ UNCHANGED <<now, enabled, worker, current, logged>>

GetSession(c) ==
    /\ Handlers
    /\ IF SessionOf(c) # {}
         THEN /\ held' = held \cup SessionOf(c)
              /\ UNCHANGED <<sessions, listed>>
         ELSE /\ Len(sessions) < MaxSessions
              /\ sessions' = Append(sessions, New(c))
              /\ listed' = Append(listed, Len(sessions'))
              /\ held' = held \cup {Len(sessions')}
    /\ UNCHANGED <<events, queues>>

(* The elapsed time is the event's key in the session, or the next free    *)
(* millisecond after it.                                                   *)
Keys(s) == {x.ms : x \in sessions[s].data}
Elapsed(s) == now - sessions[s].start

(* Mutant of KeyFor: no search for a free millisecond.                     *)
KeyWithoutBump(s) == Elapsed(s)

KeyFor(s) ==
    CHOOSE m \in Elapsed(s)..(Elapsed(s) + Cardinality(Keys(s))) :
        m \notin Keys(s) /\ \A n \in Elapsed(s)..(m - 1) : n \in Keys(s)

Assign(d, m, e) == {x \in d : x.ms # m} \cup {[ms |-> m, id |-> e]}

AddEvent(s) ==
    LET e == Len(events) + 1
    IN  /\ Handlers
        /\ s \in held
        /\ Len(events) < MaxEvents
        /\ events' = Append(events, s)
        /\ sessions' = [sessions EXCEPT ![s].data = Assign(@, KeyFor(s), e),
                                        ![s].last = now]
        /\ queues' = [queues EXCEPT ![sessions[s].queue] = Append(@, e)]
        /\ UNCHANGED <<listed, held>>

(* The proxy marks its session ended when a connection closes; the session *)
(* stays listed.  Other handlers just drop it.                             *)
Close(s) ==
    /\ Handlers
    /\ s \in held
    /\ held' = held \ {s}
    /\ \E proxied \in BOOLEAN :
          sessions' = [sessions EXCEPT ![s].ended = @ \/ proxied]
    /\ UNCHANGED <<listed, events, queues>>

(* purge_sessions gives the manager a new queue.  Sessions and the worker  *)
(* keep the one they have.                                                 *)
PurgeSessions ==
    /\ Handlers
    /\ Len(queues) <= MaxPurges
    /\ queues' = Append(queues, <<>>)
    /\ UNCHANGED <<sessions, listed, held, events>>
-----------------------------------------------------------------------------
(* The log worker, on the queue the manager had when it was created.       *)
Worker == UNCHANGED <<now, held, events>>

(* Mutant of Take: the newest event first.                                 *)
TakeNewest ==
    /\ Worker
    /\ worker = "getting" /\ queues[1] # <<>>
    /\ current' = <<Last(queues[1])>>
    /\ queues' = [queues EXCEPT ![1] = Front(@)]
    /\ worker' = "logging"
    /\ UNCHANGED <<sessions, listed, enabled, logged>>

(* Mutant of Take: only the events of listed sessions are logged.          *)
TakeListed ==
    /\ Worker
    /\ worker = "getting" /\ queues[1] # <<>>
    /\ events[Head(queues[1])] \in ToSet(listed)
    /\ current' = <<Head(queues[1])>>
    /\ queues' = [queues EXCEPT ![1] = Tail(@)]
    /\ worker' = "logging"
    /\ UNCHANGED <<sessions, listed, enabled, logged>>

Take ==
    /\ Worker
    /\ worker = "getting" /\ queues[1] # <<>>
    /\ current' = <<Head(queues[1])>>
    /\ queues' = [queues EXCEPT ![1] = Tail(@)]
    /\ worker' = "logging"
    /\ UNCHANGED <<sessions, listed, enabled, logged>>

NextTurn == IF enabled THEN "getting" ELSE "stopped"

(* Every enabled logger has taken the event.                               *)
Logged ==
    /\ Worker
    /\ worker = "logging"
    /\ logged' = logged \o current
    /\ current' = <<>>
    /\ worker' = NextTurn
    /\ UNCHANGED <<sessions, listed, queues, enabled>>

(* A logger raises: the worker's greenlet dies and takes the program down  *)
(* (bin/conpot links on_unhandled_greenlet_exception to it).               *)
LoggerRaises ==
    /\ Worker
    /\ worker = "logging"
    /\ worker' = "dead"
    /\ UNCHANGED <<sessions, listed, queues, enabled, current, logged>>

(* stop: the worker finishes its turn, which may still take one event.     *)
Stop ==
    /\ Worker
    /\ enabled
    /\ enabled' = FALSE
    /\ UNCHANGED <<sessions, listed, queues, worker, current, logged>>

Secs(ms) == ms \div MsPerSec
Largest(S) == CHOOSE m \in S : \A n \in S : n <= m
LastKey(s) == IF Keys(s) = {} THEN 0 ELSE Largest(Keys(s))

(* Mutant of TimedOut: counts from the start of the session.               *)
TimedOutFromStart(s) ==
    ~TimeoutIsText /\ Secs(now) - Secs(sessions[s].start) >= Timeout

(* _process_sessions compares whole seconds.  ConfigParser.get returns the *)
(* timeout as text, and in Python 2 no number is >= a text.                *)
TimedOut(s) ==
    /\ ~TimeoutIsText
    /\ Secs(now) - (Secs(sessions[s].start) + Secs(LastKey(s))) >= Timeout

(* Removing from the list while a for loop runs over it makes the loop     *)
(* pass over the element after each removed one.                           *)
SweepStep(acc, s) ==
    IF acc.skip \/ ~TimedOut(s)
      THEN [kept |-> Append(acc.kept, s), gone |-> acc.gone, skip |-> FALSE]
      ELSE [kept |-> acc.kept, gone |-> acc.gone \cup {s}, skip |-> TRUE]

Unswept == [kept |-> <<>>, gone |-> {}, skip |-> FALSE]

(* Mutant of Sweep: the loop starts at the second session.                 *)
SweepRest ==
    LET first == SelectSeq(listed, LAMBDA s : s = listed[1])
        rest == SelectSeq(listed, LAMBDA s : s # listed[1])
    IN  FoldLeft(SweepStep, [Unswept EXCEPT !.kept = first], rest)

Swept[i \in 0..Len(listed)] ==
    IF i = 0 THEN Unswept ELSE SweepStep(Swept[i - 1], listed[i])

Sweep == Swept[Len(listed)]

(* queue.get timed out on an empty queue.                                  *)
ProcessSessions ==
    /\ Worker
    /\ worker = "getting" /\ queues[1] = <<>>
    /\ sessions' = [s \in DOMAIN sessions |->
                      [sessions[s] EXCEPT !.ended = @ \/ s \in Sweep.gone]]
    /\ listed' = Sweep.kept
    /\ worker' = NextTurn
    /\ UNCHANGED <<queues, enabled, current, logged>>
-----------------------------------------------------------------------------
Serve == Take \/ Logged \/ LoggerRaises \/ ProcessSessions

Next ==
    \/ Tick
    \/ \E c \in Clients : GetSession(c)
    \/ \E s \in held : AddEvent(s) \/ Close(s)
    \/ PurgeSessions
    \/ Serve
    \/ Stop

Spec == Init /\ [][Next]_vars

(* Time passes and the worker's greenlet runs; nobody has to attack.       *)
FairSpec == Spec /\ WF_vars(Tick) /\ WF_vars(Serve)
-----------------------------------------------------------------------------
(* However long a client stays away and whatever expires, no two listed    *)
(* sessions are of one client, so get_session has only one to return.      *)
OneListedPerClient ==
    \A i, j \in DOMAIN listed :
        sessions[listed[i]].client = sessions[listed[j]].client => i = j

(* The dump of a session has every event added to it, under keys in the    *)
(* order they were added, even when events come faster than one per        *)
(* millisecond and borrow later milliseconds (AttackSession.add_event).    *)
DumpIsComplete ==
    /\ \A e \in DOMAIN events : \E x \in sessions[events[e]].data : x.id = e
    /\ \A s \in DOMAIN sessions : \A x, y \in sessions[s].data :
          x.id < y.id => x.ms < y.ms

(* The loggers get the events of a queue in the order they were added,     *)
(* each once and none left out, across all sessions and through stop, a    *)
(* purge and a logger's exception: what is not logged is in hand or queued.*)
QueuedOn(e) == sessions[events[e]].queue

LogIsFaithful ==
    LET all == logged \o current \o queues[1]
    IN  /\ ToSet(all) = {e \in DOMAIN events : QueuedOn(e) = 1}
        /\ \A i, j \in DOMAIN all : i < j => all[i] < all[j]

(* Whole-second arithmetic and keys that run ahead may not drop a session  *)
(* whose client was active in the last Timeout - 2 seconds.                *)
ExpiresOnlyIdle ==
    [][\A s \in ToSet(listed) \ ToSet(listed') :
          now - sessions[s].last > (Timeout - 2) * MsPerSec]_vars

(* A session that has timed out is dropped, though one turn of             *)
(* _process_sessions may pass over it, or its client becomes active again, *)
(* or the worker is gone, or it never finds its queue empty.               *)
IdleSessionsExpire ==
    \A s \in 1..MaxSessions :
        (s \in ToSet(listed) /\ enabled
           /\ now - sessions[s].last > (Timeout + 2) * MsPerSec)
        ~> (s \notin ToSet(listed) \/ ~enabled \/ worker = "dead"
              \/ now - sessions[s].last <= (Timeout + 2) * MsPerSec)

(* Every event on the worker's queue is logged, unless the worker stops.   *)
EventsAreLogged ==
    \A e \in 1..MaxEvents :
        (e \in DOMAIN events /\ QueuedOn(e) = 1)
        ~> (e \in ToSet(logged) \/ ~enabled \/ worker = "dead")
=============================================================================
