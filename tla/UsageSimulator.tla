--------------------------- MODULE UsageSimulator ---------------------------
(***************************************************************************)
(* The simulator of a Kamstrup meter's power usage                         *)
(* (protocols/kamstrup/usage_simulator.py) and the databus that creates it *)
(* from a template and stops it again (core/databus.py: initialize, reset).*)
(*                                                                         *)
(* Three greenlets take part: the one that calls initialize or reset, the  *)
(* one each simulator spawns to take its registers over once the databus   *)
(* is initialized, and the counter which that one spawns.  A greenlet runs *)
(* until it waits, so each action goes from one wait to the next.          *)
(***************************************************************************)
EXTENDS Integers, Sequences

CONSTANTS
    Reading,  \* what the template gives register_13
    Gain,     \* the energy of a second, int(power * 0.0036) over the phases
    MaxLoads, \* how often a template is loaded
    MaxEnergy \* where the model stops counting

VARIABLES
    initialized, \* the databus' event
    register,    \* register_13: "none", "number" or the simulator that answers it
    present,     \* the simulator in the databus' data, 0 if there is none
    simulators,  \* all simulators made: where each is, enabled, and its energy_in
    caller,      \* what the greenlet that loads and resets is doing
    loads

vars == <<initialized, register, present, simulators, caller, loads>>

\* A simulator waits for the databus, counts, and has set stopped.
Stages == {"waits", "starts", "counts", "stopped"}

TypeOK ==
    /\ initialized \in BOOLEAN
    /\ register \in -1..MaxLoads \* -1: there is none, 0: a number
    /\ present \in 0..Len(simulators)
    /\ simulators \in Seq([at : Stages, enabled : BOOLEAN, energy : 0..MaxEnergy])
    /\ caller \in {"idle", "resets", "reloads", "loads"}
    /\ loads \in 0..MaxLoads
    /\ initialized => register >= 0 /\ present # 0
    /\ register > 0 => register = present

Init ==
    /\ initialized = FALSE /\ register = -1 /\ present = 0
    /\ simulators = <<>> /\ caller = "idle" /\ loads = 0

----------------------------------------------------------------------------
\* reset, up to the wait of stop; initialize begins with it.
Reset(next) ==
    /\ caller = "idle"
    /\ next = "reloads" => loads < MaxLoads
    /\ caller' = next
    /\ simulators' = IF present = 0 THEN simulators
                     ELSE [simulators EXCEPT ![present].enabled = FALSE]
    /\ UNCHANGED <<initialized, register, present, loads>>

\* Mutant of Stopped: stop does not wait for the counter.
StoppedAtOnce == present # 0 => ~simulators[present].enabled

\* Has stop returned?
Stopped == present # 0 => simulators[present].at = "stopped"

\* The rest of reset.
Clear ==
    /\ caller \in {"resets", "reloads"} /\ Stopped
    /\ initialized' = FALSE /\ register' = -1 /\ present' = 0
    /\ caller' = IF caller = "reloads" THEN "loads" ELSE "idle"
    /\ UNCHANGED <<simulators, loads>>

Simulator == [at |-> "waits", enabled |-> TRUE, energy |-> 0]

\* The rest of initialize; the template's entries are set in turn, and an
\* entry that cannot be loaded ends it before the event is set: in front of
\* the simulator's entry, or after it.
Load ==
    /\ caller = "loads"
    /\ caller' = "idle" /\ loads' = loads + 1
    /\ \/ /\ initialized' = TRUE /\ register' = 0
          /\ present' = Len(simulators) + 1
          /\ simulators' = Append(simulators, Simulator)
       \/ /\ initialized' = FALSE /\ register' \in {-1, 0}
          /\ present' = Len(simulators) + 1
          /\ simulators' = Append(simulators, Simulator)
       \/ register' \in {-1, 0} /\ UNCHANGED <<initialized, present, simulators>>

\* Mutant of TakeOver: a simulator that has been stopped spawns no counter.
TakeOverEnabled(s) ==
    /\ simulators[s].at = "waits" /\ initialized
    /\ register' = s
    /\ simulators' = [simulators EXCEPT
          ![s].at = IF simulators[s].enabled THEN "starts" ELSE "waits",
          ![s].energy = IF register > 0 THEN simulators[register].energy ELSE Reading]
    /\ UNCHANGED <<initialized, present, caller, loads>>

\* UsageSimulator.initialize, once the event is set: the register is read and
\* replaced by a function, and the counter is spawned.
TakeOver(s) ==
    /\ simulators[s].at = "waits" /\ initialized
    /\ register' = s
    /\ simulators' = [simulators EXCEPT
          ![s].at = "starts",
          ![s].energy = IF register > 0 THEN simulators[register].energy ELSE Reading]
    /\ UNCHANGED <<initialized, present, caller, loads>>

\* while self._enabled: a second's sleep, or the end.
Round(s) == IF simulators[s].enabled THEN "counts" ELSE "stopped"

StartCounter(s) ==
    /\ simulators[s].at = "starts"
    /\ simulators' = [simulators EXCEPT ![s].at = Round(s)]
    /\ UNCHANGED <<initialized, register, present, caller, loads>>

\* One turn of usage_counter, from one sleep to the next.
Count(s) ==
    /\ simulators[s].at = "counts"
    /\ simulators' = [simulators EXCEPT
          ![s].energy = IF @ + Gain > MaxEnergy THEN MaxEnergy ELSE @ + Gain,
          ![s].at = Round(s)]
    /\ UNCHANGED <<initialized, register, present, caller, loads>>

Greenlet(s) == TakeOver(s) \/ StartCounter(s) \/ Count(s)

Next ==
    \/ Reset("resets")
    \/ Reset("reloads")
    \/ Clear
    \/ Load
    \/ \E s \in 1..Len(simulators) : Greenlet(s)

Spec == Init /\ [][Next]_vars

\* gevent runs a greenlet whose event is set or whose sleep is over; nobody
\* has to call initialize or reset.
Fairness ==
    /\ WF_vars(Clear) /\ WF_vars(Load)
    /\ \A s \in 1..MaxLoads : WF_vars(s <= Len(simulators) /\ Greenlet(s))

FairSpec == Spec /\ Fairness

----------------------------------------------------------------------------
(* A reset of an initialized databus returns, even one that comes before the   *)
(* simulator has begun: its counter is started only to see that it is disabled *)
(* (usage_simulator.py:51-53 and 41-49 and 107).  After a load that failed it  *)
(* may wait for ever.                                                          *)
ResetReturns ==
    initialized /\ caller \in {"resets", "reloads"} ~> caller \in {"idle", "loads"}

(* Two simulators never run at once: the databus makes a new one only when the *)
(* greenlets of the last have ended (databus.py:182-192, usage_simulator.py:49).*)
OneSimulatorRuns ==
    \A s, t \in 1..Len(simulators) :
        simulators[s].at # "stopped" /\ simulators[t].at # "stopped" => s = t

\* What a client that reads register_13 gets.
Energy == IF register > 0 THEN simulators[register].energy ELSE Reading

\* The meter never runs backwards, not even when the simulator takes the
\* register over (usage_simulator.py:60-64, 41-47).
MeterNeverFalls == initialized /\ initialized' => Energy' >= Energy

(* The meter has one simulator at a time, and runs forwards only               *)
(* (databus.py:182-192, usage_simulator.py:41-64).                             *)
OneMeter == [][OneSimulatorRuns' /\ MeterNeverFalls]_vars
=============================================================================
