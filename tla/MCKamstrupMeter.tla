-------------------------- MODULE MCKamstrupMeter --------------------------
(* A request for registers 1033 and 1034 has no byte that is escaped; one  *)
(* for 13, the meter's energy counter, and 128 has three.                  *)
EXTENDS KamstrupMeter, TLC

CONSTANTS c1, c2

Ask(addr, regs) == [addr |-> addr, regs |-> regs]

Plain == Ask(63, <<1033, 1034>>)
Other == Ask(62, <<1033>>)
Energy == Ask(63, <<13, 128>>)

SafeStreams ==
    {[noise |-> <<>>, requests |-> <<Plain, Ask(63, <<1033>>)>>, whole |-> FALSE],
     [noise |-> <<1, 2>>, requests |-> <<Other, Plain>>, whole |-> FALSE],
     [noise |-> <<>>, requests |-> <<Energy, Plain, Energy>>, whole |-> TRUE]}

(* The theorems about HandledAsSent and NothingLeft are about such streams. *)
ASSUME SafeStreamsFit == \A s \in SafeStreams : Fits(s)

EnergyStreams ==
    {[noise |-> <<>>, requests |-> <<Ask(63, <<13>>)>>, whole |-> FALSE]}

Registers382 == {13, 1033}

ConnSymmetry == Permutations({c1, c2})
=============================================================================
