----------------------------- MODULE MCDatabus -----------------------------
(* A list of one element that is stored and told apart like any value,     *)
(* written under the keys "w" and "r"; two observers listen to "w".        *)
EXTENDS Databus, TLC

CONSTANTS q, e0, e1, c1, c2

KeyW(x) == [prefix |-> "w", point |-> x]
KeyR(x) == [prefix |-> "r", point |-> x]

ListPoints == {q}
ListKeys == {KeyW(q), KeyR(q)}
ListDelays == {KeyW(q)}
ListInterest == {<<KeyW(q), c1>>, <<KeyW(q), c2>>}
ListDefaults == [x \in {q} |-> <<e0>>]
=============================================================================
