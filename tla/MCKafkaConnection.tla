------------------------- MODULE MCKafkaConnection -------------------------
(* Model-checking instance of KafkaConnection.                             *)
EXTENDS KafkaConnection

(* Anything fails, and nothing does.                                        *)
Calm(n) == [requests |-> n, faults |-> {}]
MCWorlds == {Calm(5), [requests |-> 2, faults |-> FaultKinds]}
CalmWorld == {Calm(2)}
=============================================================================
