------------------------ MODULE MCPrioritySerializer ------------------------
(* PrioritySerializer with three tasks of three priorities, as the session   *)
(* uses it: a Stop, an ordinary operation and the telemetry poll.            *)
EXTENDS PrioritySerializer, TLC

CONSTANTS a, b, c
MCTasks == {a, b, c}
MCPriorities == {0, 10}
MCSymmetry == Permutations(MCTasks)
=============================================================================
