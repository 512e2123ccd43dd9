---------------------------- MODULE MCRetryQueue ----------------------------
(* RetryQueue with ids as numbers: the last id has the higher priority, so *)
(* it overtakes earlier ones, and the others are served first come first   *)
(* served.                                                                 *)
EXTENDS RetryQueue
CONSTANT NumIds
MCIds == 1..NumIds
MCPriority == [i \in MCIds |-> IF i = NumIds THEN 2 ELSE 1]
=============================================================================
