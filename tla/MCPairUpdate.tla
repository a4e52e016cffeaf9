---------------------------- MODULE MCPairUpdate ----------------------------
EXTENDS PairUpdate

MCProto == [v \in 1 .. MaxVer |-> IF v > 1 THEN 2 ELSE 1]
MCFloor == [v \in 1 .. MaxVer |-> 0]
=============================================================================
