---------------------------- MODULE MCAgentTools ----------------------------
(* One session with two writers of a device and a query: a read, or a refresh *)
(* of the device list, while they wait; a server that may restart with        *)
(* another configuration and interval.                                        *)
EXTENDS AgentTools

MCSess == [c \in Calls |-> "s1"]
MCKind == [c \in Calls |-> IF c = "query" THEN "query" ELSE "set"]
MCDev == [c \in Calls |-> IF c = "query" THEN "d2" ELSE "d1"]
MCServed == <<[devs |-> {"d1", "d2"}, interval |-> 2], [devs |-> {"d1"}, interval |-> 3]>>
=============================================================================
