---------------------------- MODULE MCChatAgent ----------------------------
(* Two connections; the first session writes a device with "on" and "off",   *)
(* the second with "late".                                                   *)
EXTENDS ChatAgent

MCSess == [x \in Calls |-> IF x = "late" THEN "c2" ELSE "c1"]
MCKind == [x \in Calls |-> "set"]
MCDev == [x \in Calls |-> "d1"]
MCServed == <<[devs |-> {"d1"}, interval |-> Cap]>>
=============================================================================
