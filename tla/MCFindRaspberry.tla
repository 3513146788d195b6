--------------------------- MODULE MCFindRaspberry ---------------------------
(* Three machines in a network of four addresses, one of two inside it and    *)
(* another of two; one address is no candidate.  Files with a key twice, in   *)
(* every form, or missing.                                                    *)
EXTENDS FindRaspberry

MCCidrs == {[first |-> 0, size |-> 4], [first |-> 2, size |-> 2], [first |-> 4, size |-> 2]}
MCDefaults == <<"raspberrypi.local">>
MCOptions == {<<>>, <<"raspberrypi.local">>}
MCIp == [m \in Machines |-> <<"10.0.0.1", "", "10.0.0.3", "10.0.0.4">>[m]]

Line(k, f, v) == [key |-> k, form |-> f, val |-> v]
MCFiles ==
    {<<Line("RPI_SSH_HOST", "plain", "raspberrypi.local"),
       Line("RPI_SSH_HOST", "export", "pi.lan")>>,
     <<Line("LLM_API_KEY", "tab", "key1"), Line("RPI_SSH_HOST", "comment", "pi.lan"),
       Line("RPI_MCP_HOST", "tab", "pi.lan"), Line("LLM_API_KEY", "export", "key2")>>}
=============================================================================
