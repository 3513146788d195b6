---------------------------- MODULE MCChatPages ----------------------------
(* One window over faults, and two windows without any. *)
EXTENDS ChatPages
=============================================================================
