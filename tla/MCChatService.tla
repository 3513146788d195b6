--------------------------- MODULE MCChatService ---------------------------
(* Two connection slots: each can be the holder, the one that displaces it,  *)
(* and, used again while the other still runs, the one displaced.            *)
EXTENDS ChatService
=============================================================================
