---------------------------- MODULE MCToolFrames ----------------------------
(* Three tool calls, two of one tool, over two turns and one dropped connection. *)
EXTENDS ToolFrames

MCName == [x \in Calls |-> IF x = "read" THEN "read_input" ELSE "set_output"]
=============================================================================
