---------------------------- MODULE MCChatThread ----------------------------
(***************************************************************************)
(* Small instances of ChatThread for TLC.                                  *)
(***************************************************************************)
EXTENDS ChatThread, TLC

ReadFile == [valid |-> TRUE, mcp |-> FALSE, edit |-> FALSE, ask |-> FALSE]
EditFile == [valid |-> TRUE, mcp |-> FALSE, edit |-> TRUE, ask |-> TRUE]
BadCall == [valid |-> FALSE, mcp |-> FALSE, edit |-> FALSE, ask |-> FALSE]
McpAuto == [valid |-> TRUE, mcp |-> TRUE, edit |-> FALSE, ask |-> FALSE]
McpAsk == [valid |-> TRUE, mcp |-> TRUE, edit |-> FALSE, ask |-> TRUE]

\* What the LLM may call.
AllTools == {ReadFile, EditFile, BadCall, McpAuto, McpAsk}
LivenessTools == {ReadFile, EditFile, McpAuto}

AllOps == UserOps

Symmetry == Permutations(Agents) \cup Permutations(Calls)
=============================================================================
