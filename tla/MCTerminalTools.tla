-------------------------- MODULE MCTerminalTools ---------------------------
(***************************************************************************)
(* A small instance of TerminalTools for TLC.                              *)
(***************************************************************************)
EXTENDS TerminalTools, TLC

CONSTANTS c1, c2, c3

\* Two terminals may be opened at once, or one after the other was killed; or one is
\* opened and two commands share its shell; or a command has a terminal of its own beside it.
KindsOfCalls ==
    c1 :> {"open"} @@ c2 :> {"open", "temporary", "persistent"} @@ c3 :> {"persistent", "kill"}
=============================================================================
