---------------------------- MODULE MCAgentTurn ----------------------------
(* Instances of AgentTurn for TLC. *)
EXTENDS AgentTurn

\* A session in which one turn, with one tool batch, was saved.
OneEarlierTurn == <<Msg("ask", 0), Msg("call", 1), Msg("result", 1), Msg("say", 0)>>

OneRetry == [d \in Defects |-> IF d = "empty" THEN 1 ELSE 0]

\* A compressor that keeps a tail of three messages and the user messages before it.
OneBudget == {[tail |-> 3, users |-> 9]}
=============================================================================
