---------------------------- MODULE MCAgentTurns ----------------------------
(* Instances of AgentTurns for TLC. *)
EXTENDS AgentTurns

CONSTANTS t1, t2, c1

\* Two turns of one channel.
MCTurns == {t1, t2}
MCChannelOf == [t \in MCTurns |-> c1]
=============================================================================
