---------------------------- MODULE MCAgentChat ----------------------------
(* Instances of AgentChat.                                                 *)
EXTENDS AgentChat, TLC

CONSTANTS r1, r2, r3, r4, a1, a2, s1, s2
=============================================================================
