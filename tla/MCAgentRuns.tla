----------------------------- MODULE MCAgentRuns -----------------------------
(* AgentRuns on small instances.                                            *)
EXTENDS AgentRuns

MCRefuseOrTwo == {Refuse, 2}
MCTwo         == {2}
MCNone        == {}
MCPauses      == {"paused", "cost_capped"}
=============================================================================
