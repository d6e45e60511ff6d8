----------------------------- MODULE MCAgentLoop -----------------------------
(* Small instances of AgentLoop for TLC.                                    *)
EXTENDS AgentLoop

CONSTANTS breakup, net, fees, bank

FourTools == {breakup, net, fees, bank}
ThreeTools == {breakup, net, fees}
==============================================================================
