----------------------------- MODULE MCNodeAgents -----------------------------
EXTENDS NodeAgents, TLC
CONSTANTS a1, a2, h1, h2
MCAgents == {a1, a2}
MCConfigured == {a1}
MCHandlers == {h1, h2}
=============================================================================
