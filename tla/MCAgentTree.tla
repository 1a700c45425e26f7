---------------------------- MODULE MCAgentTree ----------------------------
EXTENDS AgentTree
CONSTANTS b1, b2, f1, t1, t2, p

\* All children belong to p, or only b1 does and the others were launched without
\* a session, so that nobody can stop or message them.
MCParent == [a \in Agents |-> p]
MCOneOwned == [a \in Agents |-> IF a = b1 THEN p ELSE NoParent]
MCTargets == {AllSenders, {b1}}
MCTeam == <<t1, t2>>
NoTeam == <<>>
NoWaits == {}
=============================================================================
