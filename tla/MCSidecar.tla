----------------------------- MODULE MCSidecar -----------------------------
EXTENDS Sidecar

CONSTANTS a1, s1

\* an agent run and a research run
MCRuns == {a1, s1}
MCKindOf == [r \in MCRuns |-> IF r = s1 THEN "research" ELSE "agent"]
=============================================================================
