--------------------------- MODULE MCEventIdentity ---------------------------
EXTENDS EventIdentity, TLC

CONSTANTS oddsportal, oddschecker, women

\* Two providers that spell a team differently, and the women's game of the same clubs.
MCTeamsOf == (oddsportal :> 1) @@ (oddschecker :> 2) @@ (women :> 1)
MCPairOf == [r \in Refs |-> 1]
MCMarkersOf == (oddsportal :> 1) @@ (oddschecker :> 1) @@ (women :> 2)
=============================================================================
