--------------------------- MODULE MCModelGateway ---------------------------
EXTENDS ModelGateway, TLC

CONSTANTS r1, r2, r3, east, west

\* Two requests meet on one replica, the third comes in on another.
Placement == (r1 :> east) @@ (r2 :> east) @@ (r3 :> west)
=============================================================================
