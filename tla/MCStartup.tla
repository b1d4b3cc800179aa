------------------------------ MODULE MCStartup ------------------------------
(***************************************************************************)
(* Startup for TLC: three releases.                                        *)
(***************************************************************************)
EXTENDS Startup

CONSTANTS main, pull, newest, exact1, p1, p2

\* "latest", and the exact release 1, which is a switch back from any other.
BothWays == {newest, exact1}
MatchesBoth == [s \in BothWays |-> IF s = newest THEN Releases ELSE {1}]

\* The switch back alone.
Backward == {exact1}
MatchesBackward == [s \in Backward |-> {1}]

=============================================================================
