--------------------------- MODULE MCFleetCommands ---------------------------
(* One endpoint, an authentication window of one unit, and endpoint clocks *)
(* that lag inside (-1) and outside (-2) that window.                      *)
EXTENDS FleetCommands, TLC

MCTtls     == {1}
MCSkews    == {-2, -1}

ProfileSymmetry == Permutations(Profiles)
=============================================================================
