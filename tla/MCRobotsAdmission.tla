------------------------- MODULE MCRobotsAdmission --------------------------
(* Small instances of RobotsAdmission. *)
EXTENDS RobotsAdmission, TLC

CONSTANT https

\* Everybody fetches from one origin.
OneOrigin == [t \in Tasks |-> https]

Alike == Permutations(Tasks)

=============================================================================
