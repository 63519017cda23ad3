------------------------------ MODULE MCProjects ------------------------------
(***************************************************************************)
(* Instances of Projects for TLC.                                          *)
(***************************************************************************)
EXTENDS Projects

CONSTANTS c1, c2

CreatesBeside == [c \in Calls |-> IF c = c1 THEN RequestKinds ELSE {"create"}]
MergesAlone == [c \in Calls |-> {"create", "merge"}]

(* Nothing is claimed of what follows a kill that left a tree torn.        *)
UntilTorn == ~torn

(* While both threads serve a request there are at most two projects.      *)
FewBeside == (\A c \in Calls : call[c] # NoCall) => Cardinality(Existing) < 3

ProjectIds == Permutations(Projects)
===============================================================================
