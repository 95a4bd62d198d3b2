------------------------------ MODULE MCInstall ------------------------------
(***************************************************************************)
(* Instances of Install for TLC.                                           *)
(***************************************************************************)
EXTENDS Install, TLC

CONSTANT p1

\* One process serves every request.
OneProcess == [r \in Reqs |-> p1]

\* Requests are interchangeable when one process serves them all.
Symmetry == Permutations(Reqs)
==============================================================================
