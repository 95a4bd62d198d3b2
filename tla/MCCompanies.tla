----------------------------- MODULE MCCompanies -----------------------------
(***************************************************************************)
(* Instances of Companies for TLC.                                         *)
(***************************************************************************)
EXTENDS Companies, TLC

\* Requests and names are interchangeable among themselves.
Symmetry == Permutations(Reqs) \cup Permutations(Names)
==============================================================================
