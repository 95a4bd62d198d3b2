------------------------------- MODULE MCTeam --------------------------------
(***************************************************************************)
(* Instances of Team for TLC.                                              *)
(***************************************************************************)
EXTENDS Team, TLC

\* Founders, requests and emails are interchangeable among themselves.
Symmetry ==
    Permutations(Founders) \cup Permutations(Reqs) \cup Permutations(Emails)
==============================================================================
