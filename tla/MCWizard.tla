------------------------------ MODULE MCWizard -------------------------------
(***************************************************************************)
(* An instance of Wizard for TLC.                                          *)
(***************************************************************************)
EXTENDS Wizard

CONSTANT p1

\* One process serves every request.
OneProcess == [r \in Reqs |-> p1]
==============================================================================
