---------------------------- MODULE MCOnboarding ----------------------------
(***************************************************************************)
(* Onboarding with one request for two units.                              *)
(***************************************************************************)
EXTENDS Onboarding

CONSTANT both

MCOf == [u \in Unit |-> both]
=============================================================================
