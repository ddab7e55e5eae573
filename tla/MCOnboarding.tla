---------------------------- MODULE MCOnboarding ----------------------------
(***************************************************************************)
(* Small instances of Onboarding for TLC.                                  *)
(***************************************************************************)
EXTENDS Onboarding, TLC

CONSTANTS h1, h2

Symmetry == Permutations(Harnesses)
=============================================================================
