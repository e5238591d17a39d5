------------------------------- MODULE Fleet -------------------------------
(***************************************************************************)
(* The vehicles of a factory, which its clock and its road have in common. *)
(***************************************************************************)
EXTENDS FiniteSets

CONSTANT Vehicles

ASSUME FleetType == IsFiniteSet(Vehicles)
=============================================================================
