------------------------------ MODULE MCScreens -------------------------------
(***************************************************************************)
(* Every screen with two selections, a load that the user starts after the *)
(* first, two requests of a kind under way, and two forms.                 *)
(***************************************************************************)
EXTENDS Screens

CONSTANTS s1, s2
=============================================================================
