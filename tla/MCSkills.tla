------------------------------ MODULE MCSkills ------------------------------
(* Two skills, two releases and one file of the user's. *)
EXTENDS Skills

CONSTANT notes
=============================================================================
