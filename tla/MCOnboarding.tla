---------------------------- MODULE MCOnboarding ----------------------------
(* Two terms of one course each, either of which may be left unselected. *)
EXTENDS Onboarding, TLC

CONSTANTS fall, winter

MCCourses == {fall, winter}
MCTermOf == fall :> 1 @@ winter :> 2
=============================================================================
