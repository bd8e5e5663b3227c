------------------------------ MODULE MCSignIn ------------------------------
(* Two terminals; LEARN's page, a script and a document of other hosts. *)
EXTENDS SignIn

CONSTANTS auth, render, home, script, frame

MCTerminals == {auth, render}
MCRequests == {home, script, frame}
MCUndeclared == {script, frame}
MCDocuments == {home, frame}
=============================================================================
