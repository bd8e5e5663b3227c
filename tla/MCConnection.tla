---------------------------- MODULE MCConnection ----------------------------
(* Three sign-ins; two targets within the origin and one outside of it. *)
EXTENDS Connection

CONSTANTS home, api, other, first, second

MCTargets == {home, api}
MCElsewhere == {other}
MCBookmarks == {first, second}
=============================================================================
