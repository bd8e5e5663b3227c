---------------------------- MODULE MCSubmission ----------------------------
(***************************************************************************)
(* One terminal that makes two previews, one that only prepares (and so    *)
(* cleans up), and the student in the browser.  The two contents have the  *)
(* same size, so the read-back cannot tell them apart.                     *)
(***************************************************************************)
EXTENDS Submission

CONSTANTS t1, t2, c1, c2

MCTerminals == {t1, t2}
MCContents == {c1, c2}
MCSizeOf == [c \in MCContents |-> 7]
MCMaxPreviews == [t \in MCTerminals |-> IF t = t1 THEN 2 ELSE 0]
=============================================================================
