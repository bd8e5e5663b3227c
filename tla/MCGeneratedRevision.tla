------------------------ MODULE MCGeneratedRevision ------------------------
(* A small instance of GeneratedRevision for TLC: two source revisions and *)
(* a retitled second one whose twin alone differs.                         *)
EXTENDS GeneratedRevision

CONSTANTS s1, s2, t1, t2, converted, edit

MCContents == {s1, s2, t1, t2, converted, edit}
MCRemote == {[f \in File |-> IF f = "source" THEN s1 ELSE t1],
             [f \in File |-> IF f = "source" THEN s2 ELSE t1],
             [f \in File |-> IF f = "source" THEN s2 ELSE t2]}
MCMaxFaults == [k \in KeyKinds |-> IF k = "assignment" THEN 2 ELSE 1]
MCLocalEdits == {edit, t1, NoFile}
=============================================================================
