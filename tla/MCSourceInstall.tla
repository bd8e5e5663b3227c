-------------------------- MODULE MCSourceInstall --------------------------
(* A small instance of SourceInstall for TLC: two contents, so that a site *)
(* may publish, replace and restore a revision; the student may put one of *)
(* them back.                                                              *)
EXTENDS SourceInstall

CONSTANTS b1, b2, edit

MCBytes == {b1, b2}
MCLocalEdits == {edit, b1, NoFile}
AllSites == SUBSET {"toc", "http"}
=============================================================================
