--------------------------- MODULE MCMetadataSync ---------------------------
(* A topic, an assignment with its attachment and a quiz list of two pages; *)
(* announcements and discussions are empty.                                 *)
EXTENDS MetadataSync

CONSTANTS topic, assignment, quiz1, quiz2

MCItem == {topic, assignment, quiz1, quiz2}
MCCollectionOf == [i \in MCItem |-> CASE i = topic -> "toc"
                                      [] i = assignment -> "assignments"
                                      [] OTHER -> "quizzes"]
MCCollections == Always \cup {"discussions"}
MCPostings == {MCItem}
MCExposures == {Optional, Optional \ {"assignments"}}
=============================================================================
