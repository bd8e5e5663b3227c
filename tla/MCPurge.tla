------------------------------ MODULE MCPurge ------------------------------
(* A small instance of Purge for TLC: a content map with a discussion, a    *)
(* link in a module of that name, a grade and a lecture, so that categories *)
(* share a document, and only the map has a record of the link, and of its  *)
(* stub; a manifest and its backup with an entry of the discussion, a       *)
(* snapshot with grades, a file at its place for each category, a log, and  *)
(* a revision.                                                              *)
EXTENDS Purge, TLC

CONSTANTS map, manifest, backup, snapshot, post, link, grade, lecture, file,
          stub, grades, markdown, key, oldkey, log, revision

MCHolds == map :> {post, link, grade, lecture} @@ manifest :> {post} @@ backup :> {post}
           @@ snapshot :> {grade}
MCNames == post :> {file} @@ link :> {stub} @@ grade :> {} @@ lecture :> {}
MCBackupOf == backup :> manifest @@ oldkey :> key
MCKindOf == [x \in {post, link, markdown, key, oldkey, revision} |-> "discussions"]
            @@ [x \in {grade, grades} |-> "grades"]
            @@ log :> "logs" @@ lecture :> "other"
=============================================================================
