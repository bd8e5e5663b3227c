------------------------------- MODULE Skills -------------------------------
(* The agent skills of one destination (skills.py: install,                 *)
(* install_detected_project; paths.py: replace_tree, replace_link) and      *)
(* `a2l upgrade`, which replaces the tool under the running command and     *)
(* offers to refresh them (upgrade.py, cli.py: upgrade).                    *)
(*                                                                          *)
(* The skills of a release are one content, named by the release; the       *)
(* files in a skill directory that are not Agent2Learn's have names only.   *)
(* What a user does to Agent2Learn's own files is left out: a refresh       *)
(* replaces them.  So are links in the path of the destination, which are   *)
(* refused wherever they appear.  Each move and each copy is an action: the *)
(* user, another terminal's `uv tool install` and a kill come between them. *)
EXTENDS Naturals, FiniteSetsExt

CONSTANTS
    LastSlug,   \* how many skills there are (SKILL_SLUGS)
    LastRelease,\* how many releases of the tool
    Locals,     \* names of the user's files in a skill directory
    NoTree,     \* nothing at a path
    Link,       \* a link to the skill in the installed source
    Foreign,    \* anything else that is not Agent2Learn's
    MaxFaults   \* bound: kills and failing file operations

Slugs == 1..LastSlug        \* in the order of SKILL_SLUGS
Releases == 1..LastRelease

ASSUME SkillsAssumption ==
    /\ LastSlug \in Nat \ {0} /\ LastRelease \in Nat \ {0}
    /\ MaxFaults \in Nat

VARIABLES
    dest,     \* what is at destination/slug
    backups,  \* the .slug.backup.n beside it
    wheel,    \* the release whose files are installed
    at,       \* what the command does next
    command,  \* install, or upgrade
    force,    \* its --force
    link,     \* its --link
    code,     \* the release the command was started from
    latest,   \* the release an upgrade installs
    shown,    \* the plan on the screen
    slug,     \* the skill being replaced
    sidecar,  \* the metadata that was described for it
    staged,   \* its staged tree
    aside,    \* the backup its old tree was moved to, 0 for none
    promised, \* the user's files an approved preview said it preserves
    foreign,  \* the skills that were not Agent2Learn's when it was approved
    faults

disk == <<dest, backups>>
options == <<command, force, link, code, latest>>
staging == <<slug, sidecar, staged, aside>>
history == <<promised, foreign>>
memory == <<at, options, shown, staging>>
vars == <<disk, wheel, memory, history, faults>>

\* A skill directory; one without metadata, as a skill manager other than
\* Agent2Learn's makes it, has version and recorded 0.
Copies == [content : Releases, version : Releases \cup {0},
           recorded : Releases \cup {0}, local : SUBSET Locals]
Trees == Copies \cup {NoTree, Link, Foreign}

ASSUME TreesAssumption ==
    /\ {NoTree, Link, Foreign} \cap Copies = {}
    /\ NoTree # Link /\ NoTree # Foreign /\ Link # Foreign

IsCopy(tree) == tree \notin {NoTree, Link, Foreign}
LocalsOf(tree) == IF IsCopy(tree) THEN tree.local ELSE {}
Numbers == 1..(MaxFaults + 1)

\* A copy with Agent2Learn's metadata (_read_installed_metadata).
Managed(tree) == IsCopy(tree) /\ tree.version # 0

\* _planned_skill_state, computed by an engine of release r.
Status(tree, r) ==
    CASE tree = Link    -> IF force /\ ~link THEN "updated" ELSE "unchanged"
      [] tree = NoTree  -> "created"
      [] tree = Foreign -> "conflict"
      [] IsCopy(tree) /\ ~Managed(tree) ->
            IF tree.content = wheel /\ tree.local = {} THEN "unchanged" ELSE "conflict"
      [] Managed(tree) /\ link ->
            IF ~force THEN "unchanged"
            ELSE IF tree.local # {} THEN "conflict" ELSE "updated"
      [] Managed(tree) /\ ~link ->
            IF force \/ tree.version # r \/ tree.recorded # wheel
            THEN "updated" ELSE "unchanged"

\* A row of the preview: the status, the version the metadata has, the files
\* an update preserves, and whether --link would discard some.
Row(tree) ==
    [status   |-> Status(tree, code),
     version  |-> IF Managed(tree) THEN tree.version ELSE 0,
     local    |-> IF Status(tree, code) = "updated" THEN LocalsOf(tree) ELSE {},
     discards |-> link /\ Managed(tree) /\ LocalsOf(tree) # {}]

Plan == [s \in Slugs |-> Row(dest[s])]

TypeOK ==
    /\ dest \in [Slugs -> Trees]
    /\ backups \in [Slugs -> [Numbers -> Trees]]
    /\ wheel \in Releases /\ code \in Releases /\ latest \in Releases
    /\ at \in {"idle", "start", "plan", "asked", "confirm", "verify", "offer", "offered",
               "describe", "copy", "away", "in", "drop", "done"}
    /\ command \in {"install", "upgrade"}
    /\ force \in BOOLEAN /\ link \in BOOLEAN
    /\ slug \in Slugs
    /\ staged \in Trees
    /\ aside \in Numbers \cup {0}
    /\ promised \in [Slugs -> SUBSET Locals]
    /\ foreign \subseteq Slugs
    /\ faults \in 0..MaxFaults

Init ==
    /\ dest \in [Slugs -> {NoTree, Foreign,
                           [content |-> 1, version |-> 0,
                            recorded |-> 0, local |-> {}]}]
    /\ backups = [s \in Slugs |-> [n \in Numbers |-> NoTree]]
    /\ wheel = 1
    /\ at = "idle"
    /\ command = "install" /\ force = FALSE /\ link = FALSE
    /\ code = 1 /\ latest = 1
    /\ shown = [s \in Slugs |-> NoTree]
    /\ slug = 1
    /\ sidecar = [version |-> 0, recorded |-> 0]
    /\ staged = NoTree
    /\ aside = 0
    /\ promised = [s \in Slugs |-> {}]
    /\ foreign = {}
    /\ faults = 0

Go(next) == at' = next

\* What a command had in memory ends with it.
Ends ==
    /\ at' = "idle"
    /\ command' = "install" /\ force' = FALSE /\ link' = FALSE
    /\ code' = 1 /\ latest' = 1
    /\ shown' = [s \in Slugs |-> NoTree]
    /\ slug' = 1
    /\ sidecar' = [version |-> 0, recorded |-> 0]
    /\ staged' = NoTree
    /\ aside' = 0

-----------------------------------------------------------------------------
(* Preview and approval *)

BeginInstall ==
    /\ at = "idle" /\ Go("start")
    /\ command' = "install" /\ force' \in BOOLEAN /\ link' \in BOOLEAN
    /\ code' = wheel
    /\ UNCHANGED <<disk, wheel, latest, shown, staging, history, faults>>

\* _validate_source: install goes on only with the source of its own release,
\* and tells the student of the other one.
ValidateSource ==
    /\ at = "start"
    /\ \/ wheel = code /\ Go("plan") /\ UNCHANGED <<options, shown, staging>>
       \/ wheel # code /\ Ends
    /\ UNCHANGED <<disk, wheel, history, faults>>

\* install: every skill is planned, and the plan shown.
Preview ==
    /\ at = "plan" /\ Go("asked")
    /\ shown' = Plan
    /\ UNCHANGED <<disk, wheel, options, staging, history, faults>>

Decline ==
    /\ at \in {"asked", "confirm", "offered"} /\ Ends
    /\ UNCHANGED <<disk, wheel, history, faults>>

\* What the student was told when they said yes.
Approved ==
    /\ promised' = [s \in Slugs |-> promised[s] \cup (shown[s].local \cap LocalsOf(dest[s]))]
    /\ foreign' = {s \in Slugs : dest[s] = Foreign}

\* Approval without planning again.
ApproveAsShown ==
    /\ at = "asked" /\ Approved
    /\ Go("describe")
    /\ UNCHANGED <<disk, wheel, options, shown, staging, faults>>

\* _revalidate_approved_destination: every skill is planned again, and the
\* install ends when the plan differs from the one that was shown.
Approve ==
    /\ at = "asked" /\ Approved
    /\ \/ Plan = shown /\ Go("describe") /\ UNCHANGED <<options, shown, staging>>
       \/ Plan # shown /\ Ends
    /\ UNCHANGED <<disk, wheel, faults>>

-----------------------------------------------------------------------------
(* upgrade *)

\* The index names a later release (plan_upgrade); the others end here.
BeginUpgrade ==
    /\ at = "idle" /\ Go("confirm")
    /\ command' = "upgrade" /\ force' = FALSE /\ link' = FALSE
    /\ code' = wheel
    /\ latest' \in {r \in Releases : r > wheel}
    /\ UNCHANGED <<disk, wheel, shown, staging, history, faults>>

\* apply_upgrade: uv replaces the installed tool, under the running command,
\* or fails.
ApplyUpgrade ==
    /\ at = "confirm"
    /\ \/ wheel' = latest /\ Go("verify") /\ UNCHANGED <<options, shown, staging>>
       \/ UNCHANGED wheel /\ Ends
    /\ UNCHANGED <<disk, history, faults>>

\* verify_installation: the a2l on the PATH must report the release; another
\* executable may come first there.
VerifyInstallation ==
    /\ at = "verify"
    /\ \/ wheel = latest /\ Go("offer") /\ UNCHANGED <<options, shown, staging>>
       \/ Ends
    /\ UNCHANGED <<disk, wheel, history, faults>>

\* _offer_stale_project_skill_refresh: the same plan, by the code that was
\* loaded before the upgrade.
Offer ==
    /\ at = "offer"
    /\ shown' = Plan
    /\ Go(IF \E s \in Slugs : Plan[s].status # "unchanged" THEN "offered" ELSE "done")
    /\ UNCHANGED <<disk, wheel, options, staging, history, faults>>

\* The student says yes: install, in the code that was loaded before the
\* upgrade. It begins with the source, which is the new release's, and ends.
AcceptOffer ==
    /\ at = "offered" /\ Go("start")
    /\ UNCHANGED <<disk, wheel, options, shown, staging, history, faults>>

-----------------------------------------------------------------------------
(* _apply_destination *)

\* The next skill of the plan, or the end of it.
Advance ==
    IF slug = LastSlug THEN Go("done") /\ UNCHANGED slug
    ELSE Go("describe") /\ slug' = slug + 1

LeaveAlone ==
    /\ at = "describe" /\ shown[slug].status \in {"unchanged", "conflict"}
    /\ Advance
    /\ UNCHANGED <<disk, wheel, options, shown, sidecar, staged, aside, history, faults>>

\* metadata_for: the code's release and the hash of the source, before the
\* source is copied.
Describe ==
    /\ at = "describe" /\ shown[slug].status \in {"created", "updated"}
    /\ sidecar' = [version |-> code, recorded |-> wheel]
    /\ IF link THEN staged' = Link /\ Go("away")
               ELSE UNCHANGED staged /\ Go("copy")
    /\ UNCHANGED <<disk, wheel, options, shown, slug, aside, history, faults>>

\* The metadata described after the source was copied.
CopyThenDescribe ==
    /\ at = "copy"
    /\ IF staged = NoTree
       THEN /\ staged' = [content |-> wheel, version |-> 0, recorded |-> 0,
                          local |-> LocalsOf(dest[slug])]
            /\ UNCHANGED at
       ELSE /\ staged' = [staged EXCEPT !.version = code, !.recorded = wheel]
            /\ Go("away")
    /\ UNCHANGED <<disk, wheel, options, shown, slug, sidecar, aside, history, faults>>

\* _copy_skill, _preserve_local_files and _write_metadata.
Copy ==
    /\ at = "copy" /\ Go("away")
    /\ staged' = [content |-> wheel, version |-> sidecar.version,
                  recorded |-> sidecar.recorded, local |-> LocalsOf(dest[slug])]
    /\ UNCHANGED <<disk, wheel, options, shown, slug, sidecar, aside, history, faults>>

\* The old tree removed instead of moved away.
RemoveOld ==
    /\ at = "away" /\ Go("in")
    /\ aside' = 0
    /\ dest' = [dest EXCEPT ![slug] = NoTree]
    /\ UNCHANGED <<backups, wheel, options, shown, slug, sidecar, staged, history, faults>>

\* _backup_path: the first number that is free.
FreeBackup == Min({n \in Numbers : backups[slug][n] = NoTree})

\* The old tree is renamed to a backup.
MoveAway ==
    /\ at = "away" /\ Go("in")
    /\ IF dest[slug] = NoTree
       THEN aside' = 0 /\ UNCHANGED disk
       ELSE /\ aside' = FreeBackup
            /\ backups' = [backups EXCEPT ![slug][FreeBackup] = dest[slug]]
            /\ dest' = [dest EXCEPT ![slug] = NoTree]
    /\ UNCHANGED <<wheel, options, shown, slug, sidecar, staged, history, faults>>

\* The staged tree is renamed into place.
MoveIn ==
    /\ at = "in" /\ dest[slug] = NoTree
    /\ dest' = [dest EXCEPT ![slug] = staged]
    /\ staged' = NoTree
    /\ Go("drop")
    /\ UNCHANGED <<backups, wheel, options, shown, slug, sidecar, aside, history, faults>>

Fault == faults < MaxFaults /\ faults' = faults + 1

\* The rename fails, or finds what the user put there: the old tree goes back
\* unless its place is taken, and the install ends.
MoveInFails ==
    /\ at = "in" /\ Ends
    /\ Fault
    /\ IF aside # 0 /\ dest[slug] = NoTree
       THEN /\ dest' = [dest EXCEPT ![slug] = backups[slug][aside]]
            /\ backups' = [backups EXCEPT ![slug][aside] = NoTree]
       ELSE UNCHANGED disk
    /\ UNCHANGED <<wheel, history>>

\* remove_tree(backup, ignore_errors=True): it may stay.
DropBackup ==
    /\ at = "drop"
    /\ \/ /\ UNCHANGED faults
          /\ backups' = IF aside = 0 THEN backups
                        ELSE [backups EXCEPT ![slug][aside] = NoTree]
       \/ Fault /\ aside # 0 /\ UNCHANGED backups
    /\ Advance
    /\ UNCHANGED <<dest, wheel, options, shown, sidecar, staged, aside, history>>

Report ==
    /\ at = "done" /\ Ends
    /\ UNCHANGED <<disk, wheel, history, faults>>

-----------------------------------------------------------------------------
(* The user, another terminal and a kill *)

\* The user puts a file of their own in a skill directory.
UserAdds ==
    \E s \in Slugs, name \in Locals :
        /\ IsCopy(dest[s]) /\ name \notin dest[s].local
        /\ dest' = [dest EXCEPT ![s].local = @ \cup {name}]
        /\ UNCHANGED <<backups, wheel, memory, history, faults>>

\* The user removes a skill, or puts a directory of their own in its place.
UserReplaces ==
    \E s \in Slugs, tree \in {NoTree, Foreign} :
        /\ dest[s] # tree
        /\ dest' = [dest EXCEPT ![s] = tree]
        /\ promised' = [promised EXCEPT ![s] = {}]
        /\ foreign' = foreign \ {s}
        /\ UNCHANGED <<backups, wheel, memory, faults>>

\* Another terminal installs a later release.
ToolReplaced ==
    /\ wheel' \in {r \in Releases : r > wheel}
    /\ UNCHANGED <<disk, memory, history, faults>>

Killed ==
    /\ at # "idle" /\ Ends
    /\ Fault
    /\ UNCHANGED <<disk, wheel, history>>

-----------------------------------------------------------------------------

Next ==
    \/ BeginInstall \/ ValidateSource \/ Preview \/ Decline \/ Approve
    \/ BeginUpgrade \/ ApplyUpgrade \/ VerifyInstallation \/ Offer \/ AcceptOffer
    \/ LeaveAlone \/ Describe \/ Copy \/ MoveAway \/ MoveIn \/ MoveInFails \/ DropBackup
    \/ Report
    \/ UserAdds \/ UserReplaces \/ ToolReplaced \/ Killed

Spec == Init /\ [][Next]_vars

-----------------------------------------------------------------------------
(* Properties *)

\* A file an approved preview said is preserved is in the skill directory, or
\* in a backup beside it, whatever fails, is killed or added meanwhile, until
\* the user removes the directory (_preserve_local_files, replace_tree).
PromisedSurvive ==
    \A s \in Slugs :
        promised[s] \subseteq
            LocalsOf(dest[s]) \cup UNION {LocalsOf(backups[s][n]) : n \in Numbers}

\* A directory that was not Agent2Learn's when the student approved an install
\* is still in its place, also when it appeared while the preview was read
\* (_revalidate_approved_destination).
ForeignIsKept ==
    \A s \in foreign : dest[s] = Foreign

\* A skill whose metadata has the hash of the installed source has the content
\* of that source: what a plan without --link calls unchanged is never out of
\* date, also when the tool was replaced in the middle of the copy
\* (metadata_for).
MetadataIsHonest ==
    \A s \in Slugs :
        Managed(dest[s]) /\ dest[s].recorded = wheel => dest[s].content = wheel
=============================================================================
