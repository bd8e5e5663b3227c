------------------------------- MODULE Purge -------------------------------
(* `a2l privacy purge` (privacy.py; cli.py: privacy_purge): the inventory of *)
(* a category, its preview, the typed phrase, the second inventory that must *)
(* agree with the first, and the removal, one file at a time, while syncs in *)
(* another terminal write what they capture and the command may be killed.   *)
(*                                                                          *)
(* The disk is a set of things: a record <<d, r>> of a document (a row of a  *)
(* content map, an entry of a manifest, a field of a snapshot, a line of an  *)
(* index), a content map itself, a file at a place of its own, a file that   *)
(* records name, a part of an archived revision, the discussions folder of   *)
(* the course and a note the student keeps there.  What a purge recognises   *)
(* as its category's is given (KindOf).                                      *)
EXTENDS Naturals

CONSTANTS
    Docs,       \* the documents with records of several categories
    Maps,       \* the content maps among them
    Records,    \* what they hold
    Holds,      \* the records a document may hold
    Names,      \* the files a record names (_entry_paths)
    Files,      \* the files that records name
    CourseFiles,\* my_grades.json, discussions.json, discussions.md
    StateFiles, \* the pseudonym key of .a2l, and of its backup
    Logs,       \* a2l.log and its rotations
    Revisions,  \* the revisions of .a2l/history
    BackupOf,   \* what a thing of a schema backup is a copy of
    Inside,     \* the files inside the discussions folder
    Folder, Note,
    KindOf,     \* the category of a record, a place, a revision
    MaxWrites,  \* bound: writes of the other terminal
    MaxFaults   \* bound: kills, failures and what the student moves

Categories == {"grades", "discussions", "logs"}
Places == CourseFiles \cup StateFiles \cup Logs
Parts == Revisions \X {"revision.json", "copy"}
Copies == DOMAIN BackupOf
Rows == UNION {{d} \X Holds[d] : d \in Docs}
Things == Rows \cup Maps \cup Places \cup Files \cup Parts \cup {Folder, Note}

ASSUME PurgeAssumption ==
    /\ Holds \in [Docs -> SUBSET Records]
    /\ Names \in [Records -> SUBSET Files]
    /\ BackupOf \in [Copies -> (Docs \cup StateFiles) \ Copies]
    /\ Copies \subseteq Docs \cup StateFiles
    /\ Maps \subseteq Docs \ Copies
    /\ Note \in Inside /\ Inside \subseteq CourseFiles \cup Files \cup {Note}
    /\ KindOf \in [Records \cup Places \cup Revisions -> Categories \cup {"other"}]
    /\ MaxWrites \in Nat /\ MaxFaults \in Nat

\* Only the logs are logs, and a record is in some document that is not a
\* backup's.  Every source has paths of its own, so that a file is never named
\* by records of two categories.
ASSUME KindsAssumption ==
    /\ \A x \in DOMAIN KindOf : KindOf[x] = "logs" <=> x \in Logs
    /\ \A f \in Files : \E d \in Docs \ Copies : \E r \in Holds[d] : f \in Names[r]
    /\ \A r, s \in Records : Names[r] \cap Names[s] # {} => KindOf[r] = KindOf[s]

\* The things of the disk are told apart.
ASSUME ThingsAssumption ==
    /\ (Rows \cup Parts) \cap (Places \cup Files \cup {Folder, Note}) = {}
    /\ Docs \cap (Rows \cup Parts \cup Places \cup Files \cup {Folder, Note}) = {}
    /\ Docs \cap Revisions = {} /\ Places \cap Files = {}
    /\ {Folder, Note} \cap (Places \cup Files) = {} /\ Folder # Note
    /\ Logs \cap (CourseFiles \cup StateFiles) = {}
    /\ (Records \cup Revisions) \cap Places = {}

VARIABLES
    disk,      \* the things that are there
    blocked,   \* the documents that cannot be read, or are links
    at,        \* what the command does next
    category,
    shown,     \* the things its preview lists
    todo,      \* the things it has still to remove
    payload,   \* what the documents it rewrites will hold
    written,   \* written since the preview or the confirmation
    forgotten, \* left without a trace, or not looked for, by a purge
    writes, faults

plan == <<category, shown, todo, payload>>
bounds == <<writes, faults>>
vars == <<disk, blocked, at, plan, written, forgotten, bounds>>

TypeOK ==
    /\ disk \subseteq Things
    /\ blocked \subseteq Docs
    /\ at \in {"idle", "prompt", "apply", "complete", "nothing"}
    /\ category \in Categories
    /\ shown \subseteq Things /\ todo \subseteq Things
    /\ payload \subseteq Rows
    /\ written \subseteq Things
    /\ forgotten \subseteq Files \cup Parts \cup CourseFiles
    /\ writes \in 0..MaxWrites /\ faults \in 0..MaxFaults

\* Earlier syncs have captured everything, and no schema was upgraded.
Init ==
    /\ disk = {x \in Things \ {Note} :
                  x \notin Copies /\ ~(x \in Rows /\ x[1] \in Copies)}
    /\ blocked = {}
    /\ at = "idle"
    /\ category \in Categories
    /\ shown = {} /\ todo = {} /\ payload = {}
    /\ written = {} /\ forgotten = {}
    /\ writes = 0 /\ faults = 0

Fault == faults < MaxFaults /\ faults' = faults + 1
-----------------------------------------------------------------------------
(* The inventory: plan_purge *)

\* The records of a category, by their own marks, their key or their paths.
Owned(c) == {x \in disk \cap Rows : KindOf[x[2]] = c}

NamedBy(x) == Names[x[2]]

\* A manifest's entries lead to their files; the rows of a content map do only
\* for discussions, and where the course has a discussions folder.
Leads(x, c) == x[1] \in Maps => c = "discussions" /\ Folder \in disk

\* The files that are looked for by name; one that is not there is no target.
Named(c) == UNION {NamedBy(x) : x \in {y \in Owned(c) : Leads(y, c)}}

Existing(files) == disk \cap files

\* discussions.md is looked for where there is a content map, the files of a
\* course's _meta anywhere.
LooksFor(p) == p \in Inside => Maps \cap disk # {}

\* The files a category keeps at places of their own, in the courses...
Projections(c) == {p \in disk \cap CourseFiles : KindOf[p] = c /\ LooksFor(p)}

\* Mutant of PrivateFiles: a backup's are not looked for.
PrivateFilesNow(c) == {p \in disk \cap (StateFiles \ Copies) : KindOf[p] = c}

\* ...and in .a2l or a backup of it.
PrivateFiles(c) == {p \in disk \cap StateFiles : KindOf[p] = c}

\* A revision is recognised by its revision.json, and goes as a whole.
Archived(c) ==
    {x \in disk \cap Parts : KindOf[x[1]] = c /\ <<x[1], "revision.json">> \in disk}

\* A folder goes when all that is inside goes.
Emptied(c) ==
    IF c = "discussions" /\ disk \cap Inside \subseteq Projections(c) \cup Named(c)
    THEN disk \cap {Folder}
    ELSE {}

RotatingLogs == disk \cap Logs

Plan(c) ==
    IF c = "logs"
    THEN RotatingLogs
    ELSE Owned(c) \cup Projections(c) \cup PrivateFiles(c)
            \cup Existing(Named(c)) \cup Archived(c) \cup Emptied(c)

\* What is the category's, by a record or its place, and is not looked for.
Missed(c) ==
    ((disk \cap UNION {NamedBy(x) : x \in Owned(c)}) \ Named(c)) \cup
    {p \in disk \cap CourseFiles : KindOf[p] = c /\ ~LooksFor(p)}

\* What `a2l privacy status` calls retained locally.
Present(c) == Plan(c) # {}

\* Every document is read for any category but the logs.
Readable(c) == c = "logs" \/ blocked = {}

Rewritten(p) == {x[1] : x \in p \cap Rows}

\* The bytes the fingerprint of a plan covers: documents and folders as wholes.
Covered(p) ==
    p \cup {x \in Rows : x[1] \in Rewritten(p)}
      \cup (IF Folder \in p THEN Inside ELSE {})
-----------------------------------------------------------------------------
(* The command *)

\* The inventory is printed; an empty one ends the command, a document that
\* cannot be read does too.
Preview ==
    /\ at = "idle"
    /\ category' \in Categories
    /\ shown' = IF Readable(category') THEN Plan(category') ELSE {}
    /\ at' = IF ~Readable(category') THEN "idle"
             ELSE IF Present(category') THEN "prompt" ELSE "nothing"
    /\ written' = {}
    /\ forgotten' = IF at' = "nothing" THEN forgotten \cup Missed(category') ELSE forgotten
    /\ UNCHANGED <<disk, blocked, todo, payload, bounds>>

\* No terminal, or another phrase.
Decline ==
    /\ at = "prompt"
    /\ at' = "idle"
    /\ UNCHANGED <<disk, blocked, plan, written, forgotten, bounds>>

\* The second inventory agrees with the one on the screen.
Agrees ==
    /\ Readable(category)
    /\ Plan(category) = shown
    /\ written \cap Covered(shown) = {}

\* What the documents to be rewritten keep.
Scrubbed(p) == {x \in disk \cap Rows : x[1] \in Rewritten(p)} \ p

Apply(targets) ==
    /\ todo' = targets
    /\ payload' = Scrubbed(targets)
    /\ at' = "apply"
    /\ written' = {}
    /\ forgotten' = (forgotten \ targets) \cup Missed(category)
    /\ UNCHANGED <<disk, blocked, category, shown, bounds>>

\* Mutant of Confirm: what is there now is removed.
ConfirmAnyway ==
    /\ at = "prompt"
    /\ Readable(category)
    /\ Apply(Plan(category))

\* The phrase is right, and the preview is still what would be removed.
Confirm ==
    /\ at = "prompt"
    /\ Agrees
    /\ Apply(Plan(category))

RefuseStale ==
    /\ at = "prompt"
    /\ ~Agrees
    /\ at' = "idle"
    /\ UNCHANGED <<disk, blocked, plan, written, forgotten, bounds>>

\* The files that no record of these things names.
Unnamed(things) == {f \in Files : \A x \in things \cap Rows : f \notin NamedBy(x)}

\* What nothing names or marks any more, of what is still to be removed.
Stranded ==
    (todo \cap disk \cap Unnamed(disk)) \cup
    {x \in todo \cap Parts \cap disk : <<x[1], "revision.json">> \notin disk}

\* The command ends with work undone.
Abandon ==
    /\ at' = "idle"
    /\ todo' = {}
    /\ forgotten' = forgotten \cup Stranded
    /\ UNCHANGED <<disk, blocked, category, shown, payload, written, writes>>

RowsOf(d) == {x \in Rows : x[1] = d}

\* The files that another terminal wrote, or described, since the confirmation
\* and that no record names when the document is replaced.
Orphans(d, things) ==
    {f \in (disk \cap Unnamed(things)) \ todo :
        f \in written \/ \E x \in written \cap RowsOf(d) : f \in NamedBy(x)}

Missing(d) == d \in Maps \ disk

\* Documents first, each replaced by what the second inventory kept of it: a
\* record that came to it meanwhile is lost, and with it the trace of its file.
Rewrite(d) ==
    /\ at = "apply"
    /\ d \in Rewritten(todo)
    /\ d \notin blocked /\ ~Missing(d)
    /\ disk' = (disk \ RowsOf(d)) \cup (payload \cap RowsOf(d))
    /\ todo' = todo \ RowsOf(d)
    /\ forgotten' = forgotten \cup Orphans(d, disk')
    /\ UNCHANGED <<blocked, at, category, shown, payload, written, bounds>>

\* Then the revisions, part by part, in the order the directory lists them.
RemovePart(x) ==
    /\ at = "apply"
    /\ Rewritten(todo) = {}
    /\ x \in todo \cap Parts
    /\ disk' = disk \ {x}
    /\ todo' = todo \ {x}
    /\ UNCHANGED <<blocked, at, category, shown, payload, written, forgotten, bounds>>

\* Then the files, each of which must still be there.
Unlink(f) ==
    /\ at = "apply"
    /\ todo \cap (Rows \cup Parts) = {}
    /\ f \in todo \cap disk \cap (Places \cup Files)
    /\ disk' = disk \ {f}
    /\ todo' = todo \ {f}
    /\ UNCHANGED <<blocked, at, category, shown, payload, written, forgotten, bounds>>

\* The folder last, if it is empty.
RemoveFolder ==
    /\ at = "apply"
    /\ todo = {Folder}
    /\ disk \cap Inside = {}
    /\ disk' = disk \ {Folder}
    /\ todo' = {}
    /\ UNCHANGED <<blocked, at, category, shown, payload, written, forgotten, bounds>>

\* A document became a link or is gone, a file is gone, or the folder is not
\* empty.
RemovalFails ==
    /\ at = "apply"
    /\ \/ \E d \in Rewritten(todo) : d \in blocked \/ Missing(d)
       \/ (todo \cap (Places \cup Files)) \ disk # {}
       \/ todo = {Folder} /\ disk \cap Inside # {}
    /\ Abandon
    /\ UNCHANGED faults

Finish ==
    /\ at = "apply"
    /\ todo = {}
    /\ at' = "complete"
    /\ UNCHANGED <<disk, blocked, plan, written, forgotten, bounds>>

Exit ==
    /\ at \in {"complete", "nothing"}
    /\ at' = "idle"
    /\ UNCHANGED <<disk, blocked, plan, written, forgotten, bounds>>
-----------------------------------------------------------------------------
(* The other terminal, the student, and faults *)

\* A sync, or an upgrade of the schema, writes things.
Write(new) ==
    /\ writes < MaxWrites
    /\ writes' = writes + 1
    /\ disk' = disk \cup new
    /\ written' = written \cup new
    /\ forgotten' = forgotten \ new
    /\ UNCHANGED <<blocked, at, plan, faults>>

\* A projection, the key or the log is written, or written again.
Capture(p) ==
    /\ p \in Places \ Copies
    /\ Write({p} \cup (IF p \in Inside THEN {Folder} ELSE {}))

\* A document gets a record; the file that it names is there, or comes with
\* the first record that names it.
Describe(d, r) ==
    /\ d \notin Copies \cup blocked
    /\ r \in Holds[d] /\ <<d, r>> \notin disk
    /\ Write({<<d, r>>} \cup ({d} \cap Maps) \cup
             {f \in Names[r] : \A e \in Docs : <<e, r>> \notin disk})

\* A revision that is being replaced is archived, in a directory of its own.
Preserve(h) ==
    /\ ({h} \X {"revision.json", "copy"}) \cap (disk \cup todo) = {}
    /\ Write({h} \X {"revision.json", "copy"})

\* A schema migration leaves a copy of .a2l beside it.
BackUp ==
    /\ Copies \cap disk = {} /\ \A c \in Copies, r \in Records : <<c, r>> \notin disk
    /\ Write({c \in Copies \cap StateFiles : BackupOf[c] \in disk} \cup
             {x \in Rows : x[1] \in Copies /\ <<BackupOf[x[1]], x[2]>> \in disk})

TakeNote ==
    /\ Folder \in disk /\ Note \notin disk
    /\ Write({Note})

\* The student removes a file of the category or a content map by hand, or puts
\* a link, or what is no JSON, in a document's place.
Meddle ==
    /\ Fault
    /\ \/ \E f \in disk \cap (Places \cup Files) :
             disk' = disk \ {f} /\ UNCHANGED <<blocked, forgotten>>
       \/ \E d \in (Maps \cap disk) \ blocked :
             /\ disk' = disk \ ({d} \cup RowsOf(d))
             /\ forgotten' = forgotten \cup ((disk' \cap Unnamed(disk')) \ todo)
             /\ UNCHANGED blocked
       \/ \E d \in Docs \ blocked :
             blocked' = blocked \cup {d} /\ UNCHANGED <<disk, forgotten>>
    /\ UNCHANGED <<at, plan, written, writes>>

Repair ==
    /\ blocked # {}
    /\ blocked' = {}
    /\ UNCHANGED <<disk, at, plan, written, forgotten, bounds>>

\* A kill, or a file that cannot be removed.
Interrupted ==
    /\ at \in {"prompt", "apply"}
    /\ Fault
    /\ Abandon

Next ==
    \/ Preview \/ Decline \/ Confirm \/ RefuseStale
    \/ \E d \in Docs : Rewrite(d)
    \/ \E x \in Parts : RemovePart(x)
    \/ \E f \in Places \cup Files : Unlink(f)
    \/ RemoveFolder \/ RemovalFails \/ Finish \/ Exit
    \/ \E p \in Places : Capture(p)
    \/ \E d \in Docs, r \in Records : Describe(d, r)
    \/ \E h \in Revisions : Preserve(h)
    \/ BackUp \/ TakeNote \/ Meddle \/ Repair \/ Interrupted

Spec == Init /\ [][Next]_vars
-----------------------------------------------------------------------------
\* The purge removes nothing that was not on the screen when the phrase was
\* typed - no other record of a document, no file or note of the student, no
\* other category - but what another terminal writes while it is removing:
\* "a newly appearing allowlisted file, invalidates the confirmation instead
\* of widening the operation silently" (privacy.py:178-180).
OnlyPreviewed ==
    [][faults' = faults => disk \ disk' \subseteq shown \cup written]_vars

\* What is the category's, wherever it is.
Sensitive(c) ==
    {x \in Rows : KindOf[x[2]] = c} \cup {p \in Places : KindOf[p] = c} \cup
    {f \in Files : \E r \in Records : f \in Names[r] /\ KindOf[r] = c} \cup
    {x \in Parts : KindOf[x[1]] = c}

\* "a2l privacy purge grades deletes what is already on disk" (docs/FAQ.md:152):
\* when the command says that it is done, or that there is nothing, all of the
\* category is gone from the vault, its history and its backups, except
\*   - what was written since;
\*   - what its inventory does not look for (Missed): a file that only content
\*     maps name, for grades, or in a course without a discussions folder, and
\*     discussions.md without a content map;
\*   - what an interrupted purge stranded - its records go first, and only they
\*     tell where those files are - or the student, removing a content map;
\*   - the file of a record that a purge overwrote while another terminal was
\*     writing it.
CompleteIsGone ==
    at \in {"complete", "nothing"} =>
        disk \cap Sensitive(category) \subseteq written \cup forgotten
=============================================================================
