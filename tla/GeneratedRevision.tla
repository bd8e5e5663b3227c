-------------------------- MODULE GeneratedRevision --------------------------
(***************************************************************************)
(* The generated-revision journal of agent2learn/transactions.py: a source *)
(* file and its Markdown twin (an assignment prompt or a rendered course   *)
(* outline) are replaced together, through staged parts and a journal in   *)
(* .a2l/pending-generated/<key>, so that a restart can finish what a crash *)
(* interrupted.                                                            *)
(*                                                                         *)
(* One canonical source key is modelled, with its two callers              *)
(* (ingest._materialize_assignments, outlines._install_outline), the       *)
(* converter that may regenerate the same twin, and a student who edits    *)
(* the two files.                                                          *)
(*                                                                         *)
(* Simplifications:                                                        *)
(*  - A file is its content and a SHA-256 digest is the content itself.    *)
(*  - An entry keeps its two digests and the tool that made the twin; its  *)
(*    paths do not change and its timestamps are dropped.                  *)
(*  - atomic_write_* and _copy_verified are single steps; what a crash     *)
(*    leaves of an atomic write is the `leftover` temporary file.          *)
(***************************************************************************)
EXTENDS Naturals

CONSTANTS
    Contents,          \* what a file can hold
    NoFile,            \* the fingerprint of a file that does not exist
    None,              \* no entry, no journal, no goal
    Unloaded,          \* the manifest of a process that has not read it
    Remote,            \* the source/twin pairs the course site can yield
    ConvertedTwin,     \* the twin convert_vault makes of any source
    LocalEdits,        \* what the student may leave in a file
    KeyKinds,          \* the callers that may own the key
    MaxFaults,         \* bound on crashes and I/O failures, for each kind
    MaxEdits           \* bound on the student's edits

File == {"source", "twin"}
Tool == {"generator", "converter"}
Entry == [sha : [File -> Contents], tool : Tool]
Journal == [prior : Entry \cup {None}, entry : Entry,
            before : [File -> Contents \cup {NoFile}]]

ASSUME ContentsAssumption == NoFile \notin Contents
ASSUME NoneAssumption == /\ None \notin Contents
                         /\ None \notin Entry
                         /\ None \notin Journal
                         /\ None \notin [File -> Contents]
ASSUME NoRevisionAssumption == None \notin [source : Contents, twin : Contents]
ASSUME UnloadedAssumption == Unloaded # None /\ Unloaded \notin Entry
ASSUME RemoteAssumption == Remote \subseteq [File -> Contents]
ASSUME ConvertedAssumption == ConvertedTwin \in Contents
ASSUME EditsAssumption == LocalEdits \subseteq Contents \cup {NoFile}
ASSUME KindsAssumption == KeyKinds \subseteq {"assignment", "outline"}
ASSUME BoundsAssumption == MaxFaults \in [KeyKinds -> Nat] /\ MaxEdits \in Nat

VARIABLES
    kind,       \* which caller owns the key: "assignment" or "outline"
    \* On disk.
    manifest,   \* this key's entry in .a2l/manifest.json
    dest,       \* the two materialized files
    pending,    \* does .a2l/pending-generated/<key> exist?
    part,       \* its staged parts
    journal,    \* its entry.json
    leftover,   \* does it hold the temporary file of an interrupted write?
    history,    \* complete revisions under .a2l/history/<key>
    \* In the memory of the running process.
    mem,        \* Vault._entries for this key, Unloaded before first use
    pc,         \* where the process is
    goal,       \* the pair it has been asked to install
    preserve,   \* the caller's decision to archive the prior revision
    before,     \* the fingerprints install_generated took
    saving,     \* the source bytes preserve_revision has copied
    staged,     \* the files recovery still has to replace
    \* Observed only.
    edited,     \* files whose present content is the student's
    captured,   \* source contents once recorded, not discarded by the student
    notes,      \* twin contents the student wrote between two runs, that no
                \* pending transaction had taken, and did not discard
    faults, edits

disk == <<manifest, dest, pending, part, journal, leftover, history>>
volatile == <<goal, preserve, before, saving, staged>>
observed == <<edited, captured, notes>>
rest == <<faults, edits, kind>>
vars == <<disk, mem, pc, volatile, observed, rest>>

Nothing == [f \in File |-> NoFile]

PCs == {"idle", "scan", "install", "replace", "cleanup", "plan", "fingerprint",
        "preserve source", "preserve twin", "directory", "stage", "convert"}

\* The entry the process believes in: Vault.entry.
Known == IF mem = Unloaded THEN manifest ELSE mem

Recorded(e) == IF e = None THEN Nothing ELSE e.sha

\* Twins the program can make again; whatever else a twin holds is a note.
GeneratedTwins == {r["twin"] : r \in Remote} \cup {ConvertedTwin, NoFile}

\* What a pending transaction has taken for the twin that it replaces.
Taken == IF journal = None THEN {} ELSE {journal.before["twin"]}

HistorySources == {h.source : h \in history}
HistoryTwins == {h.twin : h \in history}
-----------------------------------------------------------------------------
Init ==
    /\ kind \in KeyKinds
    /\ manifest = None
    /\ dest = Nothing
    /\ pending = FALSE
    /\ part = Nothing
    /\ journal = None
    /\ leftover = FALSE
    /\ history = {}
    /\ mem = Unloaded
    /\ pc = "idle"
    /\ goal = None
    /\ preserve = FALSE
    /\ before = Nothing
    /\ saving = NoFile
    /\ staged = {}
    /\ edited = {}
    /\ captured = {}
    /\ notes = {}
    /\ faults = 0
    /\ edits = 0

\* The call returns or raises: its locals are gone.
Return ==
    /\ pc' = "idle"
    /\ goal' = None
    /\ preserve' = FALSE
    /\ before' = Nothing
    /\ saving' = NoFile
    /\ staged' = {}

Goto(label) == pc' = label

\* The manifest becomes e; its source is captured if its bytes are there.
Record(e) ==
    /\ manifest' = e
    /\ captured' = captured \cup ({e.sha["source"]} \cap {dest["source"]})
-----------------------------------------------------------------------------
(* recover_generated *)

\* A caller has a new pair for the key and first recovers what is pending.
Sync(r) ==
    /\ pc = "idle"
    /\ goal' = r
    /\ mem' = Known
    /\ Goto("scan")
    /\ UNCHANGED <<disk, preserve, before, saving, staged, observed, rest>>

\* Recovery is over: a caller with a goal goes on, a finished install returns.
AfterRecovery == IF goal = None THEN Return
                 ELSE Goto("plan") /\ UNCHANGED volatile

ScanNothing ==
    /\ pc = "scan"
    /\ ~pending
    /\ AfterRecovery
    /\ UNCHANGED <<disk, mem, observed, rest>>

\* No journal: only *.part files may be there, and they are discarded.
ScanAbandoned ==
    /\ pc = "scan"
    /\ pending
    /\ journal = None
    /\ IF leftover THEN Return ELSE Goto("cleanup") /\ UNCHANGED volatile
    /\ UNCHANGED <<disk, mem, observed, rest>>


\* What the journal demands of the manifest, the files and the parts.
Recoverable(j) ==
    /\ manifest \in {j.prior, j.entry}
    /\ \A f \in File :
        /\ dest[f] \in {j.before[f], j.entry.sha[f]}
        /\ part[f] \in {NoFile, j.entry.sha[f]}
        /\ part[f] = NoFile => dest[f] = j.entry.sha[f]

ScanJournal ==
    /\ pc = "scan"
    /\ pending
    /\ journal # None
    /\ IF Recoverable(journal)
       THEN /\ Goto("install")
            /\ staged' = {f \in File : dest[f] # journal.entry.sha[f]}
            /\ UNCHANGED <<goal, preserve, before, saving>>
       ELSE Return
    /\ UNCHANGED <<disk, mem, observed, rest>>

NextStaged == IF "source" \in staged THEN "source" ELSE "twin"

\* The destination is fingerprinted once more just before it is replaced.
Recheck ==
    /\ pc = "install"
    /\ staged # {}
    /\ IF dest[NextStaged] \in {journal.before[NextStaged],
                                journal.entry.sha[NextStaged]}
       THEN Goto("replace") /\ UNCHANGED volatile
       ELSE Return
    /\ UNCHANGED <<disk, mem, observed, rest>>

\* _copy_verified refuses a part whose bytes are not the journal's.
Replace ==
    /\ pc = "replace"
    /\ IF part[NextStaged] = journal.entry.sha[NextStaged]
       THEN /\ dest' = [dest EXCEPT ![NextStaged] = part[NextStaged]]
            /\ edited' = edited \ {NextStaged}
            /\ staged' = staged \ {NextStaged}
            /\ Goto("install")
            /\ UNCHANGED <<goal, preserve, before, saving>>
       ELSE /\ Return
            /\ UNCHANGED <<dest, edited>>
    /\ UNCHANGED <<manifest, pending, part, journal, leftover, history, mem,
                   captured, notes, rest>>

Commit ==
    /\ pc = "install"
    /\ staged = {}
    /\ mem' = journal.entry
    /\ Record(journal.entry)
    /\ Goto("cleanup")
    /\ UNCHANGED <<dest, pending, part, journal, leftover, history, volatile,
                   edited, notes, rest>>

\* Mutant of CommitFails: the journal is removed before the manifest is saved.
CommitFailsAfterCleanup ==
    /\ pc = "install"
    /\ staged = {}
    /\ faults < MaxFaults[kind]
    /\ faults' = faults + 1
    /\ mem' = journal.entry
    /\ journal' = None
    /\ Return
    /\ UNCHANGED <<manifest, dest, pending, part, leftover, history, observed,
                   edits, kind>>

\* mark succeeds in memory, save_manifest raises.
CommitFails ==
    /\ pc = "install"
    /\ staged = {}
    /\ faults < MaxFaults[kind]
    /\ faults' = faults + 1
    /\ mem' = journal.entry
    /\ Return
    /\ UNCHANGED <<disk, observed, edits, kind>>

\* remove_tree unlinks the files in directory order, then the directory.
RemoveFile ==
    /\ pc = "cleanup"
    /\ \/ \E f \in File :
            /\ part[f] # NoFile
            /\ part' = [part EXCEPT ![f] = NoFile]
            /\ UNCHANGED <<journal, leftover>>
       \/ /\ journal # None
          /\ journal' = None
          /\ UNCHANGED <<part, leftover>>
    /\ UNCHANGED <<manifest, dest, pending, history, mem, pc, volatile,
                   observed, rest>>

RemoveDirectory ==
    /\ pc = "cleanup"
    /\ part = Nothing
    /\ journal = None
    /\ pending' = FALSE
    /\ leftover' = FALSE
    /\ AfterRecovery
    /\ UNCHANGED <<manifest, dest, part, journal, history, mem, observed,
                   rest>>
-----------------------------------------------------------------------------
(* The callers, up to install_generated *)

Modified(f) == dest[f] \notin {NoFile, Recorded(Known)[f]}

\* outlines._outline_is_current: both files and their provenance match.
OutlineIsCurrent ==
    /\ Known # None
    /\ Known = [sha |-> goal, tool |-> "generator"]
    /\ dest = goal

\* Mutant of NeedsPreservation: only the twin is compared.
NeedsPreservationOfTwin == Known # None /\ Modified("twin")

NeedsPreservation ==
    /\ Known # None
    /\ IF kind = "assignment"
       THEN \/ Recorded(Known)["source"] # goal["source"]
            \/ Modified("twin")
       ELSE \/ Recorded(Known) # goal
            \/ \E f \in File : Modified(f)

\* An unchanged outline is left alone; an assignment is always reinstalled.
Plan ==
    /\ pc = "plan"
    /\ IF kind = "outline" /\ OutlineIsCurrent
       THEN Return
       ELSE /\ preserve' = NeedsPreservation
            /\ Goto("fingerprint")
            /\ UNCHANGED <<goal, before, saving, staged>>
    /\ UNCHANGED <<disk, mem, observed, rest>>

Fingerprint ==
    /\ pc = "fingerprint"
    /\ before' = dest
    /\ Goto(IF preserve THEN "preserve source" ELSE "directory")
    /\ UNCHANGED <<goal, preserve, saving, staged>>
    /\ UNCHANGED <<disk, mem, observed, rest>>

\* preserve_revision copies the source only if it is the recorded one.  A
\* source that is gone is tolerated when there was nothing to lose.
PreserveSource ==
    /\ pc = "preserve source"
    /\ IF dest["source"] = Recorded(Known)["source"]
       THEN /\ saving' = dest["source"]
            /\ Goto("preserve twin")
            /\ UNCHANGED <<goal, preserve, before, staged>>
       ELSE IF dest["source"] = NoFile /\ before = Nothing
       THEN Goto("directory") /\ UNCHANGED volatile
       ELSE Return
    /\ UNCHANGED <<disk, mem, observed, rest>>

\* The twin is copied whatever it holds; revision.json makes it a revision.
PreserveTwin ==
    /\ pc = "preserve twin"
    /\ history' = history \cup {[source |-> saving, twin |-> dest["twin"]]}
    /\ Goto("directory")
    /\ UNCHANGED <<manifest, dest, pending, part, journal, leftover, mem,
                   volatile, observed, rest>>

MakeDirectory ==
    /\ pc = "directory"
    /\ pending' = TRUE
    /\ Goto("stage")
    /\ UNCHANGED <<manifest, dest, part, journal, leftover, history, mem,
                   volatile, observed, rest>>

NextPart == IF part["source"] = NoFile THEN "source" ELSE "twin"

StagePart ==
    /\ pc = "stage"
    /\ part[NextPart] = NoFile
    /\ part' = [part EXCEPT ![NextPart] = goal[NextPart]]
    /\ UNCHANGED <<manifest, dest, pending, journal, leftover, history, mem,
                   pc, volatile, observed, rest>>

\* Mutant of WriteJournal: it does not wait for the twin's part.
WriteJournalEarly ==
    /\ pc = "stage"
    /\ part["source"] # NoFile
    /\ journal' = [prior |-> Known,
                   entry |-> [sha |-> goal, tool |-> "generator"],
                   before |-> before]
    /\ goal' = None
    /\ preserve' = FALSE
    /\ before' = Nothing
    /\ saving' = NoFile
    /\ Goto("scan")
    /\ UNCHANGED <<manifest, dest, pending, part, leftover, history, mem,
                   staged, observed, rest>>

\* Once the journal is written, recover_generated does the rest.
WriteJournal ==
    /\ pc = "stage"
    /\ \A f \in File : part[f] # NoFile
    /\ journal' = [prior |-> Known,
                   entry |-> [sha |-> goal, tool |-> "generator"],
                   before |-> before]
    /\ goal' = None
    /\ preserve' = FALSE
    /\ before' = Nothing
    /\ saving' = NoFile
    /\ Goto("scan")
    /\ UNCHANGED <<manifest, dest, pending, part, leftover, history, mem,
                   staged, observed, rest>>
-----------------------------------------------------------------------------
(* convert_vault, for this key *)

\* The converter accepts the prompt tool for an assignment, not the outline's.
ConversionIsCurrent ==
    /\ dest["twin"] = Recorded(Known)["twin"]
    /\ \/ Known.tool = "converter"
       \/ kind = "assignment"

\* Mutant of ConvertTwin: the twin it overwrites is not archived.
ConvertTwinUnarchived ==
    /\ pc = "idle"
    /\ Known # None
    /\ dest["source"] = Recorded(Known)["source"]
    /\ ~ConversionIsCurrent
    /\ mem' = Known
    /\ dest' = [dest EXCEPT !["twin"] = ConvertedTwin]
    /\ edited' = edited \ {"twin"}
    /\ Goto("convert")
    /\ UNCHANGED <<manifest, pending, part, journal, leftover, history,
                   volatile, captured, notes, rest>>

\* A twin the student changed is archived before it is overwritten.  The walk
\* over the manifest's entries asks for no recovery: it may find a transaction
\* pending, when the metadata of the same run was reused (a resumed init), its
\* listing failed, or the item is not listed or not rendered any more.
ConvertTwin ==
    /\ pc = "idle"
    /\ Known # None
    /\ dest["source"] = Recorded(Known)["source"]
    /\ ~ConversionIsCurrent
    /\ mem' = Known
    /\ history' = IF Modified("twin")
                  THEN history \cup {[source |-> dest["source"],
                                      twin |-> dest["twin"]]}
                  ELSE history
    /\ dest' = [dest EXCEPT !["twin"] = ConvertedTwin]
    /\ edited' = edited \ {"twin"}
    /\ Goto("convert")
    /\ UNCHANGED <<manifest, pending, part, journal, leftover, volatile,
                   captured, notes, rest>>

RecordConversion ==
    /\ pc = "convert"
    /\ mem' = [sha |-> [Known.sha EXCEPT !["twin"] = ConvertedTwin],
               tool |-> "converter"]
    /\ Record(mem')
    /\ Goto("idle")
    /\ UNCHANGED <<dest, pending, part, journal, leftover, history, volatile,
                   edited, notes, rest>>

\* save_manifest on behalf of another key writes this key's entry too.
SaveOther ==
    /\ pc = "idle"
    /\ mem \notin {Unloaded, None, manifest}
    /\ Record(mem)
    /\ UNCHANGED <<dest, pending, part, journal, leftover, history, mem, pc,
                   volatile, edited, notes, rest>>

Exit ==
    /\ pc = "idle"
    /\ mem # Unloaded
    /\ mem' = Unloaded
    /\ UNCHANGED <<disk, pc, volatile, observed, rest>>
-----------------------------------------------------------------------------
(* Faults and the student *)

\* An OSError unwinds the call; the process and its memory live on.
IOFailure ==
    /\ pc # "idle"
    /\ faults < MaxFaults[kind]
    /\ faults' = faults + 1
    /\ Return
    /\ UNCHANGED <<disk, mem, observed, edits, kind>>

\* The process is killed.  Inside the pending directory, a write that was
\* under way leaves its mkstemp file behind.
Crash ==
    /\ pc # "idle"
    /\ faults < MaxFaults[kind]
    /\ faults' = faults + 1
    /\ mem' = Unloaded
    /\ leftover' \in {leftover, pc = "stage" \/ leftover}
    /\ Return
    /\ UNCHANGED <<manifest, dest, pending, part, journal, history, observed,
                   edits, kind>>

\* The student changes or deletes a file the vault manages, at any moment.
Edit(f, c) ==
    /\ edits < MaxEdits
    /\ edits' = edits + 1
    /\ manifest # None \/ journal # None
    /\ c # dest[f]
    /\ dest' = [dest EXCEPT ![f] = c]
    /\ edited' = edited \cup {f}
    /\ captured' = IF f = "source"
                   THEN captured \ ({dest["source"]} \ HistorySources)
                   ELSE captured
    /\ notes' = IF f = "twin"
                THEN (notes \ {dest["twin"]}) \cup
                        (IF pc = "idle" THEN {c} \ (GeneratedTwins \cup Taken) ELSE {})
                ELSE notes
    /\ UNCHANGED <<manifest, pending, part, journal, leftover, history, mem,
                   pc, volatile, faults, kind>>

\* A staged part is damaged while no run is using it.
Damage(f, c) ==
    /\ pc = "idle"
    /\ edits < MaxEdits
    /\ edits' = edits + 1
    /\ part[f] # NoFile
    /\ c \notin {NoFile, part[f]}
    /\ part' = [part EXCEPT ![f] = c]
    /\ UNCHANGED <<manifest, dest, pending, journal, leftover, history, mem,
                   pc, volatile, observed, faults, kind>>
-----------------------------------------------------------------------------
Recover == \/ ScanNothing \/ ScanAbandoned \/ ScanJournal
           \/ Recheck \/ Replace \/ Commit \/ RemoveFile \/ RemoveDirectory

Install == \/ Plan \/ Fingerprint \/ PreserveSource \/ PreserveTwin
           \/ MakeDirectory \/ StagePart \/ WriteJournal

Convert == ConvertTwin \/ RecordConversion

Environment == \/ CommitFails \/ IOFailure \/ Crash
               \/ \E f \in File, c \in LocalEdits : Edit(f, c) \/ Damage(f, c)

Next == \/ \E r \in Remote : Sync(r)
        \/ Recover
        \/ Install
        \/ Convert
        \/ SaveOther
        \/ Exit
        \/ Environment

Spec == Init /\ [][Next]_vars
-----------------------------------------------------------------------------
(* What the journal is for *)

\* The disk, the process and the ghosts hold what the code can put there.
WellTyped ==
    /\ manifest \in Entry \cup {None}
    /\ dest \in [File -> Contents \cup {NoFile}]
    /\ pending \in BOOLEAN
    /\ part \in [File -> Contents \cup {NoFile}]
    /\ journal \in Journal \cup {None}
    /\ leftover \in BOOLEAN
    /\ history \subseteq [source : Contents, twin : Contents \cup {NoFile}]
    /\ mem \in Entry \cup {None, Unloaded}
    /\ pc \in PCs
    /\ goal \in [File -> Contents] \cup {None}
    /\ preserve \in BOOLEAN
    /\ before \in [File -> Contents \cup {NoFile}]
    /\ saving \in Contents \cup {NoFile}
    /\ staged \subseteq File
    /\ edited \subseteq File
    /\ captured \subseteq Contents
    /\ notes \subseteq Contents

WithinBounds ==
    /\ kind \in KeyKinds
    /\ faults \in 0 .. MaxFaults[kind]
    /\ edits \in 0 .. MaxEdits

\* The type invariant.  Its one deep conjunct is that of history: an archived
\* revision always has a source, because the copy was verified.
TypeOK == WellTyped /\ WithinBounds

\* A source revision the manifest ever recorded is still in place or in the
\* history, whatever crashed and whatever was synced since: "A sync never
\* silently destroys a captured revision" (design document, lines 968-969).
CapturedSurvives == captured \subseteq HistorySources \cup {dest["source"]}

\* A twin the student annotated between two runs is still in place or in the
\* history: no sync, recovery or conversion discards her annotations.  (What
\* she writes in the instant between a check and a replacement can be lost,
\* and so can what she puts back afterwards if a killed run had found it and
\* takes it for the bytes it was going to replace.)
NotesSurvive == notes \subseteq HistoryTwins \cup {dest["twin"]}

\* The source on disk is always explained: it is the student's own edit, the
\* revision the manifest records, or the new revision of a live journal.  A
\* crash never leaves source bytes that no recorded state accounts for.
SourceAccounted ==
    \/ "source" \in edited
    \/ dest["source"] = Recorded(manifest)["source"]
    \/ journal # None /\ dest["source"] = journal.entry.sha["source"]

\* The source an entry records; NoFile for no entry.
Source(e) == Recorded(e)["source"]

\* Until the manifest has accepted the new source, both parts are still
\* staged: recovery can always redo what it has not committed, and whatever
\* the converter does meanwhile takes no part away.
PartsOutliveCommit ==
    journal # None /\ Source(manifest) # Source(journal.entry) =>
        \A f \in File : part[f] # NoFile

\* "Restart completes that transaction before accepting a newer revision"
\* (design document, lines 233-234): while a journal is there, the manifest
\* only changes to the journal's entry.  The converter does not keep to it.
TransactionFirst ==
    [][journal # None /\ manifest' # manifest =>
        manifest' = journal.entry]_vars

\* The transaction implements RevisionArchive: the journal proposes its source
\* until the manifest has accepted it.  The twins are free: the converter may
\* record another one in the middle of a transaction.
Accepted == IF manifest = None THEN None
            ELSE [source |-> Source(manifest), twin |-> manifest.sha["twin"]]

Proposed == IF journal = None \/ Source(manifest) = Source(journal.entry)
            THEN None
            ELSE Source(journal.entry)

Promise == INSTANCE RevisionArchive WITH
    Sources <- Contents,
    Twins <- Contents,
    accepted <- Accepted,
    proposed <- Proposed,
    archive <- HistorySources,
    held <- captured

\* Every step of a transaction, a conversion or the student is a step of the
\* promise or changes nothing the promise is about.
ImplementsArchive == Promise!ASpec

\* The program's own steps are not stopped half-way, and the student keeps
\* syncing the key.  Nothing makes the environment act.
Fairness ==
    /\ WF_vars(Recover \/ Install \/ RecordConversion)
    /\ WF_vars(\E r \in Remote : Sync(r))

FairSpec == Spec /\ Fairness

\* The converter has overtaken the journal: it has overwritten a twin that the
\* journal was to replace or that it can no longer make, or it has recorded an
\* entry that is neither end of the transaction.  Recovery refuses such a
\* journal, now and in every later run.
Overtaken ==
    /\ journal # None
    /\ dest["twin"] = ConvertedTwin
    /\ \/ journal.before["twin"] # ConvertedTwin
       \/ part["twin"] = NoFile
       \/ manifest \notin {journal.prior, journal.entry}

=============================================================================
