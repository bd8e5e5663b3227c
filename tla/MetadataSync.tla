---------------------------- MODULE MetadataSync ----------------------------
(***************************************************************************)
(* What a sync learns from the lists of one course: ingest.ingest_metadata *)
(* and ingest._ingest_discussions, the coverage they record, and the two   *)
(* commands around them, pipeline.run_pipeline in `a2l sync` and the       *)
(* resumable last stages of `a2l init`.                                    *)
(*                                                                         *)
(* The lists are read page by page while the instructor posts and removes  *)
(* items; a page may fail, a tool may be closed to the student, the        *)
(* session may expire and the process be killed, at any step.              *)
(*                                                                         *)
(* Simplifications:                                                        *)
(*  - An item is its identity and one of the four marks of its row; dates, *)
(*    titles and the rendered Markdown are left out.  Every assignment has *)
(*    one attachment, and a forum stands for its posts.                    *)
(*  - The bookmarks of a list are stable: a page covers items nobody has   *)
(*    been shown yet, and an item that is posted throughout is listed.     *)
(*  - Outlines, downloads and conversion either work, leave a gap, or      *)
(*    fail; SourceInstall and GeneratedRevision say how.                   *)
(*  - The setup begins where the courses are selected.                     *)
(***************************************************************************)
EXTENDS Naturals

CONSTANTS
    Collections,   \* the lists of the course that the configuration asks for
    Item,          \* what can be posted
    CollectionOf,  \* where
    Postings,      \* what may be posted when the setup begins
    Exposures,     \* the sets of tools that may be open to the student
    MaxChanges,    \* bound on the changes of the course
    MaxFaults      \* bound on failures

Always == {"toc", "assignments", "news", "quizzes"}
Optional == Collections \ {"toc"}
Of(c) == {i \in Item : CollectionOf[i] = c}
Attached == Of("assignments")
Mark == {"unknown", "present", "missing", "withdrawn"}
Coverage == {"none", "complete", "unavailable", "incomplete"}
PCs == {"idle", "fetch", "record", "rows", "map", "mark", "stages",
        "download", "report"}

ASSUME CollectionsAssumption ==
    /\ Always \subseteq Collections
    /\ Collections \subseteq Always \cup {"grades", "discussions"}
ASSUME ItemAssumption == CollectionOf \in [Item -> Collections]
ASSUME PostingsAssumption == Postings \subseteq SUBSET Item
ASSUME ExposuresAssumption == Exposures \subseteq SUBSET Optional
ASSUME BoundsAssumption == MaxChanges \in Nat /\ MaxFaults \in Nat

VARIABLES
    \* In LEARN.
    posted,     \* the items
    exposed,    \* the tools that are open
    \* On disk.
    rows,       \* the mark of each item's row
    attached,   \* the mark of each attachment's row in content_map.json
    coverage,   \* metadata_coverage.json
    setup,      \* init.json: "selected", "metadata" complete, files "done"
    \* In the memory of the running command.
    pc,         \* where it is
    command,    \* "sync" or "init"
    coll,       \* the list it is at
    todo,       \* the items of that list no page has covered yet
    seen,       \* the items listed in this run
    whole,      \* the lists read to the end in this run
    errors,     \* what failed
    gaps,       \* what is recorded as a gap
    \* Observed only.
    steady,     \* the items posted throughout this run
    lacked,     \* the items not posted at some moment while their list was read
    gone,       \* how often a row was written without an item that was lacking
    goneFile,   \* the same of attachments
    changes, faults

course == <<posted, exposed>>
disk == <<rows, attached, coverage, setup>>
reading == <<coll, todo, seen, whole>>
results == <<errors, gaps>>
observed == <<steady, lacked, gone, goneFile>>
bounds == <<changes, faults>>
vars == <<course, disk, pc, command, reading, results, observed, bounds>>

Goto(label) == pc' = label
-----------------------------------------------------------------------------
Init ==
    /\ posted \in Postings
    /\ exposed \in Exposures
    /\ rows = [i \in Item |-> "unknown"]
    /\ attached = [i \in Attached |-> "unknown"]
    /\ coverage = [c \in Optional |-> "none"]
    /\ setup = "selected"
    /\ pc = "idle"
    /\ command = "sync"
    /\ coll = "toc"
    /\ todo = {}
    /\ seen = {}
    /\ whole = {}
    /\ errors = {}
    /\ gaps = {}
    /\ steady = {}
    /\ lacked = {}
    /\ gone = [i \in Item |-> 0]
    /\ goneFile = [i \in Attached |-> 0]
    /\ changes = 0
    /\ faults = 0
-----------------------------------------------------------------------------
(* The commands *)

Enter(c) ==
    /\ coll' = c
    /\ todo' = Of(c)
    /\ lacked' = lacked \cup (Of(c) \ posted)
    /\ Goto("fetch")

\* The end of a command, for whatever reason.
Forget ==
    /\ Goto("idle")
    /\ command' = "sync"
    /\ coll' = "toc"
    /\ todo' = {}
    /\ seen' = {}
    /\ whole' = {}
    /\ errors' = {}
    /\ gaps' = {}
    /\ steady' = {}
    /\ lacked' = {}

Start(kind) ==
    /\ pc = "idle"
    /\ command' = kind
    /\ steady' = posted
    /\ Enter("toc")
    /\ UNCHANGED <<course, disk, seen, whole, results, gone, goneFile,
                   bounds>>

Sync == Start("sync")

BeginInit == setup = "selected" /\ Start("init")

\* Mutant of ReportedErrors: a closed tool is an error of the resumed init.
ReportedErrorsAndGaps ==
    {c \in Optional : coverage[c] \in {"incomplete", "unavailable"}}

\* ingest.load_metadata_report: an init that has its metadata takes the errors
\* and the gaps from the record, and lists nothing again.
ReportedErrors == {c \in Optional : coverage[c] = "incomplete"}

ReportedGaps == {c \in Optional : \/ coverage[c] = "unavailable"
                                  \/ c = "quizzes" /\ coverage[c] = "none"}

ResumeInit ==
    /\ pc = "idle"
    /\ setup = "metadata"
    /\ command' = "init"
    /\ errors' = ReportedErrors
    /\ gaps' = ReportedGaps
    /\ Goto("stages")
    /\ UNCHANGED <<course, disk, reading, observed, bounds>>
-----------------------------------------------------------------------------
(* Reading a list *)

Listable == coll = "toc" \/ coll \in exposed

\* Mutant of RecordsFirst: quizzes are recorded like the others.
RecordsFirstAlways(c) == c # "discussions"

\* Assignments, announcements and grades are recorded before they are merged.
RecordsFirst(c) == c \in {"assignments", "news", "grades"}

\* One list's failure does not keep the next from being read.  The table of
\* contents has no coverage record and its rows wait for the attachments;
\* discussions are merged only if they are complete.
AfterList(complete) ==
    IF coll = "toc" THEN Enter("assignments")
    ELSE /\ Goto(IF RecordsFirst(coll) \/ (coll = "discussions" /\ ~complete)
                 THEN "record" ELSE "rows")
         /\ todo' = {}
         /\ UNCHANGED <<coll, lacked>>

\* Mutant of LastPage: a list is over when a page brings nothing new.
LastPageIsDry(p) == p \cap posted = {}

\* Only a page without a next one ends a list.
LastPage(p) == p = todo

\* The table of contents is one document, the others have pages.
Page(p) ==
    /\ pc = "fetch"
    /\ Listable
    /\ p \subseteq todo
    /\ (p = {} \/ coll = "toc") => p = todo
    /\ seen' = seen \cup (p \cap posted)
    /\ IF LastPage(p)
       THEN whole' = whole \cup {coll} /\ AfterList(TRUE)
       ELSE /\ todo' = todo \ p
            /\ UNCHANGED <<pc, coll, whole, lacked>>
    /\ UNCHANGED <<course, disk, command, results, steady, gone, goneFile,
                   bounds>>

\* HTTP 403 or 404: the tool is closed, which is a gap and not an error.
Unavailable ==
    /\ pc = "fetch"
    /\ ~Listable
    /\ gaps' = gaps \cup {coll}
    /\ AfterList(FALSE)
    /\ UNCHANGED <<course, disk, command, seen, whole, errors, steady, gone,
                   goneFile, bounds>>

Fault == faults < MaxFaults /\ faults' = faults + 1

\* Any other failure, a malformed page or item, a loop of pages.  The valid
\* part of a malformed table of contents is taken.
ListFails ==
    /\ pc = "fetch"
    /\ Fault
    /\ errors' = errors \cup {coll}
    /\ \E part \in SUBSET (todo \cap posted) :
        /\ coll # "toc" => part = {}
        /\ seen' = seen \cup part
    /\ AfterList(FALSE)
    /\ UNCHANGED <<course, disk, command, whole, gaps, steady, gone, goneFile,
                   changes>>
-----------------------------------------------------------------------------
(* Recording and merging it *)

Outcome == IF coll \in whole THEN "complete"
           ELSE IF coll \in gaps THEN "unavailable" ELSE "incomplete"

After == [toc |-> "assignments", assignments |-> "news", news |-> "quizzes",
          quizzes |-> "grades", grades |-> "none", discussions |-> "none"]

NextList ==
    IF After[coll] \in Collections THEN Enter(After[coll])
    ELSE /\ Goto(IF coll = "discussions" THEN "download" ELSE "map")
         /\ UNCHANGED <<coll, todo, lacked>>

\* Quizzes and discussions always have a record; the others have one from
\* their first failure on.
Record ==
    /\ pc = "record"
    /\ coverage' = IF \/ ~RecordsFirst(coll)
                      \/ Outcome # "complete" \/ coverage[coll] # "none"
                   THEN [coverage EXCEPT ![coll] = Outcome]
                   ELSE coverage
    /\ IF RecordsFirst(coll)
       THEN Goto("rows") /\ UNCHANGED <<coll, todo, lacked>>
       ELSE NextList
    /\ UNCHANGED <<course, rows, attached, setup, command, seen, whole,
                   results, steady, gone, goneFile, bounds>>

\* Mutant of Merged: what is missing stays so.
MergedMissing(mark, listed, complete) ==
    IF listed THEN "present"
    ELSE IF mark = "present" /\ complete THEN "missing" ELSE mark

\* _merge_rows and _merge_topic_records: nothing is ever dropped, what is
\* listed is present, and what a complete list lacks is missing, then
\* withdrawn.
Merged(mark, listed, complete) ==
    IF listed THEN "present"
    ELSE IF mark = "unknown" \/ ~complete THEN mark
    ELSE IF mark = "present" THEN "missing" ELSE "withdrawn"

\* The count of the lists that truly lacked an item since one showed it.
Count(n, i) == IF i \in seen THEN 0
               ELSE IF i \in lacked /\ n < 2 THEN n + 1 ELSE n

MergeRows ==
    /\ pc = "rows"
    /\ rows' = [i \in Item |-> IF i \in Of(coll)
                               THEN Merged(rows[i], i \in seen, coll \in whole)
                               ELSE rows[i]]
    /\ gone' = [i \in Item |-> IF i \in Of(coll) THEN Count(gone[i], i)
                               ELSE gone[i]]
    /\ IF RecordsFirst(coll) THEN NextList
       ELSE Goto("record") /\ UNCHANGED <<coll, todo, lacked>>
    /\ UNCHANGED <<course, attached, coverage, setup, command, seen, whole,
                   results, steady, goneFile, bounds>>

\* Mutant of MapIsComplete: the table of contents lists all topics.
TocIsComplete == "toc" \in whole

\* Attachments come from the assignments as well as from the table of contents,
\* so a failure of either marks no topic.
MapIsComplete == {"toc", "assignments"} \subseteq whole

\* content_map.json is written last, from the rows it had when the run began.
WriteMap ==
    /\ pc = "map"
    /\ rows' = [i \in Item |-> IF i \in Of("toc")
                               THEN Merged(rows[i], i \in seen, MapIsComplete)
                               ELSE rows[i]]
    /\ attached' = [i \in Attached |->
                        Merged(attached[i], i \in seen, MapIsComplete)]
    /\ gone' = [i \in Item |-> IF i \in Of("toc") THEN Count(gone[i], i)
                               ELSE gone[i]]
    /\ goneFile' = [i \in Attached |-> Count(goneFile[i], i)]
    /\ seen' = {}
    /\ whole' = {}
    /\ lacked' = {}
    /\ Goto(IF command = "init" THEN "mark" ELSE "stages")
    /\ UNCHANGED <<course, coverage, setup, command, coll, todo, results,
                   steady, bounds>>
-----------------------------------------------------------------------------
(* What follows the metadata *)

\* `a2l init` stops here if anything failed.
InitStops ==
    /\ pc = "mark"
    /\ errors # {}
    /\ Forget
    /\ UNCHANGED <<course, disk, gone, goneFile, bounds>>

MarkMetadata ==
    /\ pc = "mark"
    /\ errors = {}
    /\ setup' = "metadata"
    /\ Goto("stages")
    /\ UNCHANGED <<course, rows, attached, coverage, command, reading, results,
                   observed, bounds>>

\* Incomplete metadata stop the files; discussions, which only `a2l sync` asks
\* for, are read with the files.
Stages ==
    /\ pc = "stages"
    /\ IF errors = {} /\ command = "sync" /\ "discussions" \in Collections
       THEN Enter("discussions")
       ELSE /\ Goto(IF errors = {} THEN "download" ELSE "report")
            /\ UNCHANGED <<coll, todo, lacked>>
    /\ UNCHANGED <<course, disk, command, seen, whole, results, steady, gone,
                   goneFile, bounds>>

Download ==
    /\ pc = "download"
    /\ Goto("report")
    /\ UNCHANGED <<course, disk, command, reading, results, observed, bounds>>

\* A download leaves a gap, or a stage fails.
StageFails ==
    /\ pc = "download"
    /\ Fault
    /\ \/ gaps' = gaps \cup {"files"} /\ UNCHANGED errors
       \/ errors' = errors \cup {"files"} /\ UNCHANGED gaps
    /\ Goto("report")
    /\ UNCHANGED <<course, disk, command, reading, observed, changes>>

\* _result_status, and what `a2l init` makes of it.
Report ==
    /\ pc = "report"
    /\ setup' = IF command = "init" /\ errors = {} THEN "done" ELSE setup
    /\ Forget
    /\ UNCHANGED <<course, rows, attached, coverage, gone, goneFile, bounds>>
-----------------------------------------------------------------------------
(* The instructor, the session and the process *)

Change == changes < MaxChanges /\ changes' = changes + 1

Post(i) ==
    /\ i \notin posted
    /\ Change
    /\ posted' = posted \cup {i}
    /\ UNCHANGED <<exposed, disk, pc, command, reading, results, observed,
                   faults>>

Remove(i) ==
    /\ i \in posted
    /\ Change
    /\ posted' = posted \ {i}
    /\ steady' = steady \ {i}
    /\ lacked' = IF pc = "fetch" /\ i \in Of(coll) THEN lacked \cup {i}
                 ELSE lacked
    /\ UNCHANGED <<exposed, disk, pc, command, reading, results, gone,
                   goneFile, faults>>

Expose(tools) ==
    /\ tools # exposed
    /\ Change
    /\ exposed' = tools
    /\ UNCHANGED <<posted, disk, pc, command, reading, results, observed,
                   faults>>

\* The process is killed or interrupted; a session that expires ends it too.
Stop ==
    /\ pc # "idle"
    /\ Fault
    /\ Forget
    /\ UNCHANGED <<course, disk, gone, goneFile, changes>>
-----------------------------------------------------------------------------
Program ==
    \/ \E p \in SUBSET todo : Page(p)
    \/ Unavailable \/ Record \/ MergeRows \/ WriteMap
    \/ InitStops \/ MarkMetadata \/ Stages \/ Download \/ Report

Resume == BeginInit \/ ResumeInit

Environment ==
    \/ ListFails \/ StageFails \/ Stop
    \/ \E i \in Item : Post(i) \/ Remove(i)
    \/ \E tools \in Exposures : Expose(tools)

Next == Program \/ Sync \/ Resume \/ Environment

Spec == Init /\ [][Next]_vars

\* A command is not stopped half-way, and the student runs both again.
FairSpec == Spec /\ WF_vars(Program) /\ SF_vars(Resume) /\ SF_vars(Sync)

\* A student who knows only `a2l init`, which is what its messages tell her to
\* run.
InitSpec == Spec /\ WF_vars(Program) /\ SF_vars(Resume)
-----------------------------------------------------------------------------
(* What the lists and their record are good for *)

TypeOK ==
    /\ posted \subseteq Item
    /\ exposed \in Exposures
    /\ rows \in [Item -> Mark]
    /\ attached \in [Attached -> Mark]
    /\ coverage \in [Optional -> Coverage]
    /\ setup \in {"selected", "metadata", "done"}
    /\ pc \in PCs
    /\ command \in {"sync", "init"}
    /\ coll \in Collections
    /\ todo \subseteq Of(coll)
    /\ seen \subseteq Item
    /\ whole \subseteq Collections
    /\ errors \subseteq Collections \cup {"files"}
    /\ gaps \subseteq Optional \cup {"files"}
    /\ steady \subseteq posted
    /\ lacked \subseteq Item
    /\ gone \in [Item -> 0 .. 2]
    /\ goneFile \in [Attached -> 0 .. 2]
    /\ changes \in 0 .. MaxChanges
    /\ faults \in 0 .. MaxFaults

\* How often an item must have been gone to have this mark.
Absences(mark) == CASE mark = "missing" -> 1
                    [] mark = "withdrawn" -> 2
                    [] OTHER -> 0

\* "A partial, failed, or malformed response can add known items but can never
\* mark an existing item missing ... Only after it is absent from two
\* consecutive successful complete syncs" is it withdrawn (design document,
\* lines 837-845): a mark is never given to an item that was posted while its
\* list was read, however its pages failed and whatever was killed between.
MarkedWasGone ==
    /\ \A i \in Item : gone[i] >= Absences(rows[i])
    /\ \A i \in Attached : goneFile[i] >= Absences(attached[i])

\* A sync that reports no error has a row, not missing, for everything that was
\* posted throughout it, except in the lists it names as gaps: "summaries do
\* not claim complete" what was not read (design document, line 872).
StatusIsHonest ==
    pc = "report" /\ command = "sync" /\ errors = {} =>
        \A i \in steady :
            \/ CollectionOf[i] \in gaps
            \/ /\ rows[i] = "present"
               /\ i \in Attached => attached[i] = "present"

\* Quizzes and discussions are on disk before the record says so: no kill
\* leaves "complete" (and calendar.py's STATUS:CONFIRMED) over an older list.
CompleteIsCaptured ==
    [][\A c \in Optional \cap {"quizzes", "discussions"} :
        coverage'[c] = "complete" /\ coverage[c] # "complete" =>
            \A i \in Of(c) \cap seen : rows[i] = "present"]_vars

\* What has been removed for good is marked withdrawn by the syncs that follow,
\* if its tool is open.  A topic needs the assignments as well: on a course
\* that closes them it is never marked.
RemovedIsWithdrawn ==
    \A i \in Item :
        <>[](i \notin posted /\ {"assignments", CollectionOf[i]} \ {"toc"}
                                    \subseteq exposed)
            => <>[](rows[i] \in {"unknown", "withdrawn"})

\* "After resolving the reported problem, rerun `a2l init`; it resumes"
\* (docs/FAQ.md, lines 88-89): an init that has its metadata finishes.
InitFinishes == setup = "metadata" ~> setup = "done"

\* It does as long as no sync has recorded a list as incomplete meanwhile.
InitFinishesUnlessIncomplete ==
    setup = "metadata" ~> \/ setup = "done"
                          \/ \E c \in Optional : coverage[c] = "incomplete"
=============================================================================
