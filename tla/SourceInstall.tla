--------------------------- MODULE SourceInstall ---------------------------
(***************************************************************************)
(* One topic file from the course site to the vault: ingest._ingest_one_   *)
(* topic with its pending-install marker, inside the two commands that run *)
(* it (pipeline.run_pipeline and ingest.fetch_topic), and the availability *)
(* the content map gives the topic (index.reconcile_content_map).          *)
(*                                                                         *)
(* The site may publish a new revision, a download may fail, the process   *)
(* may be killed or interrupted, and the student may edit, at any step.    *)
(*                                                                         *)
(* Simplifications:                                                        *)
(*  - A file is its content and a SHA-256 digest is the content itself.    *)
(*  - ETag and Last-Modified are one date.  The table of contents gives it *)
(*    in ISO form and a response in HTTP form, so equal dates of different *)
(*    form differ, and only the site's own form can be answered by a 304.  *)
(*  - The topic is a plain document: the repair of HTML bundles is left    *)
(*    out, and sizes never contradict dates.                               *)
(*  - The twin is only recorded or not: its edits are in                   *)
(*    GeneratedRevision.                                                   *)
(*  - A part without a marker is never looked at again; it is dropped when *)
(*    its process ends.                                                    *)
(***************************************************************************)
EXTENDS Naturals, Sequences

CONSTANTS
    Bytes,         \* what the site can publish
    LocalEdits,    \* what the student may leave in the file
    NoFile,        \* the content of a file that does not exist
    None,          \* no entry, no marker, no row, no date
    Sites,         \* which dates a site gives: subsets of {"toc", "http"}
    MaxRemote,     \* bound on the revisions published
    MaxFaults,     \* bound on failures
    MaxEdits       \* bound on the student's edits

Date == [form : {"toc", "http"}, at : 1 .. MaxRemote]
Entry == [sha : Bytes, date : Date \cup {None}, derived : BOOLEAN]
Marker == [sha : Bytes, date : Date \cup {None}, prior : Bytes \cup {None},
           preserved : BOOLEAN]
Availability == {"metadata_only", "source_only", "markdown_ready",
                 "conversion_gap", "integrity_gap", "download_gap"}
Row == [date : Date \cup {None}, availability : Availability]
PCs == {"idle", "files", "find", "retry", "check", "download", "downloaded",
        "preserve", "certify", "install", "commit", "row", "clear", "sweep",
        "convert", "map", "refresh"}

ASSUME BytesAssumption == NoFile \notin Bytes /\ None \notin Bytes
ASSUME NoneAssumption == /\ None \notin Date \cup Entry
                         /\ None \notin Marker \cup Row
ASSUME NoRevisionAssumption == None \notin [source : Bytes, twin : BOOLEAN]
ASSUME SitesAssumption == Sites \subseteq SUBSET {"toc", "http"}
ASSUME BoundsAssumption == /\ MaxRemote \in Nat \ {0}
                           /\ MaxFaults \in Nat /\ MaxEdits \in Nat

VARIABLES
    \* The site.
    site,        \* the dates it gives
    remote,      \* the revisions it has published, oldest first
    \* On disk.
    manifest,    \* the topic's entry in .a2l/manifest.json
    row,         \* its row of _meta/content_map.json
    dest,        \* the materialized file
    part,        \* its downloaded sibling .part
    marker,      \* the pending-install marker beside the part
    history,     \* the revisions under .a2l/history/<key>
    \* In the memory of the running command.
    pc,          \* where it is
    job,         \* "sync" or "fetch"
    conditional, \* does the request carry the entry's date?
    got,         \* the date of the response
    after,       \* where to go when the marker is cleared
    served,      \* has _ingest_one_topic returned?
    \* Observed only.
    asked,       \* how many revisions were published when the sync began
    edited,      \* is the present file the student's?
    captured,    \* sources once recorded, not discarded by the student
    faults, edits

world == <<site, remote>>
store == <<manifest, dest, part, marker, history>>
volatile == <<job, conditional, got, after, served>>
observed == <<asked, edited, captured>>
bounds == <<faults, edits>>
vars == <<world, store, row, pc, volatile, observed, bounds>>

Goto(label) == pc' = label

Published == 1 .. Len(remote)
Latest == remote[Len(remote)]

\* What the table of contents, and a response, say of the present revision.
Dated(form) == IF form \in site THEN [form |-> form, at |-> Len(remote)]
               ELSE None

Recorded == IF manifest = None THEN NoFile ELSE manifest.sha

\* index._entry_bytes_are_current and ingest._source_bytes_match.
Matching == manifest # None /\ dest = manifest.sha
-----------------------------------------------------------------------------
Init ==
    /\ site \in Sites
    /\ remote \in {<<b>> : b \in Bytes}
    /\ manifest = None
    /\ row = None
    /\ dest = NoFile
    /\ part = NoFile
    /\ marker = None
    /\ history = {}
    /\ pc = "idle"
    /\ job = "sync"
    /\ conditional = FALSE
    /\ got = None
    /\ after = "convert"
    /\ served = FALSE
    /\ asked = 1
    /\ edited = FALSE
    /\ captured = {}
    /\ faults = 0
    /\ edits = 0

\* The command is over: its memory is gone.
Return ==
    /\ pc' = "idle"
    /\ job' = "sync"
    /\ conditional' = FALSE
    /\ got' = None
    /\ after' = "convert"
    /\ served' = FALSE
    /\ asked' = 1
-----------------------------------------------------------------------------
(* The content map *)

\* Mutant of RowMatches: an undated row does not match.
RowMatchesDated(r) == r.date # None /\ manifest.date = r.date

\* Does the entry represent the revision the row describes?
RowMatches(r) == r.date = None \/ manifest.date = r.date

\* index.reconcile_content_map: a row is resolved from the manifest and the
\* bytes alone, except for the gaps it must not forget.
Reconciled(r) ==
    [r EXCEPT !.availability =
        IF manifest = None
        THEN IF @ = "download_gap" THEN @ ELSE "metadata_only"
        ELSE IF @ = "download_gap" /\ ~RowMatches(r) THEN @
        ELSE IF ~Matching THEN "integrity_gap"
        ELSE IF manifest.derived /\ @ # "conversion_gap" THEN "markdown_ready"
        ELSE IF @ \in {"conversion_gap", "integrity_gap"} THEN @
        ELSE "source_only"]

\* convert._update_content_map: neither success nor failure of a conversion
\* clears a download gap that reconciliation upholds.
Updated(r, availability) ==
    IF /\ r.availability = "download_gap"
       /\ Reconciled(r).availability = "download_gap"
    THEN r
    ELSE Reconciled([r EXCEPT !.availability = availability])
-----------------------------------------------------------------------------
(* The two commands *)

\* ingest_metadata lists the topic and reconciles its row.
Metadata ==
    /\ pc = "idle"
    /\ row' = Reconciled([date |-> Dated("toc"),
                          availability |-> IF row = None THEN "metadata_only"
                                           ELSE row.availability])
    /\ asked' = Len(remote)
    /\ Goto("files")
    /\ UNCHANGED <<world, store, volatile, edited, captured, bounds>>

\* An incomplete listing keeps the row and skips files and conversion.
MetadataIncomplete ==
    /\ pc = "idle"
    /\ row # None
    /\ row' = Reconciled(row)
    /\ UNCHANGED <<world, store, pc, volatile, observed, bounds>>

\* ingest_files ingests the topic, leaves it out of a priority scope, or
\* refuses it (media, broken, oversized).
Begin ==
    /\ pc = "files"
    /\ Goto("find")
    /\ UNCHANGED <<world, store, row, volatile, observed, bounds>>

Defer ==
    /\ pc = "files"
    /\ Goto("convert")
    /\ UNCHANGED <<world, store, row, volatile, observed, bounds>>

Refuse ==
    /\ pc = "files"
    /\ row' = [row EXCEPT !.availability = "metadata_only"]
    /\ Goto("convert")
    /\ UNCHANGED <<world, store, volatile, observed, bounds>>

\* fetch_topic trusts the row of the last sync.
Fetch ==
    /\ pc = "idle"
    /\ row # None
    /\ job' = "fetch"
    /\ Goto("find")
    /\ UNCHANGED <<world, store, row, conditional, got, after, served,
                   observed, bounds>>
-----------------------------------------------------------------------------
(* A pending install left by an earlier run *)

\* Mutant of MatchesTopic: a part no date vouches for is replayed.
MatchesTopicOrUndated(date) == row.date = None \/ date = row.date

\* _pending_matches_topic: without a date nothing shows the part is current.
MatchesTopic(date) == row.date # None /\ date = row.date

InstalledMatches ==
    marker.preserved /\ part = NoFile /\ dest = marker.sha

\* Mutant of PartMatches: the part is not hashed again.
PartMatchesUnhashed == MatchesTopic(marker.date) /\ part # NoFile

PartMatches == MatchesTopic(marker.date) /\ part = marker.sha

\* _find_pending_install
FindNothing ==
    /\ pc = "find"
    /\ marker = None
    /\ Goto("check")
    /\ UNCHANGED <<world, store, row, volatile, observed, bounds>>

FindPending ==
    /\ pc = "find"
    /\ marker # None
    /\ InstalledMatches \/ PartMatches
    /\ Goto("retry")
    /\ UNCHANGED <<world, store, row, volatile, observed, bounds>>

Discard ==
    /\ after' = "check"
    /\ Goto("clear")
    /\ UNCHANGED <<world, store, row, job, conditional, got, served, observed,
                   bounds>>

FindStale ==
    /\ pc = "find"
    /\ marker # None
    /\ ~InstalledMatches
    /\ ~PartMatches
    /\ Discard

\* Mutant of PriorAgrees: the same bytes fetched again are taken for stale.
PriorAgreesStrictly ==
    Recorded = IF marker.prior = None THEN NoFile ELSE marker.prior

\* The marker was written against the entry the manifest still holds.
PriorAgrees ==
    Recorded \in IF marker.prior = None THEN {NoFile, marker.sha}
                ELSE {marker.prior}

Committed == InstalledMatches /\ Recorded = marker.sha

\* _retry_pending_install
RetryCommitted ==
    /\ pc = "retry"
    /\ Committed
    /\ row' = Reconciled(row)
    /\ after' = "check"
    /\ Goto("clear")
    /\ UNCHANGED <<world, store, job, conditional, got, served, observed,
                   bounds>>

RetryStale ==
    /\ pc = "retry"
    /\ ~Committed
    /\ ~PriorAgrees
    /\ Discard

RetryInstall ==
    /\ pc = "retry"
    /\ ~Committed
    /\ PriorAgrees
    /\ after' = IF InstalledMatches /\ ~MatchesTopic(marker.date)
                THEN "check" ELSE "convert"
    /\ Goto(IF marker.preserved THEN "install" ELSE "preserve")
    /\ UNCHANGED <<world, store, row, job, conditional, got, served, observed,
                   bounds>>
-----------------------------------------------------------------------------
(* A download *)

\* Mutant of Unchanged: only the dates are compared.
UnchangedByDate == manifest # None /\ MatchesTopic(manifest.date)

\* _unchanged_local
Unchanged == manifest # None /\ MatchesTopic(manifest.date) /\ Matching

CheckUnchanged ==
    /\ pc = "check"
    /\ Unchanged
    /\ row' = Reconciled(row)
    /\ served' = TRUE
    /\ Goto("convert")
    /\ UNCHANGED <<world, store, job, conditional, got, after, observed,
                   bounds>>

CheckChanged ==
    /\ pc = "check"
    /\ ~Unchanged
    /\ conditional' = Matching
    /\ Goto("download")
    /\ UNCHANGED <<world, store, row, job, got, after, served, observed,
                   bounds>>

\* The site answers 304 to a date of its own form that is still the latest.
NotModified ==
    /\ pc = "download"
    /\ conditional
    /\ manifest.date = Dated("http")
    /\ manifest.date # None
    /\ conditional' = FALSE
    /\ IF Matching
       THEN /\ row' = Reconciled(row)
            /\ served' = TRUE
            /\ Goto("convert")
       ELSE UNCHANGED <<row, served, pc>>
    /\ UNCHANGED <<world, store, job, got, after, observed, bounds>>

Serve ==
    /\ pc = "download"
    /\ conditional => manifest.date = None \/ manifest.date # Dated("http")
    /\ part' = Latest
    /\ got' = Dated("http")
    /\ conditional' = FALSE
    /\ Goto("downloaded")
    /\ UNCHANGED <<world, manifest, dest, marker, history, row, job, after,
                   served, observed, bounds>>

\* A failed download is a gap to a sync and the end of a fetch; so is a file
\* over the ceiling, which a sync records as metadata_only.
DownloadFails ==
    /\ pc = "download"
    /\ faults < MaxFaults
    /\ faults' = faults + 1
    /\ IF job = "fetch"
       THEN Return /\ UNCHANGED row
       ELSE /\ row' \in {[row EXCEPT !.availability = a] :
                            a \in {"download_gap", "metadata_only"}}
            /\ conditional' = FALSE
            /\ Goto("convert")
            /\ UNCHANGED <<job, got, after, served, asked>>
    /\ UNCHANGED <<world, store, edited, captured, edits>>

FirstDate(a, b, c) == IF a # None THEN a ELSE IF b # None THEN b ELSE c

\* Mutant of WriteMarker: the replaced revision is taken for preserved.
WriteMarkerPreserved ==
    /\ pc = "downloaded"
    /\ marker' = [sha |-> part,
                  date |-> FirstDate(got, row.date, None),
                  prior |-> None,
                  preserved |-> TRUE]
    /\ got' = None
    /\ Goto("install")
    /\ UNCHANGED <<world, manifest, dest, part, history, row, job, conditional,
                   after, served, observed, bounds>>

WriteMarker ==
    /\ pc = "downloaded"
    /\ LET replaces == manifest # None /\ manifest.sha # part IN
       /\ marker' = [sha |-> part,
                     date |-> FirstDate(got, row.date,
                                        IF manifest = None THEN None
                                        ELSE manifest.date),
                     prior |-> IF replaces THEN manifest.sha ELSE None,
                     preserved |-> ~replaces]
       /\ Goto(IF replaces THEN "preserve" ELSE "install")
    /\ got' = None
    /\ UNCHANGED <<world, manifest, dest, part, history, row, job, conditional,
                   after, served, observed, bounds>>
-----------------------------------------------------------------------------
(* The install, common to a download and to a retried part *)

\* Mutant of Preserve: no copy is made.
PreserveNothing ==
    /\ pc = "preserve"
    /\ Goto("certify")
    /\ UNCHANGED <<world, store, row, volatile, observed, bounds>>

\* preserve_revision copies the recorded bytes; a file that is gone is
\* tolerated; any other content raises, which ends the command.
Preserve ==
    /\ pc = "preserve"
    /\ IF Matching
       THEN history' = history \cup {dest} /\ Goto("certify")
                /\ UNCHANGED <<volatile, asked>>
       ELSE /\ UNCHANGED history
            /\ IF dest = NoFile
               THEN Goto("certify") /\ UNCHANGED <<volatile, asked>>
               ELSE Return
    /\ UNCHANGED <<world, manifest, dest, part, marker, row, edited, captured,
                   bounds>>

Certify ==
    /\ pc = "certify"
    /\ marker' = [marker EXCEPT !.preserved = TRUE]
    /\ Goto("install")
    /\ UNCHANGED <<world, manifest, dest, part, history, row, volatile,
                   observed, bounds>>

\* A part that is gone was installed before a crash.
Install ==
    /\ pc = "install"
    /\ IF part # NoFile
       THEN dest' = part /\ part' = NoFile /\ edited' = FALSE
       ELSE UNCHANGED <<dest, part, edited>>
    /\ Goto("commit")
    /\ UNCHANGED <<world, manifest, marker, history, row, volatile, asked,
                   captured, bounds>>

\* Mutant of Commit: the entry takes the date the topic has now.
CommitWithTopicDate ==
    /\ pc = "commit"
    /\ manifest' = [sha |-> marker.sha, date |-> row.date, derived |-> FALSE]
    /\ captured' = captured \cup ({marker.sha} \cap {dest})
    /\ Goto("row")
    /\ UNCHANGED <<world, dest, part, marker, history, row, volatile, asked,
                   edited, bounds>>

\* The twin stays recorded if the bytes are the same.
Commit ==
    /\ pc = "commit"
    /\ manifest' = [sha |-> marker.sha, date |-> marker.date,
                    derived |-> /\ Recorded = marker.sha
                                /\ manifest.derived]
    /\ captured' = captured \cup ({marker.sha} \cap {dest})
    /\ Goto("row")
    /\ UNCHANGED <<world, dest, part, marker, history, row, volatile, asked,
                   edited, bounds>>

\* _mark_topic_source_only: an HTML topic would also lose its download gap.
MarkRow ==
    /\ pc = "row"
    /\ row' = Reconciled(row)
    /\ Goto("clear")
    /\ UNCHANGED <<world, store, volatile, observed, bounds>>

\* _remove_pending_paths: the marker goes first.
Clear ==
    /\ pc = "clear"
    /\ marker' = None
    /\ Goto("sweep")
    /\ UNCHANGED <<world, manifest, dest, part, history, row, volatile,
                   observed, bounds>>

Sweep ==
    /\ pc = "sweep"
    /\ part' = NoFile
    /\ served' = (after = "convert")
    /\ after' = "convert"
    /\ Goto(after)
    /\ UNCHANGED <<world, manifest, dest, marker, history, row, job,
                   conditional, got, observed, bounds>>
-----------------------------------------------------------------------------
(* Conversion and the final reconciliation *)

LeaveConversion ==
    IF job = "sync" THEN Goto("refresh") /\ UNCHANGED <<volatile, asked>>
    ELSE Return

\* The source is missing, modified or unconvertible: the row says so.
ConvertFails ==
    /\ pc = "convert"
    /\ \/ manifest = None /\ UNCHANGED row
       \/ manifest # None /\ ~Matching /\ row' = Updated(row, "integrity_gap")
       \/ Matching /\ ~manifest.derived /\ row' = Updated(row, "conversion_gap")
    /\ LeaveConversion
    /\ UNCHANGED <<world, store, edited, captured, bounds>>

ConvertTwin ==
    /\ pc = "convert"
    /\ Matching
    /\ manifest' = [manifest EXCEPT !.derived = TRUE]
    /\ Goto("map")
    /\ UNCHANGED <<world, dest, part, marker, history, row, volatile, observed,
                   bounds>>

MapReady ==
    /\ pc = "map"
    /\ row' = Updated(row, "markdown_ready")
    /\ LeaveConversion
    /\ UNCHANGED <<world, store, edited, captured, bounds>>

\* pipeline.refresh_indexes
Refresh ==
    /\ pc = "refresh"
    /\ row' = Reconciled(row)
    /\ Return
    /\ UNCHANGED <<world, store, edited, captured, bounds>>
-----------------------------------------------------------------------------
(* The site, the student and the faults *)

Publish(b) ==
    /\ Len(remote) < MaxRemote
    /\ b # Latest
    /\ remote' = Append(remote, b)
    /\ UNCHANGED <<site, store, row, pc, volatile, observed, bounds>>

DropUnmarked == part' = IF marker = None THEN NoFile ELSE part

\* The process is killed, or an exception nobody handles ends it.
Crash ==
    /\ pc # "idle"
    /\ faults < MaxFaults
    /\ faults' = faults + 1
    /\ DropUnmarked
    /\ Return
    /\ UNCHANGED <<world, manifest, dest, marker, history, row, edited,
                   captured, edits>>

\* Ctrl-C, or a full disk, ends the file phase of a sync but not the sync.
Interrupt ==
    /\ pc \in {"find", "retry", "check", "download", "downloaded", "preserve",
               "certify", "install", "commit", "row", "clear", "sweep"}
    /\ job = "sync"
    /\ faults < MaxFaults
    /\ faults' = faults + 1
    /\ DropUnmarked
    /\ conditional' = FALSE
    /\ got' = None
    /\ after' = "convert"
    /\ served' = FALSE
    /\ Goto("convert")
    /\ UNCHANGED <<world, manifest, dest, marker, history, row, job, observed,
                   edits>>

\* The student changes or deletes a file the manifest records.
Edit(c) ==
    /\ edits < MaxEdits
    /\ edits' = edits + 1
    /\ manifest # None
    /\ c # dest
    /\ dest' = c
    /\ edited' = TRUE
    /\ captured' = captured \ ({dest} \ history)
    /\ UNCHANGED <<world, manifest, part, marker, history, row, pc, volatile,
                   asked, faults>>

\* A part waiting for the next run is damaged.
Damage(c) ==
    /\ pc = "idle"
    /\ edits < MaxEdits
    /\ edits' = edits + 1
    /\ part # NoFile
    /\ part' = c
    /\ UNCHANGED <<world, manifest, dest, marker, history, row, pc, volatile,
                   observed, faults>>
-----------------------------------------------------------------------------
Pending == \/ FindNothing \/ FindPending \/ FindStale
           \/ RetryCommitted \/ RetryStale \/ RetryInstall

Download == CheckUnchanged \/ CheckChanged \/ NotModified \/ Serve

InstallPart == \/ WriteMarker \/ Preserve \/ Certify \/ Install \/ Commit
               \/ MarkRow \/ Clear \/ Sweep

Convert == ConvertFails \/ ConvertTwin \/ MapReady \/ Refresh

Program == Pending \/ Download \/ InstallPart \/ Convert

Command == Metadata \/ MetadataIncomplete \/ Begin \/ Defer \/ Refuse \/ Fetch

Environment == \/ \E b \in Bytes : Publish(b)
               \/ DownloadFails \/ Crash \/ Interrupt
               \/ \E c \in LocalEdits : Edit(c) \/ Damage(c)

Next == Program \/ Command \/ Environment

Spec == Init /\ [][Next]_vars

\* A command's own steps are not stopped half-way, the student keeps syncing,
\* and a sync that can take the topic takes it again and again.
Fairness == WF_vars(Program) /\ SF_vars(Metadata) /\ SF_vars(Begin)

FairSpec == Spec /\ Fairness
-----------------------------------------------------------------------------
(* What the marker is for *)

\* The disk, the command and the ghosts hold what the code can put there; an
\* archived revision is always one the site served.
TypeOK ==
    /\ site \in Sites
    /\ remote \in Seq(Bytes) /\ Len(remote) \in 1 .. MaxRemote
    /\ manifest \in Entry \cup {None}
    /\ row \in Row \cup {None}
    /\ dest \in Bytes \cup LocalEdits \cup {NoFile}
    /\ part \in Bytes \cup LocalEdits \cup {NoFile}
    /\ marker \in Marker \cup {None}
    /\ history \subseteq Bytes
    /\ pc \in PCs
    /\ job \in {"sync", "fetch"}
    /\ conditional \in BOOLEAN
    /\ got \in Date \cup {None}
    /\ after \in {"check", "convert"}
    /\ served \in BOOLEAN
    /\ asked \in 1 .. MaxRemote
    /\ edited \in BOOLEAN
    /\ captured \subseteq Bytes
    /\ faults \in 0 .. MaxFaults
    /\ edits \in 0 .. MaxEdits

\* "A sync never silently destroys a captured revision" (design document,
\* lines 968-969): a source the manifest recorded, and the student has not
\* overwritten, is in place or in the history, whatever was interrupted.
CapturedSurvives == captured \subseteq history \cup {dest}

\* The bytes at the destination are the student's, the manifest's or those of
\* the marker: a part that is incomplete or damaged is never installed, and no
\* crash leaves bytes the next run would not recognise.
SourceAccounted ==
    \/ edited
    \/ dest = Recorded
    \/ marker # None /\ dest = marker.sha

\* The bytes sha are those of the revision the date names, or newer ones that
\* were published after the table of contents had been read.
DateIsHonest(sha, date) ==
    date # None =>
        \E n \in IF date.form = "http" THEN {date.at} ELSE Published :
            n >= date.at /\ remote[n] = sha

\* No date claims more than the bytes beside it: a date that equals the
\* topic's may be answered without a download, and a date in a request may be
\* answered by a 304, and neither leaves an older revision in place.
DatesAreHonest ==
    /\ manifest # None => DateIsHonest(manifest.sha, manifest.date)
    /\ marker # None => DateIsHonest(marker.sha, marker.date)

\* A sync whose file phase reported "downloaded" or "skipped" leaves a source
\* at least as new as the listing it began with, whichever of the five ways
\* (resumed, already installed, unchanged, 304, downloaded) it took.
SyncIsCurrent ==
    pc \in {"convert", "map", "refresh"} /\ job = "sync" /\ served =>
        \/ edited
        \/ /\ Matching
           /\ \E n \in Published : n >= asked /\ remote[n] = dest

\* "the validated .part is retained for the next sync to retry without
\* re-downloading it" (design document, lines 972-973): a marker whose part is
\* intact and whose date is still the topic's is never thrown away.
RetainsDownload ==
    [][marker # None /\ marker' = None /\ part = marker.sha =>
        ~MatchesTopic(marker.date)]_vars

Current == Matching /\ manifest.sha = Latest

\* When the site and the faults come to rest, repeated syncs bring the file to
\* the latest revision, unless the student has left a changed file there.
Converges == <>[](Current \/ (edited /\ dest # NoFile))

Gap == row # None /\ row.availability = "download_gap"

\* "The gap survives a metadata refresh and a later successful download clears
\* it" (tests/test_ingest.py, line 1168).  It does on a site that dates either
\* the listing or the responses, not both, as long as the student leaves the
\* file alone: on the others the gap stays, because reconcile_content_map
\* compares dates of two formats.
GapsHealUnlessMixed == Gap ~> ~Gap \/ site = {"toc", "http"} \/ edited

\* The manifest is the acceptance; the marker is the proposal, once the
\* revision it replaces is preserved.
Accepted == IF manifest = None THEN None
            ELSE [source |-> manifest.sha, twin |-> manifest.derived]

Proposed == IF marker # None /\ marker.preserved /\ Recorded # marker.sha
            THEN marker.sha
            ELSE None

Promise == INSTANCE RevisionArchive WITH
    Sources <- Bytes,
    Twins <- BOOLEAN,
    accepted <- Accepted,
    proposed <- Proposed,
    archive <- history,
    held <- captured

\* Every step of the install is a step of the promise of RevisionArchive, or
\* changes nothing the promise is about.
ImplementsArchive == Promise!ASpec
=============================================================================
