------------------------ MODULE SourceInstallProofs ------------------------
(***************************************************************************)
(* Proofs about SourceInstall, for any contents, any sites and any number  *)
(* of revisions, failures and edits.                                       *)
(***************************************************************************)
EXTENDS SourceInstall, TLAPS

\* What each place of the command has established.
Phases ==
    /\ pc # "idle" => row # None
    /\ pc \in {"check", "download", "downloaded", "sweep"} => marker = None
    /\ pc = "downloaded" => part \in Bytes
    /\ pc \in {"retry", "preserve", "certify", "install", "commit", "row",
               "clear"} => marker # None
    /\ pc = "retry" =>
            part = marker.sha \/ (marker.preserved /\ part = NoFile)
    /\ pc \in {"preserve", "certify"} => part = marker.sha
    /\ pc = "install" => part \in {NoFile, marker.sha}
    /\ pc \in {"install", "commit", "row"} => marker.preserved
    /\ pc \in {"commit", "row"} => part = NoFile
    /\ pc = "row" => Recorded = marker.sha

\* Type correctness in two parts: what is counted, and the rest.
Counted ==
    /\ remote \in Seq(Bytes) /\ Len(remote) \in 1 .. MaxRemote
    /\ asked \in 1 .. MaxRemote
    /\ faults \in 0 .. MaxFaults
    /\ edits \in 0 .. MaxEdits

Typed ==
    /\ site \in Sites
    /\ manifest \in Entry \cup {None}
    /\ row \in Row \cup {None}
    /\ dest \in Bytes \cup LocalEdits \cup {NoFile}
    /\ part \in Bytes \cup LocalEdits \cup {NoFile}
    /\ marker \in Marker \cup {None}
    /\ history \subseteq Bytes
    /\ pc \in PCs
    /\ job \in {"sync", "fetch"}
    /\ conditional \in BOOLEAN
    /\ got \in Date \cup {None}
    /\ after \in {"check", "convert"}
    /\ served \in BOOLEAN
    /\ edited \in BOOLEAN
    /\ captured \subseteq Bytes

LEMMA TypeParts == TypeOK <=> Typed /\ Counted
  BY DEF TypeOK, Typed, Counted
-----------------------------------------------------------------------------
(* Type correctness *)

LEMMA ReconciledTyped ==
    ASSUME NEW r \in Row
    PROVE  Reconciled(r) \in Row /\ Reconciled(r).date = r.date
<1>1. ASSUME NEW a \in Availability
      PROVE  /\ [r EXCEPT !.availability = a] \in Row
             /\ [r EXCEPT !.availability = a].date = r.date
  BY DEF Row
<1>2. r.availability \in Availability
  BY DEF Row
<1>3. PICK a \in Availability : Reconciled(r) = [r EXCEPT !.availability = a]
  BY <1>2 DEF Reconciled, Availability
<1>4. QED
  BY <1>1, <1>3

LEMMA UpdatedTyped ==
    ASSUME NEW r \in Row, NEW a \in Availability
    PROVE  Updated(r, a) \in Row
<1>1. [r EXCEPT !.availability = a] \in Row
  BY DEF Row
<1>2. QED
  BY <1>1, ReconciledTyped DEF Updated

LEMMA SiteTyped ==
    ASSUME Counted
    PROVE  /\ Latest \in Bytes
           /\ \A form \in {"toc", "http"} : Dated(form) \in Date \cup {None}
  BY BoundsAssumption DEF Counted, Latest, Dated, Date

LEMMA CountedNext ==
    ASSUME Counted, [Next]_vars
    PROVE  Counted'
<1> USE DEF Counted
<1>1. CASE Metadata
  BY <1>1 DEF Metadata, world, bounds
<1>2. ASSUME NEW b \in Bytes, Publish(b)
      PROVE  Counted'
  <2>1. /\ Len(remote) < MaxRemote /\ remote' = Append(remote, b)
        /\ UNCHANGED <<asked, faults, edits>>
    BY <1>2 DEF Publish, observed, bounds
  <2>2. remote' \in Seq(Bytes) /\ Len(remote') = Len(remote) + 1
    BY <2>1
  <2>3. QED
    BY <2>1, <2>2, BoundsAssumption
<1>3. CASE DownloadFails \/ Crash \/ Interrupt
  <2>1. /\ remote' = remote /\ asked' \in {asked, 1}
        /\ faults < MaxFaults /\ faults' = faults + 1 /\ edits' = edits
    BY <1>3 DEF DownloadFails, Crash, Interrupt, Return, world, observed
  <2>2. QED
    BY <2>1, BoundsAssumption
<1>4. ASSUME NEW c \in LocalEdits, Edit(c) \/ Damage(c)
      PROVE  Counted'
  <2>1. /\ UNCHANGED <<remote, asked, faults>>
        /\ edits < MaxEdits /\ edits' = edits + 1
    BY <1>4 DEF Edit, Damage, world, observed
  <2>2. QED
    BY <2>1, BoundsAssumption
<1>5. CASE /\ remote' = remote /\ asked' \in {asked, 1}
           /\ UNCHANGED bounds
  BY <1>5, BoundsAssumption DEF bounds
<1>6. CASE Pending \/ Download \/ InstallPart
  <2>1. UNCHANGED <<remote, bounds>> /\ asked' \in {asked, 1}
    <3>1. CASE Pending
      BY <3>1 DEF Pending, FindNothing, FindPending, FindStale, Discard,
         RetryCommitted, RetryStale, RetryInstall, world, observed
    <3>2. CASE Download
      BY <3>2 DEF Download, CheckUnchanged, CheckChanged, NotModified, Serve,
         world, observed
    <3>3. CASE InstallPart
      BY <3>3 DEF InstallPart, WriteMarker, Preserve, Certify, Install,
         Commit, MarkRow, Clear, Sweep, Return, world, observed
    <3>4. QED
      BY <1>6, <3>1, <3>2, <3>3
  <2>2. QED
    BY <1>5, <2>1
<1>7. CASE Convert
  <2>1. UNCHANGED <<remote, bounds>> /\ asked' \in {asked, 1}
    BY <1>7 DEF Convert, ConvertFails, ConvertTwin, MapReady, Refresh,
       LeaveConversion, Return, world, observed
  <2>2. QED
    BY <1>5, <2>1
<1>8. CASE Command /\ ~Metadata
  <2>1. UNCHANGED <<remote, bounds, asked>>
    BY <1>8 DEF Command, MetadataIncomplete, Begin, Defer, Refuse, Fetch,
       world, observed
  <2>2. QED
    BY <1>5, <2>1
<1>9. CASE UNCHANGED vars
  BY <1>5, <1>9 DEF vars, world, observed
<1>10. QED
  BY <1>1, <1>2, <1>3, <1>4, <1>6, <1>7, <1>8, <1>9
     DEF Next, Program, Command, Environment

LEMMA TypedNext ==
    ASSUME Typed, Counted, Phases, [Next]_vars
    PROVE  Typed'
<1>1. CASE FindNothing \/ FindPending
  BY <1>1 DEF FindNothing, FindPending, Goto, world, store, volatile,
       observed, InstalledMatches, PartMatches, Typed, PCs
<1>2. CASE FindStale \/ RetryStale
  BY <1>2 DEF FindStale, RetryStale, Discard, Goto, world, store, observed,
       Typed, PCs
<1>3. CASE RetryInstall
  BY <1>3 DEF RetryInstall, Goto, world, store, observed, Typed, PCs
<1>4. CASE RetryCommitted
  <2>1. row \in Row /\ Reconciled(row) \in Row
    BY <1>4, ReconciledTyped DEF RetryCommitted, Typed, Phases
  <2>2. QED
    BY <1>4, <2>1 DEF RetryCommitted, Goto, world, store, observed, Typed,
         PCs
<1>5. CASE CheckUnchanged
  <2>1. row \in Row /\ Reconciled(row) \in Row
    BY <1>5, ReconciledTyped DEF CheckUnchanged, Typed, Phases
  <2>2. QED
    BY <1>5, <2>1 DEF CheckUnchanged, Goto, world, store, observed, Typed,
         PCs
<1>6. CASE CheckChanged \/ Begin \/ Defer
  BY <1>6 DEF CheckChanged, Begin, Defer, Goto, world, store, observed,
       volatile, Matching, Typed, PCs
<1>7. CASE NotModified
  <2>1. row \in Row /\ Reconciled(row) \in Row
    BY <1>7, ReconciledTyped DEF NotModified, Typed, Phases
  <2>2. QED
    BY <1>7, <2>1 DEF NotModified, Goto, world, store, observed, Typed, PCs
<1>8. CASE Serve
  <2>1. Latest \in Bytes /\ Dated("http") \in Date \cup {None}
    BY SiteTyped
  <2>2. QED
    BY <1>8, <2>1 DEF Serve, Goto, world, observed, Typed, PCs
<1>9. CASE WriteMarker
  <2>1. marker' \in Marker
    BY <1>9 DEF WriteMarker, FirstDate, Typed, Phases, Marker, Entry, Row
  <2>2. QED
    BY <1>9, <2>1 DEF WriteMarker, FirstDate, Goto, world, observed, Typed,
         PCs
<1>10. CASE Preserve
  <2>1. history' \subseteq Bytes
    BY <1>10, NoneAssumption DEF Preserve, Matching, Typed, Entry
  <2>2. Return \/ (Goto("certify") /\ UNCHANGED <<volatile, asked>>)
    BY <1>10 DEF Preserve
  <2>3. UNCHANGED <<world, manifest, dest, part, marker, row, edited,
                    captured>>
    BY <1>10 DEF Preserve
  <2>4. CASE Return
    BY <2>1, <2>3, <2>4 DEF Return, world, Typed, PCs
  <2>5. CASE Goto("certify") /\ UNCHANGED <<volatile, asked>>
    BY <2>1, <2>3, <2>5 DEF Goto, world, volatile, Typed, PCs
  <2>6. QED
    BY <2>2, <2>4, <2>5
<1>11. CASE Certify
  <2>1. marker' \in Marker
    BY <1>11 DEF Certify, Typed, Phases, Marker
  <2>2. QED
    BY <1>11, <2>1 DEF Certify, Goto, world, volatile, observed, Typed, PCs
<1>12. CASE Install \/ Clear
  BY <1>12 DEF Install, Clear, Goto, world, volatile, observed, Typed, PCs
<1>13. CASE Sweep
  BY <1>13 DEF Sweep, Goto, world, observed, Typed, PCs
<1>14. CASE Commit
  BY <1>14, BytesAssumption DEF Commit, Goto, world, volatile, Typed, PCs,
       Phases, Marker, Entry, Recorded
<1>15. CASE MarkRow
  <2>1. row \in Row /\ Reconciled(row) \in Row
    BY <1>15, ReconciledTyped DEF MarkRow, Typed, Phases
  <2>2. QED
    BY <1>15, <2>1 DEF MarkRow, Goto, world, store, volatile, observed,
         Typed, PCs
<1>16. CASE ConvertFails
  <2>1. \A a \in Availability : Updated(row, a) \in Row
    BY <1>16, UpdatedTyped DEF ConvertFails, Typed, Phases
  <2>2. row' \in Row
    BY <1>16, <2>1 DEF ConvertFails, Typed, Phases, Availability
  <2>3. QED
    BY <1>16, <2>1, <2>2 DEF ConvertFails, LeaveConversion, Return, Goto,
         world, store, volatile, Matching, Typed, PCs
<1>17. CASE ConvertTwin
  BY <1>17 DEF ConvertTwin, Goto, world, volatile, observed, Matching, Typed,
       PCs, Entry
<1>18. CASE MapReady
  <2>1. row' \in Row
    BY <1>18, UpdatedTyped DEF MapReady, Typed, Phases, Availability
  <2>2. QED
    BY <1>18, <2>1 DEF MapReady, LeaveConversion, Return, Goto, world, store,
         volatile, Typed, PCs
<1>19. CASE Refresh
  <2>1. row \in Row /\ Reconciled(row) \in Row
    BY <1>19, ReconciledTyped DEF Refresh, Typed, Phases
  <2>2. QED
    BY <1>19, <2>1 DEF Refresh, Return, world, store, Typed, PCs
<1>20. CASE Metadata
  <2>1. \A a \in Availability :
            Reconciled([date |-> Dated("toc"), availability |-> a]) \in Row
    BY SiteTyped, ReconciledTyped DEF Row
  <2>2. row' \in Row
    BY <1>20, <2>1 DEF Metadata, Typed, Row, Availability
  <2>3. QED
    BY <1>20, <2>1, <2>2 DEF Metadata, Goto, world, store, volatile, Typed,
         PCs
<1>21. CASE MetadataIncomplete
  <2>1. row \in Row /\ Reconciled(row) \in Row
    BY <1>21, ReconciledTyped DEF MetadataIncomplete, Typed, Phases
  <2>2. QED
    BY <1>21, <2>1 DEF MetadataIncomplete, world, store, volatile, observed,
         Typed, PCs
<1>22. CASE Refuse
  BY <1>22 DEF Refuse, Goto, world, store, volatile, observed, Typed, PCs,
       Phases, Row, Availability
<1>23. CASE Fetch
  BY <1>23 DEF Fetch, Goto, world, store, observed, Typed, PCs
<1>24. CASE DownloadFails
  <2>1. row' \in Row
    BY <1>24 DEF DownloadFails, Typed, Phases, Row, Availability
  <2>2. QED
    BY <1>24, <2>1 DEF DownloadFails, Return, Goto, world, store, Typed, PCs
<1>25. CASE Crash \/ Interrupt
  BY <1>25 DEF Crash, Interrupt, Return, DropUnmarked, world, Goto, observed,
       Typed, PCs
<1>26. ASSUME NEW b \in Bytes, Publish(b)
      PROVE  Typed'
  BY <1>26 DEF Publish, store, volatile, observed, Typed, PCs
<1>27. ASSUME NEW c \in LocalEdits, Edit(c) \/ Damage(c)
      PROVE  Typed'
  BY <1>27 DEF Edit, Damage, world, volatile, observed, Typed, PCs
<1>28. CASE UNCHANGED vars
  BY <1>28 DEF vars, world, store, volatile, observed, Typed
<1>29. QED
  BY <1>1, <1>2, <1>3, <1>4, <1>5, <1>6, <1>7, <1>8, <1>9, <1>10, <1>11,
       <1>12, <1>13, <1>14, <1>15, <1>16, <1>17, <1>18, <1>19, <1>20, <1>21,
       <1>22, <1>23, <1>24, <1>25, <1>26, <1>27, <1>28
     DEF Next, Program, Pending, Download, InstallPart, Convert, Command,
         Environment

LEMMA PhasesNext ==
    ASSUME Typed, Counted, Phases, [Next]_vars
    PROVE  Phases'
<1>1. CASE FindNothing \/ FindPending
  BY <1>1, BytesAssumption, NoneAssumption DEF FindNothing, FindPending,
       Goto, store, InstalledMatches, PartMatches, Typed, Phases, Recorded
<1>2. CASE FindStale \/ RetryStale
  BY <1>2, BytesAssumption, NoneAssumption DEF FindStale, RetryStale,
       Discard, Goto, store, Typed, Phases, Recorded
<1>3. CASE RetryInstall
  BY <1>3, BytesAssumption, NoneAssumption DEF RetryInstall, Goto, store,
       Typed, Phases, Recorded
<1>4. CASE RetryCommitted
  <2>1. row \in Row /\ Reconciled(row) \in Row
    BY <1>4, ReconciledTyped DEF RetryCommitted, Typed, Phases
  <2>2. QED
    BY <1>4, <2>1, BytesAssumption, NoneAssumption DEF RetryCommitted, Goto,
         store, Typed, Phases, Recorded
<1>5. CASE CheckUnchanged
  <2>1. row \in Row /\ Reconciled(row) \in Row
    BY <1>5, ReconciledTyped DEF CheckUnchanged, Typed, Phases
  <2>2. QED
    BY <1>5, <2>1, BytesAssumption, NoneAssumption DEF CheckUnchanged, Goto,
         store, Typed, Phases, Recorded
<1>6. CASE CheckChanged \/ Begin \/ Defer
  BY <1>6, BytesAssumption, NoneAssumption DEF CheckChanged, Begin, Defer,
       Goto, store, Matching, Typed, Phases, Recorded
<1>7. CASE NotModified
  <2>1. row \in Row /\ Reconciled(row) \in Row
    BY <1>7, ReconciledTyped DEF NotModified, Typed, Phases
  <2>2. QED
    BY <1>7, <2>1, BytesAssumption, NoneAssumption DEF NotModified, Goto,
         store, Typed, Phases, Recorded
<1>8. CASE Serve
  <2>1. Latest \in Bytes
    BY SiteTyped
  <2>2. QED
    BY <1>8, <2>1, BytesAssumption, NoneAssumption DEF Serve, Goto, Typed,
         Phases, Recorded
<1>9. CASE WriteMarker
  <2>1. marker' \in Marker
    BY <1>9 DEF WriteMarker, FirstDate, Typed, Phases, Marker, Entry, Row
  <2>2. marker' # None /\ row # None
    BY <1>9, <2>1, NoneAssumption DEF WriteMarker, Phases
  <2>3. QED
    BY <1>9, <2>1, <2>2, BytesAssumption, NoneAssumption DEF WriteMarker,
         FirstDate, Goto, Typed, Phases, Recorded
<1>10. CASE Preserve
  BY <1>10, BytesAssumption, NoneAssumption DEF Preserve, Return, Goto,
       Matching, Typed, Phases, Recorded
<1>11. CASE Certify
  <2>1. /\ marker' \in Marker /\ marker' # None
         /\ marker'.sha = marker.sha /\ marker'.preserved
    BY <1>11, NoneAssumption DEF Certify, Typed, Phases, Marker
  <2>2. QED
    BY <1>11, <2>1, BytesAssumption, NoneAssumption DEF Certify, Goto, Typed,
         Phases, Recorded
<1>12. CASE Install \/ Clear
  BY <1>12, BytesAssumption, NoneAssumption DEF Install, Clear, Goto, Typed,
       Phases, Recorded
<1>13. CASE Sweep
  BY <1>13, BytesAssumption, NoneAssumption DEF Sweep, Goto, Typed, Phases,
       Recorded
<1>14. CASE Commit
  <2>1. manifest' \in Entry
    BY <1>14, BytesAssumption DEF Commit, Typed, Phases, Marker, Entry,
         Recorded
  <2>2. manifest' # None /\ manifest'.sha = marker.sha
    BY <1>14, <2>1, NoneAssumption DEF Commit
  <2>3. QED
    BY <1>14, <2>1, <2>2, BytesAssumption, NoneAssumption DEF Commit, Goto,
         Typed, Phases, Recorded
<1>15. CASE MarkRow
  <2>1. row \in Row /\ Reconciled(row) \in Row
    BY <1>15, ReconciledTyped DEF MarkRow, Typed, Phases
  <2>2. QED
    BY <1>15, <2>1, BytesAssumption, NoneAssumption DEF MarkRow, Goto, store,
         Typed, Phases, Recorded
<1>16. CASE ConvertFails
  <2>1. \A a \in Availability : Updated(row, a) \in Row
    BY <1>16, UpdatedTyped DEF ConvertFails, Typed, Phases
  <2>2. row' \in Row
    BY <1>16, <2>1 DEF ConvertFails, Typed, Phases, Availability
  <2>3. QED
    BY <1>16, <2>1, <2>2, BytesAssumption, NoneAssumption DEF ConvertFails,
         LeaveConversion, Return, Goto, store, Matching, Typed, Phases,
         Recorded
<1>17. CASE ConvertTwin
  BY <1>17, BytesAssumption, NoneAssumption DEF ConvertTwin, Goto, Matching,
       Typed, Phases, Recorded, Entry
<1>18. CASE MapReady
  <2>1. row' \in Row
    BY <1>18, UpdatedTyped DEF MapReady, Typed, Phases, Availability
  <2>2. QED
    BY <1>18, <2>1, BytesAssumption, NoneAssumption DEF MapReady,
         LeaveConversion, Return, Goto, store, Typed, Phases, Recorded
<1>19. CASE Refresh
  BY <1>19, BytesAssumption, NoneAssumption DEF Refresh, Return, store,
       Typed, Phases, Recorded
<1>20. CASE Metadata
  <2>1. \A a \in Availability :
            Reconciled([date |-> Dated("toc"), availability |-> a]) \in Row
    BY SiteTyped, ReconciledTyped DEF Row
  <2>2. row' \in Row
    BY <1>20, <2>1 DEF Metadata, Typed, Row, Availability
  <2>3. QED
    BY <1>20, <2>1, <2>2, BytesAssumption, NoneAssumption DEF Metadata, Goto,
         store, Typed, Phases, Recorded
<1>21. CASE MetadataIncomplete
  BY <1>21, BytesAssumption, NoneAssumption DEF MetadataIncomplete, store,
       Typed, Phases, Recorded
<1>22. CASE Refuse
  <2>1. row' \in Row
    BY <1>22 DEF Refuse, Typed, Phases, Row, Availability
  <2>2. QED
    BY <1>22, <2>1, BytesAssumption, NoneAssumption DEF Refuse, Goto, store,
         Typed, Phases, Recorded
<1>23. CASE Fetch
  BY <1>23, BytesAssumption, NoneAssumption DEF Fetch, Goto, store, Typed,
       Phases, Recorded
<1>24. CASE DownloadFails
  <2>1. row' \in Row
    BY <1>24 DEF DownloadFails, Typed, Phases, Row, Availability
  <2>2. QED
    BY <1>24, <2>1, BytesAssumption, NoneAssumption DEF DownloadFails,
         Return, Goto, store, Typed, Phases, Recorded
<1>25. CASE Crash \/ Interrupt
  BY <1>25, BytesAssumption, NoneAssumption DEF Crash, Interrupt, Return,
       DropUnmarked, Goto, Typed, Phases, Recorded
<1>26. ASSUME NEW b \in Bytes, Publish(b)
      PROVE  Phases'
  BY <1>26, BytesAssumption, NoneAssumption DEF Publish, store, Typed,
       Phases, Recorded
<1>27. ASSUME NEW c \in LocalEdits, Edit(c) \/ Damage(c)
      PROVE  Phases'
  BY <1>27, BytesAssumption, NoneAssumption DEF Edit, Damage, Typed, Phases,
       Recorded
<1>28. CASE UNCHANGED vars
  BY <1>28 DEF vars, store, Typed, Phases, Recorded
<1>29. QED
  BY <1>1, <1>2, <1>3, <1>4, <1>5, <1>6, <1>7, <1>8, <1>9, <1>10, <1>11,
       <1>12, <1>13, <1>14, <1>15, <1>16, <1>17, <1>18, <1>19, <1>20, <1>21,
       <1>22, <1>23, <1>24, <1>25, <1>26, <1>27, <1>28
     DEF Next, Program, Pending, Download, InstallPart, Convert, Command,
         Environment
-----------------------------------------------------------------------------
(* The protocol of the marker *)

\* A captured source that the manifest no longer records was archived.
CapturedIsRecorded == captured \subseteq history \cup {Recorded}

\* What is at the destination was put there by the last install, by the one
\* the marker describes, or by the student.
InPlace == edited \/ dest = Recorded \/ (marker # None /\ InstalledMatches)

\* The recorded source may give way to the marker's.
MayReplace ==
    manifest # None /\ manifest.sha \in captured =>
        manifest.sha \in history \cup {marker.sha}

Replaceable ==
    marker # None /\ (marker.preserved \/ pc = "certify") => MayReplace

\* A marker that the manifest contradicts has been installed.
MarkerOrigin ==
    marker # None => PriorAgrees \/ (Recorded = marker.sha /\ part = NoFile)

\* A part that is gone is at the destination.
PartInstalled ==
    pc = "commit" \/ (pc \in {"retry", "install"} /\ part = NoFile) =>
        edited \/ dest = marker.sha

\* A marker is cleared when it is done with, or worth nothing.
Clearing ==
    pc = "clear" => /\ edited \/ dest = Recorded
                    /\ part = marker.sha => ~MatchesTopic(marker.date)

Protocol == /\ CapturedIsRecorded
            /\ InPlace
            /\ Replaceable
            /\ MarkerOrigin
            /\ PartInstalled
            /\ Clearing

IInv == Typed /\ Counted /\ Phases /\ CapturedSurvives /\ Protocol

\* The steps that touch what the protocol is about.
Writes ==
    \/ Serve \/ WriteMarker \/ Preserve \/ Certify \/ Install \/ Commit
    \/ Clear \/ Sweep \/ ConvertTwin \/ Crash \/ Interrupt
    \/ \E c \in LocalEdits : Edit(c) \/ Damage(c)

\* The steps that decide what the next one will touch.
Decides == \/ FindPending \/ FindStale \/ RetryCommitted \/ RetryStale
           \/ RetryInstall \/ MarkRow

Unmoved == UNCHANGED <<store, edited, captured>>

Elsewhere == \/ pc' \notin {"certify", "commit", "clear", "retry", "install"}
             \/ UNCHANGED <<pc, row>>

LEMMA DecidesUnmoved == Decides => Unmoved
  BY DEF Decides, FindPending, FindStale, RetryCommitted, RetryStale,
     RetryInstall, MarkRow, Discard, Unmoved, observed

LEMMA StepKinds ==
    ASSUME [Next]_vars
    PROVE  Writes \/ Decides \/ (Unmoved /\ Elsewhere)
<1> DEFINE Rest == Unmoved /\ Elsewhere
<1>1. CASE FindNothing \/ CheckUnchanged \/ CheckChanged \/ NotModified
  <2>1. Unmoved
    BY <1>1 DEF FindNothing, CheckUnchanged, CheckChanged, NotModified,
       Unmoved, store, observed
  <2>2. pc' \in {"check", "convert", "download"} \/ UNCHANGED <<pc, row>>
    BY <1>1 DEF FindNothing, CheckUnchanged, CheckChanged, NotModified, Goto
  <2>3. QED
    BY <2>1, <2>2 DEF Elsewhere
<1>2. CASE ConvertFails \/ MapReady \/ Refresh
  <2>1. Unmoved
    BY <1>2 DEF ConvertFails, MapReady, Refresh, Unmoved, store
  <2>2. pc' \in {"refresh", "idle"}
    BY <1>2 DEF ConvertFails, MapReady, Refresh, LeaveConversion, Return, Goto
  <2>3. QED
    BY <2>1, <2>2 DEF Elsewhere
<1>3. CASE Command
  <2>1. Unmoved
    BY <1>3 DEF Command, Metadata, MetadataIncomplete, Begin, Defer, Refuse,
       Fetch, Unmoved, store, observed
  <2>2. Elsewhere
    BY <1>3 DEF Command, Metadata, MetadataIncomplete, Begin, Defer, Refuse,
       Fetch, Goto, Elsewhere, MetadataIncomplete
  <2>3. QED
    BY <2>1, <2>2
<1>4. CASE DownloadFails \/ \E b \in Bytes : Publish(b)
  <2>1. Unmoved
    BY <1>4 DEF DownloadFails, Publish, Unmoved, store, observed
  <2>2. Elsewhere
    BY <1>4 DEF DownloadFails, Publish, Return, Goto, Elsewhere
  <2>3. QED
    BY <2>1, <2>2
<1>5. CASE UNCHANGED vars
  BY <1>5 DEF vars, Unmoved, Elsewhere, store, observed
<1>6. QED
  BY <1>1, <1>2, <1>3, <1>4, <1>5 DEF Next, Program, Pending, Download,
     InstallPart, Convert, Environment, Writes, Decides

LEMMA ProtocolInit == Init => IInv
<1>1. Init => Typed /\ Counted
  <2>1. Init => Typed
    BY DEF Init, Typed, PCs
  <2>2. ASSUME Init
        PROVE  Counted
    <3>1. PICK b \in Bytes : remote = <<b>>
      BY <2>2 DEF Init
    <3>2. remote \in Seq(Bytes) /\ Len(remote) = 1
      BY <3>1
    <3>3. QED
      BY <2>2, <3>2, BoundsAssumption DEF Init, Counted
  <2>3. QED
    BY <2>1, <2>2
<1>2. Init => Phases
  BY DEF Init, Phases
<1>3. Init => CapturedSurvives /\ Protocol
  BY DEF Init, CapturedSurvives, Protocol, CapturedIsRecorded, InPlace,
     Replaceable, MarkerOrigin, PartInstalled, Clearing, Recorded
<1>4. QED
  BY <1>1, <1>2, <1>3 DEF IInv

LEMMA CapturedIsRecordedNext ==
    ASSUME IInv, [Next]_vars
    PROVE  CapturedIsRecorded'
<1> USE DEF IInv, Protocol, CapturedIsRecorded, Recorded
<1>1. CASE Commit
  <2>1. marker # None /\ marker \in Marker /\ MayReplace
    BY <1>1 DEF Commit, Phases, Typed, Replaceable
  <2>2. manifest' # None /\ manifest'.sha = marker.sha
    <3>1. manifest' \in Entry
      BY <1>1, BytesAssumption DEF Commit, Typed, Phases, Marker, Entry
    <3>2. QED
      BY <1>1, <3>1, NoneAssumption DEF Commit
  <2>3. captured \subseteq history \cup {marker.sha}
    BY <2>1, BytesAssumption DEF MayReplace, Typed
  <2>4. QED
    BY <1>1, <2>2, <2>3 DEF Commit
<1>2. CASE Preserve
  BY <1>2 DEF Preserve
<1>3. ASSUME NEW c \in LocalEdits, Edit(c)
      PROVE  CapturedIsRecorded'
  BY <1>3 DEF Edit
<1>4. CASE ConvertTwin
  <2>1. manifest' # None /\ manifest'.sha = manifest.sha
    BY <1>4, NoneAssumption DEF ConvertTwin, Matching, Typed, Entry
  <2>2. QED
    BY <1>4, <2>1 DEF ConvertTwin, Matching, observed
<1>5. CASE UNCHANGED <<manifest, history, captured>>
  BY <1>5
<1>6. CASE \/ Serve \/ WriteMarker \/ Certify \/ Install \/ Clear \/ Sweep
           \/ Crash \/ Interrupt \/ \E c \in LocalEdits : Damage(c)
  <2>1. UNCHANGED <<manifest, history, captured>>
    BY <1>6 DEF Serve, WriteMarker, Certify, Install, Clear, Sweep, Crash,
       Interrupt, Damage, observed
  <2>2. QED
    BY <2>1
<1>7. QED
  BY <1>1, <1>2, <1>3, <1>4, <1>5, <1>6, StepKinds, DecidesUnmoved
     DEF Unmoved, store, Writes

\* The one step that replaces a source has been prepared for.
LEMMA InstallKeeps ==
    ASSUME IInv, Install
    PROVE  captured \subseteq history \cup {dest'}
<1> USE DEF IInv, Protocol
<1>1. marker # None /\ marker \in Marker /\ MayReplace
  BY DEF Install, Phases, Typed, Replaceable
<1>2. CASE part = NoFile
  BY <1>2 DEF Install, CapturedSurvives
<1>3. CASE part # NoFile
  <2>1. part = marker.sha /\ dest' = marker.sha
    BY <1>3 DEF Install, Phases
  <2>2. SUFFICES ASSUME dest \in captured, dest \notin history,
                        dest # marker.sha
                 PROVE  FALSE
    BY <2>1 DEF CapturedSurvives
  <2>3. dest = Recorded
    BY <2>2 DEF CapturedIsRecorded
  <2>4. manifest # None /\ dest = manifest.sha
    BY <2>2, <2>3, BytesAssumption DEF Recorded, Typed
  <2>5. QED
    BY <1>1, <2>2, <2>4 DEF MayReplace
<1>4. QED
  BY <1>2, <1>3

LEMMA CapturedNext ==
    ASSUME IInv, [Next]_vars
    PROVE  CapturedSurvives'
<1> USE DEF IInv, CapturedSurvives
<1>1. CASE Install
  BY <1>1, InstallKeeps DEF Install
<1>2. CASE Preserve
  BY <1>2 DEF Preserve
<1>3. CASE Commit
  BY <1>3 DEF Commit
<1>4. ASSUME NEW c \in LocalEdits, Edit(c)
      PROVE  CapturedSurvives'
  BY <1>4 DEF Edit
<1>5. CASE UNCHANGED <<history, dest, captured>>
  BY <1>5
<1>6. CASE Serve \/ WriteMarker \/ Certify \/ Clear \/ Sweep \/ ConvertTwin
           \/ Crash \/ Interrupt \/ \E c \in LocalEdits : Damage(c)
  <2>1. UNCHANGED <<history, dest, captured>>
    BY <1>6 DEF Serve, WriteMarker, Certify, Clear, Sweep, ConvertTwin, Crash,
       Interrupt, Damage, observed
  <2>2. QED
    BY <2>1
<1>7. QED
  BY <1>1, <1>2, <1>3, <1>4, <1>5, <1>6, StepKinds, DecidesUnmoved
     DEF Unmoved, store, Writes

LEMMA InPlaceNext ==
    ASSUME IInv, [Next]_vars
    PROVE  InPlace'
<1> USE DEF IInv, Protocol, InPlace, InstalledMatches, Recorded
<1>1. CASE Serve
  BY <1>1 DEF Serve, Phases, observed
<1>2. CASE WriteMarker
  BY <1>2 DEF WriteMarker, Phases, observed
<1>3. CASE Preserve
  BY <1>3 DEF Preserve
<1>4. CASE Certify
  <2>1. marker' # None /\ marker'.sha = marker.sha /\ marker'.preserved
    BY <1>4, NoneAssumption DEF Certify, Phases, Typed, Marker
  <2>2. QED
    BY <1>4, <2>1 DEF Certify, observed
<1>5. CASE Install
  BY <1>5 DEF Install, Phases
<1>6. CASE Commit
  <2>1. manifest' # None /\ manifest'.sha = marker.sha
    <3>1. manifest' \in Entry
      BY <1>6, BytesAssumption DEF Commit, Typed, Phases, Marker, Entry
    <3>2. QED
      BY <1>6, <3>1, NoneAssumption DEF Commit
  <2>2. edited \/ dest = marker.sha
    BY <1>6 DEF Commit, PartInstalled
  <2>3. QED
    BY <1>6, <2>1, <2>2 DEF Commit
<1>7. CASE Clear
  BY <1>7 DEF Clear, Clearing, observed
<1>8. CASE Sweep
  BY <1>8 DEF Sweep, Phases, observed
<1>9. CASE ConvertTwin
  <2>1. manifest' # None /\ manifest'.sha = manifest.sha
    BY <1>9, NoneAssumption DEF ConvertTwin, Matching, Typed, Entry
  <2>2. QED
    BY <1>9, <2>1 DEF ConvertTwin, Matching, observed
<1>10. CASE Crash \/ Interrupt
  BY <1>10 DEF Crash, Interrupt, DropUnmarked, observed
<1>11. ASSUME NEW c \in LocalEdits, Edit(c) \/ Damage(c)
       PROVE  InPlace'
  BY <1>11 DEF Edit, Damage, observed
<1>12. CASE Unmoved
  BY <1>12 DEF Unmoved, store
<1>13. QED
  BY <1>1, <1>2, <1>3, <1>4, <1>5, <1>6, <1>7, <1>8, <1>9, <1>10, <1>11,
     <1>12, StepKinds, DecidesUnmoved DEF Writes

LEMMA MayReplaceStays ==
    ASSUME MayReplace, manifest' = manifest, marker' # None,
           marker'.sha = marker.sha, history \subseteq history',
           captured' \subseteq captured
    PROVE  MayReplace'
  BY DEF MayReplace

LEMMA ReplaceableNext ==
    ASSUME IInv, [Next]_vars
    PROVE  Replaceable'
<1> USE DEF IInv, Protocol, Replaceable
<1>1. CASE Serve \/ Clear \/ Sweep
  BY <1>1 DEF Serve, Clear, Sweep, Phases
<1>2. CASE WriteMarker
  <2>1. marker'.preserved => manifest = None \/ manifest.sha = marker'.sha
    BY <1>2 DEF WriteMarker
  <2>2. pc' # "certify" /\ manifest' = manifest
    BY <1>2 DEF WriteMarker, Goto
  <2>3. QED
    BY <2>1, <2>2 DEF MayReplace
<1>3. CASE Preserve
  <2>1. /\ manifest' = manifest /\ marker' = marker /\ captured' = captured
        /\ history \subseteq history'
    BY <1>3 DEF Preserve
  <2>2. CASE marker.preserved
    BY <2>1, <2>2, <1>3, MayReplaceStays DEF Preserve, Phases
  <2>3. CASE Matching
    <3>1. manifest.sha \in history'
      BY <1>3, <2>3 DEF Preserve, Matching
    <3>2. QED
      BY <2>1, <3>1 DEF MayReplace
  <2>4. CASE ~Matching /\ dest = NoFile
    <3>1. manifest # None => manifest.sha # NoFile
      BY BytesAssumption DEF Typed, Entry
    <3>2. QED
      BY <2>1, <2>4, <3>1 DEF CapturedSurvives, MayReplace
  <2>5. CASE ~Matching /\ dest # NoFile /\ ~marker.preserved
    <3>1. pc' = "idle"
      BY <1>3, <2>5 DEF Preserve, Return
    <3>2. QED
      BY <2>1, <2>5, <3>1
  <2>6. QED
    BY <2>2, <2>3, <2>4, <2>5
<1>4. CASE Certify
  <2>1. marker # None /\ marker' # None /\ marker'.sha = marker.sha
    BY <1>4, NoneAssumption DEF Certify, Phases, Typed, Marker
  <2>2. MayReplace
    BY <1>4, <2>1 DEF Certify
  <2>3. QED
    BY <1>4, <2>1, <2>2, MayReplaceStays DEF Certify, observed
<1>5. CASE Commit
  BY <1>5 DEF Commit, MayReplace
<1>6. CASE ConvertTwin
  <2>1. manifest # None /\ manifest' # None /\ manifest'.sha = manifest.sha
    BY <1>6, NoneAssumption DEF ConvertTwin, Matching, Typed, Entry
  <2>2. pc # "certify" /\ pc' # "certify"
    BY <1>6 DEF ConvertTwin, Goto
  <2>3. UNCHANGED <<marker, history, captured>>
    BY <1>6 DEF ConvertTwin, observed
  <2>4. QED
    BY <2>1, <2>2, <2>3 DEF MayReplace
<1>7. ASSUME \/ Install \/ Crash \/ Interrupt
             \/ \E c \in LocalEdits : Edit(c) \/ Damage(c)
      PROVE  Replaceable'
  <2>1. /\ UNCHANGED <<manifest, marker, history>>
        /\ captured' \subseteq captured
        /\ pc' = "certify" => pc = "certify"
    BY <1>7 DEF Install, Crash, Interrupt, Edit, Damage, Return, Goto, observed
  <2>2. QED
    BY <2>1, MayReplaceStays
<1>8. CASE Decides
  <2>1. pc' # "certify"
    BY <1>8 DEF Decides, FindPending, FindStale, RetryCommitted, RetryStale,
       RetryInstall, MarkRow, Discard, Goto
  <2>2. QED
    BY <1>8, <2>1, DecidesUnmoved, MayReplaceStays DEF Unmoved, store
<1>9. CASE Unmoved /\ Elsewhere
  BY <1>9, MayReplaceStays DEF Unmoved, store, Elsewhere
<1>10. QED
  BY <1>1, <1>2, <1>3, <1>4, <1>5, <1>6, <1>7, <1>8, <1>9, StepKinds
     DEF Writes

LEMMA MarkerOriginNext ==
    ASSUME IInv, [Next]_vars
    PROVE  MarkerOrigin'
<1> USE DEF IInv, Protocol, MarkerOrigin
<1>1. CASE Serve \/ Clear \/ Sweep
  BY <1>1 DEF Serve, Clear, Sweep, Phases
<1>2. CASE WriteMarker
  <2>1. /\ manifest' = manifest /\ marker'.sha = part
        /\ marker'.prior = IF manifest # None /\ manifest.sha # part
                           THEN manifest.sha ELSE None
    BY <1>2 DEF WriteMarker
  <2>2. manifest # None => manifest.sha # None
    BY BytesAssumption DEF Typed, Entry
  <2>3. QED
    BY <2>1, <2>2 DEF PriorAgrees, Recorded
<1>3. CASE Preserve
  BY <1>3 DEF Preserve, PriorAgrees, Recorded
<1>4. CASE Certify
  <2>1. /\ marker # None /\ marker'.sha = marker.sha
        /\ marker'.prior = marker.prior
    BY <1>4 DEF Certify, Phases, Typed, Marker
  <2>2. QED
    BY <1>4, <2>1 DEF Certify, PriorAgrees, Recorded
<1>5. CASE Install
  BY <1>5 DEF Install, PriorAgrees, Recorded
<1>6. CASE Commit
  <2>1. manifest' \in Entry
    BY <1>6, BytesAssumption DEF Commit, Typed, Phases, Marker, Entry, Recorded
  <2>2. manifest' # None /\ manifest'.sha = marker.sha
    BY <1>6, <2>1, NoneAssumption DEF Commit
  <2>3. QED
    BY <1>6, <2>2 DEF Commit, Phases, Recorded
<1>7. CASE ConvertTwin
  <2>1. manifest # None /\ manifest' # None /\ manifest'.sha = manifest.sha
    BY <1>7, NoneAssumption DEF ConvertTwin, Matching, Typed, Entry
  <2>2. QED
    BY <1>7, <2>1 DEF ConvertTwin, PriorAgrees, Recorded
<1>8. CASE Crash \/ Interrupt
  BY <1>8 DEF Crash, Interrupt, DropUnmarked, PriorAgrees, Recorded
<1>9. ASSUME NEW c \in LocalEdits, Edit(c) \/ Damage(c)
      PROVE  MarkerOrigin'
  BY <1>9 DEF Edit, Damage, PriorAgrees, Recorded
<1>10. CASE Unmoved
  BY <1>10 DEF Unmoved, store, PriorAgrees, Recorded
<1>11. QED
  BY <1>1, <1>2, <1>3, <1>4, <1>5, <1>6, <1>7, <1>8, <1>9, <1>10, StepKinds,
     DecidesUnmoved DEF Writes

LEMMA PartInstalledNext ==
    ASSUME IInv, [Next]_vars
    PROVE  PartInstalled'
<1> USE DEF IInv, Protocol, PartInstalled
<1>1. CASE Install
  BY <1>1 DEF Install, Phases, Goto
<1>2. CASE Certify
  <2>1. part # NoFile
    BY <1>2, BytesAssumption DEF Certify, Phases, Typed, Marker
  <2>2. QED
    BY <1>2, <2>1 DEF Certify, Goto
<1>3. CASE WriteMarker
  BY <1>3, BytesAssumption DEF WriteMarker, Phases, Goto
<1>4. CASE Serve \/ Preserve \/ Commit \/ Clear \/ Sweep \/ ConvertTwin
           \/ Crash \/ Interrupt
  <2>1. pc' \notin {"commit", "retry", "install"}
    BY <1>4 DEF Serve, Preserve, Commit, Clear, Sweep, ConvertTwin, Crash,
       Interrupt, Return, Goto, Typed
  <2>2. QED
    BY <2>1
<1>5. ASSUME NEW c \in LocalEdits, Edit(c) \/ Damage(c)
      PROVE  PartInstalled'
  BY <1>5 DEF Edit, Damage
<1>6. CASE FindPending
  BY <1>6, BytesAssumption DEF FindPending, InstalledMatches, PartMatches,
     Typed, Marker, Goto, observed, store
<1>7. CASE RetryInstall
  <2>1. pc = "retry" /\ pc' \in {"install", "preserve"} /\ Unmoved
    BY <1>7, DecidesUnmoved DEF RetryInstall, Goto, Decides
  <2>2. QED
    BY <2>1 DEF Unmoved, store
<1>8. CASE FindStale \/ RetryCommitted \/ RetryStale \/ MarkRow
  BY <1>8 DEF FindStale, RetryCommitted, RetryStale, MarkRow, Discard, Goto
<1>9. CASE Unmoved /\ Elsewhere
  BY <1>9 DEF Unmoved, Elsewhere, store
<1>10. QED
  BY <1>1, <1>2, <1>3, <1>4, <1>5, <1>6, <1>7, <1>8, <1>9, StepKinds
     DEF Writes, Decides

LEMMA ClearingNext ==
    ASSUME IInv, [Next]_vars
    PROVE  Clearing'
<1> USE DEF IInv, Protocol, Clearing
<1>1. CASE Writes /\ ~\E c \in LocalEdits : Edit(c)
  <2>1. pc' # "clear"
    BY <1>1 DEF Writes, Serve, WriteMarker, Preserve, Certify, Install,
       Commit, Clear, Sweep, ConvertTwin, Crash, Interrupt, Damage, Return,
       Goto, Typed
  <2>2. QED
    BY <2>1
<1>2. ASSUME NEW c \in LocalEdits, Edit(c)
      PROVE  Clearing'
  BY <1>2 DEF Edit, MatchesTopic, Recorded
<1>3. CASE FindStale
  <2>1. UNCHANGED <<marker, dest, part, row, manifest, edited>>
    BY <1>3 DEF FindStale, Discard, store, observed
  <2>2. edited \/ dest = Recorded
    BY <1>3 DEF FindStale, InPlace
  <2>3. part = marker.sha => ~MatchesTopic(marker.date)
    BY <1>3 DEF FindStale, PartMatches
  <2>4. QED
    BY <2>1, <2>2, <2>3 DEF Recorded, MatchesTopic
<1>4. CASE RetryCommitted
  <2>1. UNCHANGED <<marker, dest, part, manifest, edited>>
    BY <1>4 DEF RetryCommitted, store, observed
  <2>2. dest = Recorded /\ part = NoFile
    BY <1>4 DEF RetryCommitted, Committed, InstalledMatches
  <2>3. part # marker.sha
    BY <1>4, <2>2, BytesAssumption DEF RetryCommitted, Phases, Typed, Marker
  <2>4. QED
    BY <2>1, <2>2, <2>3 DEF Recorded
<1>5. CASE RetryStale
  <2>1. UNCHANGED <<marker, dest, part, manifest, edited>>
    BY <1>5 DEF RetryStale, Discard, store, observed
  <2>2. Recorded = marker.sha /\ part = NoFile
    BY <1>5 DEF RetryStale, Phases, MarkerOrigin
  <2>3. part # marker.sha
    BY <1>5, <2>2, BytesAssumption DEF RetryStale, Phases, Typed, Marker
  <2>4. edited \/ dest = Recorded
    BY <2>2 DEF InPlace, InstalledMatches
  <2>5. QED
    BY <2>1, <2>3, <2>4 DEF Recorded
<1>6. CASE MarkRow
  <2>1. UNCHANGED <<marker, dest, part, manifest, edited>>
    BY <1>6 DEF MarkRow, store, observed
  <2>2. Recorded = marker.sha /\ part = NoFile
    BY <1>6 DEF MarkRow, Phases
  <2>3. part # marker.sha
    BY <1>6, <2>2, BytesAssumption DEF MarkRow, Phases, Typed, Marker
  <2>4. edited \/ dest = Recorded
    BY <2>2 DEF InPlace, InstalledMatches
  <2>5. QED
    BY <2>1, <2>3, <2>4 DEF Recorded
<1>7. CASE FindPending \/ RetryInstall
  BY <1>7 DEF FindPending, RetryInstall, Goto
<1>8. CASE Unmoved /\ Elsewhere
  BY <1>8 DEF Unmoved, Elsewhere, store, Recorded, MatchesTopic
<1>9. QED
  BY <1>1, <1>2, <1>3, <1>4, <1>5, <1>6, <1>7, <1>8, StepKinds DEF Decides

LEMMA IInvInductive == IInv /\ [Next]_vars => IInv'
  BY TypedNext, CountedNext, PhasesNext, CapturedNext, CapturedIsRecordedNext,
     InPlaceNext, ReplaceableNext, MarkerOriginNext, PartInstalledNext,
     ClearingNext DEF IInv, Protocol

LEMMA IInvAlways == Spec => []IInv
  BY ProtocolInit, IInvInductive, PTL DEF Spec

\* Every reachable state is well typed, for any number of revisions, failures
\* and edits; in particular only what the site served is ever archived.
THEOREM TypeCorrect == Spec => []TypeOK
<1>1. IInv => TypeOK
  BY TypeParts DEF IInv
<1>2. QED
  BY <1>1, IInvAlways, PTL

\* A source the manifest recorded, and the student has not overwritten, is in
\* place or in the history, wherever a sync or a fetch is interrupted.
THEOREM CapturedSurvivesAlways == Spec => []CapturedSurvives
<1>1. IInv => CapturedSurvives
  BY DEF IInv
<1>2. QED
  BY <1>1, IInvAlways, PTL

\* The destination never holds bytes that neither the manifest, nor a marker,
\* nor the student vouches for.
THEOREM SourceAccountedAlways == Spec => []SourceAccounted
<1>1. IInv => SourceAccounted
  BY DEF IInv, Protocol, InPlace, InstalledMatches, SourceAccounted
<1>2. QED
  BY <1>1, IInvAlways, PTL

\* Only Clear removes a marker, and Clearing says what it may remove.
THEOREM RetainsDownloadAlways == Spec => RetainsDownload
<1> DEFINE Keeps == marker # None /\ marker' = None /\ part = marker.sha =>
                        ~MatchesTopic(marker.date)
<1>1. ASSUME IInv, [Next]_vars
      PROVE  Keeps
  <2>1. CASE Clear
    BY <1>1, <2>1 DEF Clear, IInv, Protocol, Clearing
  <2>2. CASE WriteMarker
    BY <1>1, <2>2 DEF WriteMarker, IInv, Phases
  <2>3. CASE Certify
    <3>1. marker' # None
      BY <1>1, <2>3, NoneAssumption DEF Certify, IInv, Phases, Typed, Marker
    <3>2. QED
      BY <3>1
  <2>4. CASE marker' = marker
    BY <2>4
  <2>5. CASE Writes /\ ~Clear /\ ~WriteMarker /\ ~Certify
    <3>1. marker' = marker
      BY <2>5 DEF Writes, Serve, Preserve, Install, Commit, Sweep,
         ConvertTwin, Crash, Interrupt, Edit, Damage
    <3>2. QED
      BY <3>1
  <2>6. QED
    BY <1>1, <2>1, <2>2, <2>3, <2>4, <2>5, StepKinds, DecidesUnmoved
       DEF Unmoved, store
<1>2. IInv /\ [Next]_vars => [Keeps]_vars
  BY <1>1
<1>3. QED
  BY <1>2, IInvAlways, PTL DEF Spec, RetainsDownload
-----------------------------------------------------------------------------
(* The install implements the promise *)

AbstractlyUnmoved == UNCHANGED <<Accepted, Proposed, history, captured>>

LEMMA AcceptedSource ==
    ASSUME Typed, manifest # None
    PROVE  /\ Accepted # None
           /\ Accepted.source = manifest.sha
           /\ Accepted \in [source : Bytes, twin : BOOLEAN]
  BY NoRevisionAssumption DEF Accepted, Typed, Entry

LEMMA Retwinned ==
    ASSUME NEW s \in Bytes, NEW t, NEW u
    PROVE  [[source |-> s, twin |-> t] EXCEPT !.twin = u]
                = [source |-> s, twin |-> u]
  OBVIOUS

LEMMA ArchiveStep ==
    ASSUME IInv, IInv', [Next]_vars
    PROVE  Promise!ANext \/ AbstractlyUnmoved
<1> USE DEF IInv, Protocol
<1>1. CASE WriteMarker
  <2>1. /\ UNCHANGED <<manifest, history, captured>>
        /\ marker = None /\ marker' # None /\ marker'.sha = part
        /\ marker'.preserved => manifest = None \/ manifest.sha = part
    <3>1. marker' \in Marker
      BY <1>1 DEF WriteMarker, FirstDate, Typed, Phases, Marker, Entry, Row
    <3>2. QED
      BY <1>1, <3>1, NoneAssumption DEF WriteMarker, Phases, observed
  <2>2. Accepted' = Accepted /\ Proposed = None
    BY <2>1 DEF Accepted, Proposed
  <2>3. CASE Proposed' = None
    BY <2>1, <2>2, <2>3 DEF AbstractlyUnmoved
  <2>4. CASE Proposed' # None
    <3>1. manifest = None /\ Proposed' = part
      BY <2>1, <2>4 DEF Proposed, Recorded
    <3>2. Accepted = None
      BY <3>1 DEF Accepted
    <3>3. part \in Bytes
      BY <1>1 DEF WriteMarker, Phases
    <3>4. Promise!Propose(part)
      BY <2>1, <2>2, <3>1, <3>2 DEF Promise!Propose, Promise!MayGiveWay
    <3>5. QED
      BY <3>3, <3>4 DEF Promise!ANext
  <2>5. QED
    BY <2>3, <2>4
<1>2. CASE Preserve
  <2>1. UNCHANGED <<manifest, marker, captured>>
    BY <1>2 DEF Preserve
  <2>2. UNCHANGED <<Accepted, Proposed>>
    BY <2>1 DEF Accepted, Proposed, Recorded
  <2>3. CASE Matching
    <3>1. manifest # None /\ history' = history \cup {manifest.sha}
      BY <1>2, <2>3 DEF Preserve, Matching
    <3>2. Promise!Archive(manifest.sha)
      BY <2>1, <2>2, <3>1, AcceptedSource DEF Promise!Archive
    <3>3. manifest.sha \in Bytes
      BY <3>1 DEF Typed, Entry
    <3>4. QED
      BY <3>2, <3>3 DEF Promise!ANext
  <2>4. CASE ~Matching
    BY <1>2, <2>1, <2>2, <2>4 DEF Preserve, AbstractlyUnmoved
  <2>5. QED
    BY <2>3, <2>4
<1>3. CASE Certify
  <2>1. /\ UNCHANGED <<manifest, history, captured>>
        /\ marker # None /\ marker' # None
        /\ marker'.sha = marker.sha /\ marker'.preserved
    BY <1>3, NoneAssumption DEF Certify, Phases, Typed, Marker, observed
  <2>2. Accepted' = Accepted
    BY <2>1 DEF Accepted
  <2>3. CASE Recorded = marker.sha
    BY <2>1, <2>2, <2>3 DEF Proposed, Recorded, AbstractlyUnmoved
  <2>4. CASE marker.preserved
    BY <2>1, <2>2, <2>4 DEF Proposed, Recorded, AbstractlyUnmoved
  <2>5. CASE Recorded # marker.sha /\ ~marker.preserved
    <3>1. /\ Proposed = None
          /\ Proposed' = marker.sha
      BY <2>1, <2>5 DEF Proposed, Recorded
    <3>2. MayReplace
      BY <1>3, <2>1 DEF Certify, Replaceable
    <3>3. Accepted # None /\ Accepted.source \in captured =>
              Accepted.source \in {marker.sha} \cup history
      <4>1. Accepted # None => manifest # None
        BY DEF Accepted
      <4>2. QED
        BY <3>2, <4>1, AcceptedSource DEF MayReplace
    <3>4. marker.sha \in Bytes
      BY <2>1 DEF Typed, Marker
    <3>5. Promise!Propose(marker.sha)
      BY <2>1, <2>2, <3>1, <3>3 DEF Promise!Propose, Promise!MayGiveWay
    <3>6. QED
      BY <3>4, <3>5 DEF Promise!ANext
  <2>6. QED
    BY <2>3, <2>4, <2>5
<1>4. CASE Commit
  <2>1. /\ marker # None /\ marker.preserved
        /\ UNCHANGED <<marker, history>>
        /\ manifest' = [sha |-> marker.sha, date |-> marker.date,
                        derived |-> /\ Recorded = marker.sha
                                    /\ manifest.derived]
        /\ captured' \in {captured, captured \cup {marker.sha}}
    BY <1>4 DEF Commit, Phases
  <2>2. manifest' # None
    <3>1. manifest' \in Entry
      BY <2>1, BytesAssumption DEF Typed, Marker, Entry, Recorded
    <3>2. QED
      BY <2>1, <3>1, NoneAssumption
  <2>3. Recorded' = marker.sha /\ Proposed' = None
    BY <2>1, <2>2 DEF Recorded, Proposed
  <2>4. Accepted' = [source |-> marker.sha,
                     twin |-> Recorded = marker.sha /\ manifest.derived]
    BY <2>1, <2>2 DEF Accepted
  <2>5. CASE Recorded = marker.sha
    <3>1. manifest # None /\ manifest.sha = marker.sha
      BY <2>1, <2>5, BytesAssumption DEF Recorded, Typed, Marker
    <3>2. Proposed = None
      BY <2>5 DEF Proposed
    <3>3. manifest.derived \in BOOLEAN
      BY <3>1 DEF Typed, Entry
    <3>4. Accepted = [source |-> marker.sha, twin |-> manifest.derived]
      BY <3>1 DEF Accepted
    <3>5. Accepted' = [Accepted EXCEPT !.twin = manifest.derived]
      BY <2>4, <2>5, <3>3, <3>4
    <3>6. Promise!Retwin(manifest.derived)
      <4>1. captured' \in {captured} \cup {captured \cup {Accepted.source}}
        BY <2>1, <3>4
      <4>2. QED
        BY <2>1, <2>3, <3>1, <3>2, <3>5, <4>1, AcceptedSource
           DEF Promise!Retwin
    <3>7. QED
      BY <3>3, <3>6 DEF Promise!ANext
  <2>6. CASE Recorded # marker.sha
    <3>1. Proposed = marker.sha
      BY <2>1, <2>6 DEF Proposed
    <3>2. Proposed # None
      BY <2>1, <3>1, BytesAssumption DEF Typed, Marker
    <3>3. Accepted' = [source |-> Proposed, twin |-> FALSE]
      BY <2>4, <2>6, <3>1
    <3>4. Promise!MayGiveWay(Proposed)
      <4>1. Accepted # None => manifest # None
        BY DEF Accepted
      <4>2. MayReplace
        BY <2>1 DEF Replaceable
      <4>3. QED
        BY <3>1, <4>1, <4>2, AcceptedSource DEF MayReplace, Promise!MayGiveWay
    <3>5. Promise!Accept(FALSE)
      BY <2>1, <2>3, <3>1, <3>2, <3>3, <3>4 DEF Promise!Accept
    <3>6. QED
      BY <3>5 DEF Promise!ANext
  <2>7. QED
    BY <2>5, <2>6
<1>5. CASE Clear
  <2>1. /\ UNCHANGED <<manifest, history, captured>>
        /\ marker' = None
    BY <1>5 DEF Clear, observed
  <2>2. Accepted' = Accepted /\ Proposed' = None
    BY <2>1 DEF Accepted, Proposed
  <2>3. CASE Proposed = None
    BY <2>1, <2>2, <2>3 DEF AbstractlyUnmoved
  <2>4. CASE Proposed # None
    BY <2>1, <2>2, <2>4 DEF Promise!Withdraw, Promise!ANext
  <2>5. QED
    BY <2>3, <2>4
<1>6. CASE ConvertTwin
  <2>1. /\ manifest # None /\ manifest' = [manifest EXCEPT !.derived = TRUE]
        /\ UNCHANGED <<marker, history, captured>>
    BY <1>6 DEF ConvertTwin, Matching, observed
  <2>2. manifest' # None /\ manifest'.sha = manifest.sha /\ manifest'.derived
    BY <2>1, NoneAssumption DEF Typed, Entry
  <2>3. Proposed' = Proposed
    BY <2>1, <2>2 DEF Proposed, Recorded
  <2>4. Accepted' = [Accepted EXCEPT !.twin = TRUE]
    <3>1. manifest'.derived = TRUE
      BY <2>1 DEF Typed, Entry
    <3>2. Accepted = [source |-> manifest.sha, twin |-> manifest.derived]
      BY <2>1 DEF Accepted
    <3>3. Accepted' = [source |-> manifest.sha, twin |-> TRUE]
      BY <2>2, <3>1 DEF Accepted
    <3>4. QED
      <4>1. manifest.sha \in Bytes
        BY <2>1 DEF Typed, Entry
      <4>2. QED
        BY <3>2, <3>3, <4>1, Retwinned
  <2>5. Promise!Retwin(TRUE)
    BY <2>1, <2>3, <2>4, AcceptedSource DEF Promise!Retwin
  <2>6. QED
    BY <2>5 DEF Promise!ANext
<1>7. ASSUME NEW c \in LocalEdits, Edit(c)
      PROVE  Promise!ANext
  <2>1. /\ UNCHANGED <<manifest, marker, history>>
        /\ captured' \subseteq captured
    BY <1>7 DEF Edit
  <2>2. UNCHANGED <<Accepted, Proposed>>
    BY <2>1 DEF Accepted, Proposed, Recorded
  <2>3. QED
    BY <2>1, <2>2 DEF Promise!Discard, Promise!ANext
<1>8. CASE UNCHANGED <<manifest, marker, history, captured>>
  BY <1>8 DEF AbstractlyUnmoved, Accepted, Proposed, Recorded
<1>9. CASE Serve \/ Install \/ Sweep \/ Crash \/ Interrupt
           \/ \E c \in LocalEdits : Damage(c)
  <2>1. UNCHANGED <<manifest, marker, history, captured>>
    BY <1>9 DEF Serve, Install, Sweep, Crash, Interrupt, Damage, observed
  <2>2. QED
    BY <1>8, <2>1
<1>10. QED
  BY <1>1, <1>2, <1>3, <1>4, <1>5, <1>6, <1>7, <1>8, <1>9, StepKinds,
     DecidesUnmoved DEF Unmoved, store, Writes

\* Every step of a sync or a fetch is a step of RevisionArchive or none: the
\* marker proposes only what may replace the recorded source, and the manifest
\* accepts only what was proposed.
THEOREM InstallImplementsArchive == Spec => ImplementsArchive
<1>1. Init => Promise!AInit
  BY DEF Init, Promise!AInit, Accepted, Proposed
<1>2. IInv /\ IInv' /\ [Next]_vars => [Promise!ANext]_(Promise!avars)
  BY ArchiveStep DEF AbstractlyUnmoved, Promise!avars
<1>3. QED
  BY <1>1, <1>2, IInvAlways, PTL DEF Spec, ImplementsArchive, Promise!ASpec
-----------------------------------------------------------------------------
(* What the dates say *)

\* A date the site can have given.
Issued(date) == date # None => date.form \in site /\ date.at \in Published

\* The part was answered after the listing, and at the date of the answer.
Answered ==
    \E n \in Published :
        /\ n >= asked
        /\ row.date # None => n >= row.date.at
        /\ got # None => n = got.at
        /\ part = remote[n]

\* Where each date comes from: a row has the listing's, a response its own, and
\* an entry or a marker one of the two, with the bytes it came with.
DatesIssued ==
    /\ row # None => /\ row.date # None <=> "toc" \in site
                     /\ row.date # None => row.date.form = "toc"
                     /\ Issued(row.date)
    /\ manifest # None => Issued(manifest.date)
    /\ marker # None => Issued(marker.date)
    /\ pc = "downloaded" => /\ got # None <=> "http" \in site
                            /\ got # None => got.form = "http"
                            /\ Answered
    /\ asked \in Published
    /\ DatesAreHonest

\* Only a listing changes a row's date.
LEMMA RowDateKept ==
    ASSUME Typed, Phases, [Next]_vars, ~Metadata
    PROVE  /\ row' # None <=> row # None
           /\ row # None => row'.date = row.date
<1> DEFINE Kept == /\ row' # None <=> row # None
                   /\ row # None => row'.date = row.date
<1>1. \A r \in Row : /\ Reconciled(r) \in Row /\ Reconciled(r).date = r.date
                     /\ r # None
  BY ReconciledTyped, NoneAssumption
<1>2. \A r \in Row, a \in Availability :
            /\ Updated(r, a) \in Row /\ Updated(r, a).date = r.date
            /\ [r EXCEPT !.availability = a] \in Row
            /\ [r EXCEPT !.availability = a].date = r.date
  <2> SUFFICES ASSUME NEW r \in Row, NEW a \in Availability
               PROVE  /\ Updated(r, a) \in Row /\ Updated(r, a).date = r.date
                      /\ [r EXCEPT !.availability = a] \in Row
                      /\ [r EXCEPT !.availability = a].date = r.date
    OBVIOUS
  <2>1. /\ [r EXCEPT !.availability = a] \in Row
        /\ [r EXCEPT !.availability = a].date = r.date
    BY DEF Row
  <2>2. QED
    BY <2>1, ReconciledTyped DEF Updated
<1>3. CASE row' = Reconciled(row) /\ row # None
  BY <1>1, <1>3 DEF Typed
<1>4. ASSUME NEW a \in Availability, row # None,
             row' = Updated(row, a) \/ row' = [row EXCEPT !.availability = a]
      PROVE  Kept
  BY <1>1, <1>2, <1>4 DEF Typed
<1>5. CASE RetryCommitted \/ CheckUnchanged \/ MarkRow \/ Refresh \/ MetadataIncomplete
  BY <1>3, <1>5 DEF RetryCommitted, CheckUnchanged, MarkRow, Refresh, MetadataIncomplete, Phases
<1>6. CASE NotModified
  BY <1>3, <1>6 DEF NotModified, Phases
<1>7. CASE Refuse
  BY <1>4, <1>7 DEF Refuse, Phases, Availability
<1>8. CASE DownloadFails
  BY <1>4, <1>8 DEF DownloadFails, Phases, Availability
<1>9. CASE ConvertFails
  BY <1>4, <1>9 DEF ConvertFails, Phases, Availability
<1>10. CASE MapReady
  BY <1>4, <1>10 DEF MapReady, Phases, Availability
<1>11. CASE row' = row
  BY <1>11
<1>12. CASE \/ FindNothing \/ FindPending \/ FindStale \/ RetryStale \/ RetryInstall
            \/ CheckChanged \/ Serve \/ WriteMarker \/ Preserve \/ Certify \/ Install
            \/ Commit \/ Clear \/ Sweep \/ ConvertTwin \/ Begin \/ Defer \/ Fetch
            \/ Crash \/ Interrupt \/ (\E b \in Bytes : Publish(b))
            \/ (\E c \in LocalEdits : Edit(c) \/ Damage(c))
  <2>1. row' = row
    BY <1>12 DEF FindNothing, FindPending, FindStale, RetryStale, RetryInstall, Discard,
         CheckChanged, Serve, WriteMarker, Preserve, Certify, Install, Commit, Clear, Sweep,
         ConvertTwin, Begin, Defer, Fetch, Crash, Interrupt, Publish, Edit, Damage
  <2>2. QED
    BY <2>1, <1>11
<1>13. QED
  BY <1>5, <1>6, <1>7, <1>8, <1>9, <1>10, <1>11, <1>12
     DEF vars, Next, Program, Pending, Download, InstallPart, Convert, Command, Environment

\* A newer revision takes nothing from what the older ones were.
LEMMA PublishedStays ==
    ASSUME Counted, NEW b \in Bytes, remote' = Append(remote, b)
    PROVE  /\ Published \subseteq Published'
           /\ \A n \in Published : remote'[n] = remote[n]
  BY DEF Counted, Published

LEMMA DatesNext ==
    ASSUME Typed, Counted, Phases, DatesIssued, [Next]_vars
    PROVE  DatesIssued'
<1> USE DEF DatesIssued, DatesAreHonest
<1>s. /\ Latest \in Bytes /\ Len(remote) \in Published /\ Latest = remote[Len(remote)]
      /\ 1 \in Published
      /\ \A n \in Published : n \in Nat /\ Len(remote) >= n
  BY SiteTyped DEF Counted, Published, Latest
<1>d. \A form \in {"toc", "http"} :
            /\ Dated(form) # None <=> form \in site
            /\ Dated(form) # None => /\ Dated(form).form = form
                                     /\ Dated(form).at = Len(remote)
  BY NoneAssumption, BoundsAssumption DEF Dated, Date, Counted
<1>1. CASE Metadata
  <2>1. /\ UNCHANGED <<site, remote, manifest, marker>> /\ asked' = Len(remote)
        /\ pc' = "files"
    BY <1>1 DEF Metadata, world, store, Goto
  <2>2. row' # None /\ row'.date = Dated("toc")
    <3> DEFINE a == IF row = None THEN "metadata_only" ELSE row.availability
    <3>1. [date |-> Dated("toc"), availability |-> a] \in Row
      BY SiteTyped DEF Typed, Row, Availability
    <3>2. row' = Reconciled([date |-> Dated("toc"), availability |-> a])
      BY <1>1 DEF Metadata
    <3>3. QED
      BY <3>1, <3>2, ReconciledTyped, NoneAssumption
  <2>3. QED
    BY <1>s, <1>d, <2>1, <2>2 DEF Issued, DateIsHonest, Published
<1>2. ASSUME NEW b \in Bytes, Publish(b)  PROVE  DatesIssued'
  <2>1. /\ remote' = Append(remote, b)
        /\ UNCHANGED <<site, manifest, marker, row, pc, got, part, asked>>
    BY <1>2 DEF Publish, store, volatile, observed
  <2>2. Published \subseteq Published' /\ \A n \in Published : remote'[n] = remote[n]
    BY <2>1, PublishedStays
  <2>3. /\ row # None => Issued(row.date)'
        /\ manifest # None => Issued(manifest.date)'
        /\ marker # None => Issued(marker.date)'
    BY <2>1, <2>2 DEF Issued
  <2>4. pc = "downloaded" => Answered'
    BY <2>1, <2>2 DEF Answered
  <2>5. DatesAreHonest'
    <3>1. manifest # None => DateIsHonest(manifest.sha, manifest.date)'
      BY <2>1, <2>2 DEF Issued, DateIsHonest
    <3>2. marker # None => DateIsHonest(marker.sha, marker.date)'
      BY <2>1, <2>2 DEF Issued, DateIsHonest
    <3>3. QED
      BY <2>1, <3>1, <3>2
  <2>6. QED
    BY <2>1, <2>2, <2>3, <2>4, <2>5
<1>3. CASE Serve
  <2>1. /\ UNCHANGED <<site, remote, manifest, marker, row, asked>>
        /\ part' = Latest /\ got' = Dated("http")
    BY <1>3 DEF Serve, world, observed
  <2>2. row # None /\ row.date # None => Len(remote) >= row.date.at
    BY <1>s DEF Issued
  <2>3. got' # None => got'.at = Len(remote)
    BY <1>d, <2>1
  <2>4. row # None
    BY <1>3 DEF Serve, Phases
  <2>5. Answered'
    BY <1>s, <2>1, <2>2, <2>3, <2>4 DEF Answered, Published
  <2>6. QED
    BY <1>d, <2>1, <2>5 DEF Issued, DateIsHonest, Published
<1>4. CASE WriteMarker
  <2>1. /\ UNCHANGED <<site, remote, manifest, row, asked>> /\ pc' # "downloaded"
        /\ row # None /\ Answered /\ pc = "downloaded"
    BY <1>4 DEF WriteMarker, Goto, world, observed, Phases
  <2>2. marker' \in Marker /\ marker'.sha = part
    BY <1>4 DEF WriteMarker, FirstDate, Typed, Phases, Marker, Entry, Row
  <2>3. marker'.date = FirstDate(got, row.date, IF manifest = None THEN None
                                                ELSE manifest.date)
    BY <1>4 DEF WriteMarker
  <2>4. PICK n \in Published : /\ row.date # None => n >= row.date.at
                               /\ got # None => n = got.at
                               /\ part = remote[n]
    BY <2>1 DEF Answered
  <2>5. CASE got # None
    <3>1. marker'.date = got /\ got.form = "http" /\ got.at = n /\ "http" \in site
      BY <2>1, <2>3, <2>4, <2>5 DEF FirstDate
    <3>2. Issued(marker.date)' /\ DateIsHonest(marker.sha, marker.date)'
      BY <1>s, <2>1, <2>2, <2>4, <3>1 DEF Issued, DateIsHonest, Published
    <3>3. QED
      BY <2>1, <3>2 DEF Issued, DateIsHonest, Published
  <2>6. CASE got = None /\ row.date # None
    <3>1. marker'.date = row.date /\ row.date.form = "toc"
      BY <2>1, <2>3, <2>6 DEF FirstDate
    <3>2. Issued(marker.date)' /\ DateIsHonest(marker.sha, marker.date)'
      BY <2>1, <2>2, <2>4, <2>6, <3>1 DEF Issued, DateIsHonest, Published
    <3>3. QED
      BY <2>1, <3>2 DEF Issued, DateIsHonest, Published
  <2>7. CASE got = None /\ row.date = None
    <3>1. site \cap {"toc", "http"} = {}
      BY <2>1, <2>7
    <3>2. manifest # None => manifest.date = None
      <4>1. manifest # None /\ manifest.date # None => manifest.date.form \in {"toc", "http"}
        BY DEF Typed, Entry, Date
      <4>2. QED
        BY <3>1, <4>1 DEF Issued
    <3>3. marker'.date = None
      BY <2>3, <2>7, <3>2 DEF FirstDate
    <3>4. QED
      BY <2>1, <3>3 DEF Issued, DateIsHonest, Published
  <2>8. QED
    BY <2>5, <2>6, <2>7
<1>5. CASE Certify
  <2>1. /\ UNCHANGED <<site, remote, manifest, row, asked>> /\ pc' = "install"
    BY <1>5 DEF Certify, Goto, world, observed
  <2>2. marker # None /\ marker'.sha = marker.sha /\ marker'.date = marker.date
    BY <1>5 DEF Certify, Phases, Typed, Marker
  <2>3. QED
    BY <2>1, <2>2 DEF Issued, DateIsHonest, Published
<1>6. CASE Commit \/ ConvertTwin
  <2>1. /\ UNCHANGED <<site, remote, marker, row, asked>> /\ pc' \in {"row", "map"}
    BY <1>6 DEF Commit, ConvertTwin, Goto, world, observed
  <2>2. \/ marker # None /\ manifest'.sha = marker.sha /\ manifest'.date = marker.date
        \/ manifest # None /\ manifest'.sha = manifest.sha /\ manifest'.date = manifest.date
    BY <1>6 DEF Commit, ConvertTwin, Matching, Phases, Typed, Entry
  <2>3. Issued(manifest'.date) /\ DateIsHonest(manifest'.sha, manifest'.date)
    BY <2>2
  <2>4. QED
    BY <2>1, <2>3 DEF Issued, DateIsHonest, Published
<1>7. ASSUME UNCHANGED <<site, remote, manifest>>, marker' \in {marker, None},
             asked' \in {asked, 1},
             pc' # "downloaded" \/ UNCHANGED <<pc, got, part, asked>>, ~Metadata
      PROVE  DatesIssued'
  <2>1. row' # None <=> row # None
    BY <1>7, RowDateKept
  <2>2. row # None => row'.date = row.date
    BY <1>7, RowDateKept
  <2>3. pc' = "downloaded" => row # None /\ Answered'
    BY <1>7, <2>1, <2>2 DEF Answered, Published, Phases
  <2>4. QED
    BY <1>s, <1>7, <2>1, <2>2, <2>3 DEF Issued, DateIsHonest, Published
<1>8. CASE \/ FindNothing \/ FindPending \/ FindStale \/ RetryCommitted \/ RetryStale
           \/ RetryInstall \/ CheckUnchanged \/ CheckChanged \/ NotModified \/ DownloadFails
           \/ Begin \/ Defer \/ Refuse \/ Fetch
  <2>1. UNCHANGED <<site, remote, manifest, marker>> /\ asked' \in {asked, 1}
        /\ pc' # "downloaded"
    BY <1>8 DEF FindNothing, FindPending, FindStale, RetryCommitted, RetryStale,
         RetryInstall, Discard, CheckUnchanged, CheckChanged, NotModified, DownloadFails,
         Begin, Defer, Refuse, Fetch, Return, Goto, world, store, observed
  <2>2. ~Metadata
    BY <1>8 DEF FindNothing, FindPending, FindStale, RetryCommitted, RetryStale,
         RetryInstall, Discard, CheckUnchanged, CheckChanged, NotModified, DownloadFails,
         Begin, Defer, Refuse, Fetch, Metadata, Goto
  <2>3. QED
    BY <1>7, <2>1, <2>2
<1>9. CASE \/ Preserve \/ Install \/ MarkRow \/ Clear \/ Sweep \/ ConvertFails
           \/ MapReady \/ Refresh \/ Crash \/ Interrupt \/ MetadataIncomplete
  <2>1. UNCHANGED <<site, remote, manifest>> /\ asked' \in {asked, 1}
        /\ marker' \in {marker, None} /\ (pc' # "downloaded")
    BY <1>9 DEF Preserve, Install, MarkRow, Clear, Sweep, ConvertFails, MapReady, Refresh,
         Crash, Interrupt, MetadataIncomplete, LeaveConversion, Return, Goto, world, store,
         volatile, observed, Typed
  <2>2. ~Metadata
    BY <1>9 DEF Preserve, Install, MarkRow, Clear, Sweep, ConvertFails, MapReady, Refresh,
         Crash, Interrupt, MetadataIncomplete, Metadata, Return, Goto
  <2>3. QED
    BY <1>7, <2>1, <2>2
<1>10. ASSUME NEW c \in LocalEdits, Edit(c) \/ Damage(c)  PROVE  DatesIssued'
  <2>1. /\ UNCHANGED <<site, remote, manifest, marker, asked, pc, got, row>>
        /\ part' = part \/ pc = "idle"
    BY <1>10 DEF Edit, Damage, world, volatile, observed
  <2>2. QED
    BY <2>1 DEF Answered, Issued, DateIsHonest, Published
<1>11. CASE UNCHANGED vars
  BY <1>11 DEF vars, world, store, volatile, observed, Answered, Issued, DateIsHonest, Published
<1>12. QED
  BY <1>1, <1>2, <1>3, <1>4, <1>5, <1>6, <1>8, <1>9, <1>10, <1>11
     DEF Next, Program, Pending, Download, InstallPart, Convert, Command, Environment

LEMMA DatesInit == Init => DatesIssued
<1> SUFFICES ASSUME Init PROVE DatesIssued
  OBVIOUS
<1>1. Counted
  BY ProtocolInit DEF IInv
<1>2. QED
  BY <1>1 DEF Init, Counted, DatesIssued, DatesAreHonest, Published

\* For any site, any revisions and any interruption, no date recorded beside
\* bytes claims more than they are.
THEOREM DatesAreHonestAlways == Spec => []DatesAreHonest
<1>1. IInv /\ DatesIssued /\ [Next]_vars => DatesIssued'
  BY DatesNext DEF IInv
<1>2. DatesIssued => DatesAreHonest
  BY DEF DatesIssued
<1>3. QED
  BY DatesInit, IInvAlways, <1>1, <1>2, PTL DEF Spec
-----------------------------------------------------------------------------
(* What a sync leaves *)

\* The bytes sha were the site's when the sync began, or since.
SinceListing(sha) == \E n \in Published : n >= asked /\ remote[n] = sha

\* On the way to a reported success the marker's bytes are recent enough, or
\* the student has the last word; a resumed install that is not is only the
\* prelude of a new request.
RecentEnough ==
    /\ served => pc \in {"convert", "map", "refresh"}
    /\ job = "sync" /\ pc # "idle" /\ row.date # None => row.date.at = asked
    /\ job = "sync" /\ pc = "retry" =>
            \/ SinceListing(marker.sha)
            \/ part = NoFile /\ (edited \/ InstalledMatches)
    /\ job = "sync" /\ after = "convert" /\ pc \in {"preserve", "certify", "install"} =>
            SinceListing(marker.sha) \/ (part = NoFile /\ edited)
    /\ job = "sync" /\ after = "convert" /\ pc = "commit" =>
            edited \/ SinceListing(marker.sha)
    /\ job = "sync" /\ after = "convert" /\ pc \in {"row", "clear", "sweep"} =>
            edited \/ (Matching /\ SinceListing(dest))
    /\ SyncIsCurrent

\* What equals the topic's date came with bytes of the listing, or newer ones.
LEMMA TopicDateIsRecent ==
    ASSUME Typed, Counted, DatesIssued, RecentEnough, job = "sync", pc # "idle",
           NEW sha, NEW date, row # None, MatchesTopic(date), DateIsHonest(sha, date)
    PROVE  SinceListing(sha)
<1>1. date # None /\ date = row.date /\ date.form = "toc" /\ date.at = asked
  BY DEF MatchesTopic, DatesIssued, RecentEnough
<1>2. PICK n \in Published : n >= date.at /\ remote[n] = sha
  BY <1>1 DEF DateIsHonest
<1>3. QED
  BY <1>1, <1>2 DEF SinceListing

LEMMA RecentNext ==
    ASSUME IInv, DatesIssued, RecentEnough, [Next]_vars
    PROVE  RecentEnough'
<1> USE DEF IInv, RecentEnough, SyncIsCurrent, SinceListing
<1> DEFINE Busy == {"retry", "preserve", "certify", "install", "commit", "row", "clear",
                    "sweep", "convert", "map", "refresh"}
<1>s. /\ asked \in Published /\ Len(remote) \in Published /\ Latest = remote[Len(remote)]
      /\ \A n \in Published : n \in Nat /\ Len(remote) >= n
  BY SiteTyped DEF Counted, Published, Latest, DatesIssued
<1>r. ~Metadata => /\ row' # None <=> row # None
                   /\ row # None => row'.date = row.date
  BY RowDateKept
<1>1. CASE Metadata
  <2>1. asked' = Len(remote) /\ pc' = "files" /\ served' = served /\ pc = "idle"
        /\ remote' = remote
    BY <1>1 DEF Metadata, Goto, volatile, world
  <2>2. row'.date = Dated("toc")
    <3> DEFINE a == IF row = None THEN "metadata_only" ELSE row.availability
    <3>1. [date |-> Dated("toc"), availability |-> a] \in Row
      BY SiteTyped DEF Typed, Row, Availability
    <3>2. row' = Reconciled([date |-> Dated("toc"), availability |-> a])
      BY <1>1 DEF Metadata
    <3>3. QED
      BY <3>1, <3>2, ReconciledTyped
  <2>3. row'.date # None => row'.date.at = Len(remote)
    BY <2>2 DEF Dated
  <2>4. QED
    BY <2>1, <2>3
\* A step to a place that promises nothing yet.
<1>2. ASSUME ~Metadata, ~served', pc' \notin Busy, pc' = "idle" \/ pc # "idle",
             UNCHANGED <<job, asked>> \/ pc' = "idle"
      PROVE  RecentEnough'
  BY <1>2, <1>r DEF Phases
<1>3. CASE FindNothing \/ CheckChanged \/ Serve \/ Begin
  <2>1. /\ ~Metadata /\ ~served /\ served' = served /\ pc' \notin Busy /\ pc # "idle"
        /\ UNCHANGED <<job, asked>>
    BY <1>3 DEF FindNothing, CheckChanged, Serve, Begin, Metadata, Goto, volatile, observed
  <2>2. QED
    BY <1>2, <2>1
<1>4. CASE Crash \/ Refresh
  <2>1. /\ ~Metadata /\ ~served' /\ pc' = "idle"
    BY <1>4 DEF Crash, Refresh, Metadata, Return
  <2>2. QED
    BY <1>2, <2>1
<1>5. CASE Fetch
  <2>1. job' = "fetch" /\ pc' = "find" /\ served' = served /\ pc = "idle"
    BY <1>5 DEF Fetch, Goto
  <2>2. QED
    BY <2>1
<1>6. CASE MetadataIncomplete
  BY <1>6 DEF MetadataIncomplete, volatile, observed
<1>7. CASE Defer \/ Refuse \/ Interrupt
  <2>1. /\ ~Metadata /\ ~served' /\ pc' = "convert" /\ pc # "idle"
        /\ UNCHANGED <<job, asked>>
    BY <1>7 DEF Defer, Refuse, Interrupt, Metadata, Goto, volatile, observed
  <2>2. QED
    BY <2>1, <1>r DEF Phases
<1>8. CASE DownloadFails
  <2>1. /\ ~Metadata /\ ~served' /\ pc # "idle"
        /\ \/ pc' = "idle"
           \/ pc' = "convert" /\ UNCHANGED <<job, asked>>
    BY <1>8 DEF DownloadFails, Metadata, Return, Goto
  <2>2. QED
    BY <2>1, <1>r DEF Phases
<1>9. CASE FindPending
  <2>1. /\ ~Metadata /\ ~served' /\ pc' = "retry" /\ pc # "idle" /\ marker # None
        /\ UNCHANGED <<job, asked, remote, marker, part, edited, dest, row>>
        /\ InstalledMatches \/ PartMatches
    BY <1>9 DEF FindPending, Metadata, Goto, world, store, volatile, observed
  <2>2. CASE InstalledMatches
    BY <2>1, <2>2 DEF InstalledMatches
  <2>3. CASE PartMatches
    <3>1. job = "sync" => SinceListing(marker.sha)
      BY <2>1, <2>3, TopicDateIsRecent DEF PartMatches, Phases, DatesIssued, DatesAreHonest
    <3>2. QED
      BY <2>1, <3>1 DEF Published
  <2>4. QED
    BY <2>1, <2>2, <2>3
<1>10. CASE FindStale \/ RetryStale
  <2>1. /\ ~served' /\ pc' = "clear" /\ after' = "check" /\ pc # "idle"
        /\ UNCHANGED <<job, asked, row>>
    BY <1>10 DEF FindStale, RetryStale, Discard, Goto, observed
  <2>2. QED
    BY <2>1
<1>11. CASE RetryCommitted
  <2>1. /\ ~Metadata /\ ~served' /\ pc' = "clear" /\ after' = "check" /\ pc # "idle"
        /\ UNCHANGED <<job, asked>>
    BY <1>11 DEF RetryCommitted, Metadata, Goto, observed
  <2>2. QED
    BY <2>1, <1>r DEF Phases
<1>12. CASE RetryInstall
  <2>1. /\ ~served' /\ pc' \in {"install", "preserve"} /\ pc = "retry" /\ marker # None
        /\ UNCHANGED <<job, asked, row, remote, marker, part, edited>>
        /\ after' = "convert" => ~InstalledMatches \/ MatchesTopic(marker.date)
    BY <1>12 DEF RetryInstall, Goto, world, store, observed, Phases
  <2>2. CASE MatchesTopic(marker.date)
    <3>1. job = "sync" => SinceListing(marker.sha)
      BY <2>1, <2>2, TopicDateIsRecent DEF Phases, DatesIssued, DatesAreHonest
    <3>2. QED
      BY <2>1, <3>1 DEF Published
  <2>3. CASE ~MatchesTopic(marker.date)
    BY <2>1, <2>3 DEF Published
  <2>4. QED
    BY <2>2, <2>3
<1>13. CASE CheckUnchanged
  <2>1. /\ ~Metadata /\ pc' = "convert" /\ pc # "idle" /\ Unchanged
        /\ UNCHANGED <<job, asked, remote, manifest, dest, edited>>
    BY <1>13 DEF CheckUnchanged, Metadata, Goto, world, store, observed
  <2>2. job = "sync" => Matching /\ SinceListing(dest)
    <3>1. manifest # None /\ dest = manifest.sha /\ MatchesTopic(manifest.date)
      BY <2>1 DEF Unchanged, Matching
    <3>2. DateIsHonest(manifest.sha, manifest.date) /\ row # None
      BY <2>1, <3>1 DEF DatesIssued, DatesAreHonest, Phases
    <3>3. job = "sync" => SinceListing(manifest.sha)
      BY <2>1, <3>1, <3>2, TopicDateIsRecent
    <3>4. QED
      BY <3>1, <3>3 DEF Matching
  <2>3. QED
    BY <2>1, <2>2, <1>r DEF Matching, Published, Phases
<1>14. CASE NotModified
  <2>1. /\ ~Metadata /\ pc = "download"
        /\ UNCHANGED <<job, asked, remote, manifest, dest, edited>>
        /\ manifest.date = Dated("http") /\ manifest.date # None
        /\ \/ pc' = "convert" /\ Matching
           \/ pc' = pc /\ served' = served
    BY <1>14 DEF NotModified, Metadata, Goto, world, store, observed
  <2>2. CASE pc' = "convert" /\ Matching
    <3>1. Dated("http").form = "http" /\ Dated("http").at = Len(remote)
      BY <2>1 DEF Dated
    <3>2. remote[Len(remote)] = manifest.sha
      BY <2>1, <2>2, <3>1 DEF DatesIssued, DatesAreHonest, DateIsHonest, Matching
    <3>3. Matching /\ SinceListing(dest)
      BY <1>s, <2>2, <3>2 DEF Matching
    <3>4. QED
      BY <2>1, <2>2, <3>3, <1>r DEF Matching, Published, Phases
  <2>3. CASE pc' = pc /\ served' = served
    BY <2>1, <2>3, <1>r DEF Phases
  <2>4. QED
    BY <2>1, <2>2, <2>3
<1>15. CASE WriteMarker
  <2>1. /\ ~served' /\ pc' \in {"preserve", "install"} /\ pc = "downloaded"
        /\ UNCHANGED <<job, asked, row, remote>>
    BY <1>15 DEF WriteMarker, Goto, world, volatile, observed
  <2>2. marker'.sha = part
    BY <1>15 DEF WriteMarker
  <2>3. SinceListing(part)
    BY <2>1 DEF DatesIssued, Answered
  <2>4. QED
    BY <2>1, <2>2, <2>3 DEF Published
<1>16. CASE Preserve
  <2>1. /\ ~served' /\ pc = "preserve" /\ UNCHANGED <<row, remote, marker, part, edited>>
        /\ pc' = "idle" \/ (pc' = "certify" /\ UNCHANGED <<job, asked, after>>)
    BY <1>16 DEF Preserve, Goto, Return, world, volatile
  <2>2. QED
    BY <2>1 DEF Published
<1>17. CASE Certify
  <2>1. /\ ~served' /\ pc = "certify" /\ UNCHANGED <<row, remote, part, edited>>
        /\ pc' = "install" /\ UNCHANGED <<job, asked, after>>
    BY <1>17 DEF Certify, Goto, world, volatile, observed
  <2>2. marker'.sha = marker.sha
    BY <1>17 DEF Certify, Phases, Typed, Marker
  <2>3. QED
    BY <2>1, <2>2 DEF Published
<1>18. CASE Install
  <2>1. /\ ~served' /\ pc = "install" /\ UNCHANGED <<row, remote, marker>>
        /\ pc' = "commit" /\ UNCHANGED <<job, asked, after>>
        /\ part = NoFile => edited' = edited
    BY <1>18 DEF Install, Goto, world, volatile
  <2>2. QED
    BY <2>1 DEF Published
<1>19. CASE Commit
  <2>1. /\ ~served' /\ pc = "commit" /\ UNCHANGED <<row, remote, dest, edited>>
        /\ pc' = "row" /\ UNCHANGED <<job, asked, after>>
    BY <1>19 DEF Commit, Goto, world, volatile
  <2>2. manifest' # None /\ manifest'.sha = marker.sha
    <3>1. manifest' \in Entry
      BY <1>19, BytesAssumption DEF Commit, Typed, Phases, Marker, Entry
    <3>2. QED
      BY <1>19, <3>1, NoneAssumption DEF Commit
  <2>3. edited \/ dest = marker.sha
    BY <2>1 DEF Protocol, PartInstalled
  <2>4. QED
    BY <2>1, <2>2, <2>3 DEF Matching, Published
<1>20. CASE MarkRow \/ Clear
  <2>1. /\ ~Metadata /\ ~served' /\ pc \in {"row", "clear"} /\ pc' \in {"clear", "sweep"}
        /\ UNCHANGED <<job, asked, after, remote, manifest, dest, edited>>
    BY <1>20 DEF MarkRow, Clear, Metadata, Goto, world, store, volatile, observed
  <2>2. QED
    BY <2>1, <1>r DEF Matching, Published, Phases
<1>21. CASE Sweep
  <2>1. /\ pc = "sweep" /\ pc' = after /\ served' = (after = "convert")
        /\ UNCHANGED <<job, asked, remote, manifest, dest, edited, row>>
    BY <1>21 DEF Sweep, Goto, world, observed
  <2>2. CASE after = "convert"
    BY <2>1, <2>2 DEF Matching, Published
  <2>3. CASE after = "check"
    BY <2>1, <2>3
  <2>4. QED
    BY <2>2, <2>3 DEF Typed
<1>22. CASE ConvertFails \/ MapReady
  <2>1. /\ ~Metadata /\ pc \in {"convert", "map"}
        /\ UNCHANGED <<remote, manifest, dest, edited>>
        /\ \/ pc' = "refresh" /\ UNCHANGED <<job, asked, served>>
           \/ pc' = "idle" /\ ~served'
    BY <1>22 DEF ConvertFails, MapReady, Metadata, LeaveConversion, Return, Goto, world,
         store, volatile
  <2>2. QED
    BY <2>1, <1>r DEF Matching, Published, Phases
<1>23. CASE ConvertTwin
  <2>1. /\ pc = "convert" /\ pc' = "map"
        /\ UNCHANGED <<job, asked, served, remote, dest, edited, row>>
    BY <1>23 DEF ConvertTwin, Goto, world, volatile, observed
  <2>2. manifest # None /\ manifest' # None /\ manifest'.sha = manifest.sha
    BY <1>23, NoneAssumption DEF ConvertTwin, Matching, Typed, Entry
  <2>3. QED
    BY <2>1, <2>2 DEF Matching, Published
<1>24. ASSUME NEW b \in Bytes, Publish(b)  PROVE  RecentEnough'
  <2>1. /\ remote' = Append(remote, b)
        /\ UNCHANGED <<manifest, dest, part, marker, row, pc, job, after, served, asked, edited>>
    BY <1>24 DEF Publish, store, volatile, observed
  <2>2. Published \subseteq Published' /\ \A n \in Published : remote'[n] = remote[n]
    BY <2>1, PublishedStays
  <2>3. SinceListing(marker.sha) => SinceListing(marker.sha)'
    BY <2>1, <2>2
  <2>4. SinceListing(dest) => SinceListing(dest)'
    BY <2>1, <2>2
  <2>5. SyncIsCurrent'
    BY <2>1, <2>2 DEF Matching
  <2>6. QED
    BY <2>1, <2>3, <2>4, <2>5 DEF Matching, InstalledMatches
<1>25. ASSUME NEW c \in LocalEdits, Edit(c)  PROVE  RecentEnough'
  <2>1. /\ edited' /\ UNCHANGED <<remote, marker, part, row, pc, job, after, served, asked>>
    BY <1>25 DEF Edit, world, volatile
  <2>2. QED
    BY <2>1 DEF Published, InstalledMatches
<1>26. ASSUME NEW c \in LocalEdits, Damage(c)  PROVE  RecentEnough'
  <2>1. pc = "idle" /\ UNCHANGED <<pc, served>>
    BY <1>26 DEF Damage, volatile
  <2>2. QED
    BY <2>1
<1>27. CASE UNCHANGED vars
  BY <1>27 DEF vars, world, store, volatile, observed, Matching, InstalledMatches, Published
<1>28. QED
  BY <1>1, <1>3, <1>4, <1>5, <1>6, <1>7, <1>8, <1>9, <1>10, <1>11, <1>12, <1>13, <1>14,
     <1>15, <1>16, <1>17, <1>18, <1>19, <1>20, <1>21, <1>22, <1>23, <1>24, <1>25, <1>26, <1>27
     DEF Next, Program, Pending, Download, InstallPart, Convert, Command, Environment

\* Whichever of the five ways a sync took to report a topic as taken, and
\* whatever was pending before it, the source is as new as its listing.
THEOREM SyncIsCurrentAlways == Spec => []SyncIsCurrent
<1>1. Init => RecentEnough
  BY DEF Init, RecentEnough, SyncIsCurrent
<1>2. IInv /\ DatesIssued /\ [Next]_vars => DatesIssued'
  BY DatesNext DEF IInv
<1>3. IInv /\ DatesIssued /\ RecentEnough /\ [Next]_vars => RecentEnough'
  BY RecentNext
<1>4. RecentEnough => SyncIsCurrent
  BY DEF RecentEnough
<1>5. QED
  BY DatesInit, IInvAlways, <1>1, <1>2, <1>3, <1>4, PTL DEF Spec
=============================================================================
