----------------------- MODULE GeneratedRevisionProofs -----------------------
(***************************************************************************)
(* Proofs about GeneratedRevision, for any contents, any pairs the site    *)
(* yields, any edits and any number of crashes.                            *)
(***************************************************************************)
EXTENDS GeneratedRevision, TLAPS

\* What is archived, or would be if c were.
Archived(c) == HistorySources \cup {c}

\* In the phases between a caller's decision and its journal the process has
\* read the manifest and nothing is journaled.
Installing == {"plan", "fingerprint", "preserve source", "preserve twin",
               "directory", "stage"}

Phases ==
    /\ pending \/ journal = None
    /\ pc # "idle" => mem # Unloaded
    /\ pc \in Installing => journal = None /\ goal # None
    /\ pc = "stage" => pending
    /\ pc \in {"install", "replace"} => journal # None
    /\ pc = "cleanup" /\ journal # None =>
            manifest = journal.entry /\ mem = journal.entry
    /\ goal # None => pc \in Installing \cup {"scan", "install", "replace",
                                              "cleanup"}
    /\ pc = "fingerprint" /\ preserve => mem # None
    /\ pc \in {"preserve source", "convert"} => mem # None
    /\ pc = "preserve twin" => mem # None /\ saving \in Contents

\* Memory and disk agree on the source unless a transaction is between them.
MemoryAgrees ==
    /\ journal # None =>
            Source(manifest) \in {Source(journal.prior), Source(journal.entry)}
    /\ mem # Unloaded =>
            \/ Source(mem) = Source(manifest)
            \/ journal # None /\ Source(mem) = Source(journal.entry)

\* A captured source that is not archived is the recorded one, on disk and in
\* memory; a live recovery is about to install the only exception.
CapturedRecorded ==
    /\ captured \subseteq Archived(dest["source"])
    /\ captured \subseteq Archived(Source(manifest))
    /\ mem # Unloaded => captured \subseteq Archived(Source(mem))
    /\ pc \in {"install", "replace"} =>
            captured \subseteq Archived(Source(journal.entry))

\* The bytes a journal is about to replace have been archived if they are the
\* recorded revision of another source.
PriorArchived ==
    /\ pc = "fingerprint" /\ mem # None /\ Source(mem) # goal["source"] =>
            preserve
    /\ pc = "preserve twin" => saving = Source(mem)
    /\ pc \in {"directory", "stage"} /\ mem # None
          /\ Source(mem) # goal["source"] /\ before["source"] = Source(mem) =>
            Source(mem) \in HistorySources
    /\ journal # None /\ journal.prior # None
          /\ Source(journal.prior) # Source(journal.entry)
          /\ journal.before["source"] = Source(journal.prior) =>
            Source(journal.prior) \in HistorySources

IInv == TypeOK /\ Phases /\ MemoryAgrees /\ CapturedRecorded /\ PriorArchived
-----------------------------------------------------------------------------
(* Type correctness *)

LEMMA TypeInit == Init => WellTyped /\ Phases
  BY DEF Init, WellTyped, Nothing, PCs, Phases, Installing, File

\* Only the bounded environment touches the two rest.
LEMMA BoundsInit == Init => WithinBounds
  BY BoundsAssumption DEF Init, WithinBounds

LEMMA BoundsNext == WithinBounds /\ [Next]_vars => WithinBounds'
<1> SUFFICES ASSUME WithinBounds, [Next]_vars
             PROVE  WithinBounds'
  OBVIOUS
<1> DEFINE Idle == UNCHANGED rest
<1>b. MaxFaults[kind] \in Nat /\ MaxEdits \in Nat
  BY BoundsAssumption DEF WithinBounds
<1>1. ASSUME NEW r \in Remote, Sync(r)  PROVE  Idle
  BY <1>1 DEF Sync
<1>2. CASE Recover
  <2>1. Idle
    BY <1>2 DEF Recover, ScanNothing, ScanAbandoned, ScanJournal, Recheck,
         Replace, Commit, RemoveFile, RemoveDirectory
  <2>2. QED
    BY <2>1 DEF WithinBounds, rest
<1>3. CASE Install
  <2>1. Idle
    BY <1>3 DEF Install, Plan, Fingerprint, PreserveSource, PreserveTwin,
         MakeDirectory, StagePart, WriteJournal
  <2>2. QED
    BY <2>1 DEF WithinBounds, rest
<1>4. CASE Convert \/ SaveOther \/ Exit
  <2>1. Idle
    BY <1>4 DEF Convert, ConvertTwin, RecordConversion, SaveOther, Exit
  <2>2. QED
    BY <2>1 DEF WithinBounds, rest
<1>5. CASE CommitFails \/ IOFailure \/ Crash
  <2>1. /\ faults < MaxFaults[kind] /\ faults' = faults + 1
        /\ edits' = edits /\ kind' = kind
    BY <1>5 DEF CommitFails, IOFailure, Crash
  <2>2. QED
    BY <2>1, <1>b DEF WithinBounds
<1>6. ASSUME NEW f \in File, NEW c \in LocalEdits, Edit(f, c) \/ Damage(f, c)
      PROVE  WithinBounds'
  <2>1. /\ edits < MaxEdits /\ edits' = edits + 1
        /\ faults' = faults /\ kind' = kind
    BY <1>6 DEF Edit, Damage
  <2>2. QED
    BY <2>1, <1>b DEF WithinBounds
<1>7. CASE UNCHANGED vars
  BY <1>7 DEF vars, rest, WithinBounds
<1>8. QED
  BY <1>1, <1>2, <1>3, <1>4, <1>5, <1>6, <1>7
     DEF Next, Environment, WithinBounds, rest

LEMMA TypeNext == WellTyped /\ Phases /\ [Next]_vars => WellTyped'
<1> SUFFICES ASSUME WellTyped, Phases, [Next]_vars
             PROVE  WellTyped'
  OBVIOUS
<1>1. ASSUME NEW r \in Remote, Sync(r)
      PROVE  WellTyped'
  BY <1>1, RemoteAssumption, UnloadedAssumption, NoneAssumption DEF Sync,
       Goto, disk, volatile, observed, rest, WellTyped, PCs, Phases,
       Installing, Journal, Entry, Known, File, Tool, Recorded
<1>2. CASE ScanNothing
  BY <1>2 DEF ScanNothing, AfterRecovery, Return, Goto, disk, volatile,
       observed, rest, WellTyped, PCs, Phases, Installing, Nothing
<1>3. CASE ScanAbandoned
  BY <1>3 DEF ScanAbandoned, Return, Goto, disk, volatile, observed, rest,
       WellTyped, PCs, Phases, Installing, Nothing
<1>4. CASE ScanJournal
  BY <1>4 DEF ScanJournal, Return, Goto, disk, volatile, observed, rest,
       WellTyped, PCs, Phases, Installing, Journal, Entry, Nothing
<1>5. CASE Recheck
  <2>1. /\ UNCHANGED <<disk, mem, observed>>
        /\ \/ pc' = "replace" /\ UNCHANGED volatile
           \/ Return
    BY <1>5 DEF Recheck, Goto
  <2>2. QED
    BY <2>1 DEF Return, disk, volatile, observed, WellTyped, PCs, Nothing
<1>6. CASE Replace
  <2>1. UNCHANGED <<manifest, pending, part, journal, leftover, history, mem,
                    captured, notes>>
    BY <1>6 DEF Replace, rest
  <2>2. /\ dest' \in [File -> Contents \cup {NoFile}]
        /\ edited' \subseteq File
    BY <1>6 DEF Replace, Return, NextStaged, WellTyped, File
  <2>3. /\ pc' \in PCs
        /\ goal' \in [File -> Contents] \cup {None}
        /\ preserve' \in BOOLEAN
        /\ before' \in [File -> Contents \cup {NoFile}]
        /\ saving' \in Contents \cup {NoFile}
        /\ staged' \subseteq File
    BY <1>6 DEF Replace, Return, Goto, WellTyped, PCs, Nothing
  <2>4. QED
    BY <2>1, <2>2, <2>3 DEF WellTyped
<1>7. CASE Commit
  BY <1>7, NoneAssumption DEF Commit, Record, Goto, disk, volatile, observed,
       rest, WellTyped, PCs, Phases, Installing, Journal, Entry
<1>8. CASE RemoveFile
  BY <1>8 DEF RemoveFile, disk, volatile, observed, rest, WellTyped, PCs,
       Phases, Installing
<1>9. CASE RemoveDirectory
  BY <1>9 DEF RemoveDirectory, AfterRecovery, Return, Goto, disk, volatile,
       observed, rest, WellTyped, PCs, Phases, Installing, Nothing
<1>10. CASE Plan
  <2>1. NeedsPreservation \in BOOLEAN
    BY DEF NeedsPreservation
  <2>2. QED
    BY <1>10, <2>1 DEF Plan, Return, Goto, disk, volatile, observed, rest,
       WellTyped, PCs, Nothing
<1>11. CASE Fingerprint
  BY <1>11 DEF Fingerprint, Goto, disk, volatile, observed, rest, WellTyped,
       PCs, Phases, Installing
<1>12. CASE PreserveSource
  BY <1>12, NoneAssumption, UnloadedAssumption, ContentsAssumption DEF
       PreserveSource, Return, Goto, disk, volatile, observed, rest,
       WellTyped, PCs, Phases, Installing, Recorded, Known, Nothing, Entry, File
<1>13. CASE PreserveTwin
  <2>1. [source |-> saving, twin |-> dest["twin"]] \in
            [source : Contents, twin : Contents \cup {NoFile}]
    BY <1>13 DEF PreserveTwin, Phases, WellTyped, File
  <2>2. history' \subseteq [source : Contents, twin : Contents \cup {NoFile}]
    BY <1>13, <2>1 DEF PreserveTwin, WellTyped
  <2>3. QED
    BY <1>13, <2>2 DEF PreserveTwin, Goto, volatile, observed, rest,
         WellTyped, PCs
<1>14. CASE MakeDirectory
  BY <1>14 DEF MakeDirectory, Goto, disk, volatile, observed, rest, WellTyped,
       PCs, Phases, Installing
<1>15. CASE StagePart
  BY <1>15, NoneAssumption DEF StagePart, NextPart, disk, volatile, observed,
       rest, WellTyped, PCs, Phases, Installing, File
<1>16. CASE WriteJournal
  <2>1. Known \in Entry \cup {None} /\ goal \in [File -> Contents]
    BY <1>16, UnloadedAssumption DEF WriteJournal, Phases, Installing,
         WellTyped, Known
  <2>2. [sha |-> goal, tool |-> "generator"] \in Entry
    BY <2>1 DEF Entry, Tool
  <2>3. journal' \in Journal
    BY <1>16, <2>1, <2>2 DEF WriteJournal, WellTyped, Journal
  <2>4. QED
    BY <1>16, <2>3 DEF WriteJournal, Goto, observed, rest, WellTyped, PCs,
         Nothing
<1>17. CASE ConvertTwin
  BY <1>17, ConvertedAssumption, NoneAssumption, UnloadedAssumption DEF
       ConvertTwin, Goto, disk, volatile, observed, rest, WellTyped, PCs,
       Phases, Installing, Journal, Entry, Known, File, Tool, Recorded,
       Modified
<1>18. CASE RecordConversion
  BY <1>18, ConvertedAssumption, NoneAssumption, UnloadedAssumption DEF
       RecordConversion, Record, Goto, disk, volatile, observed, rest,
       WellTyped, PCs, Phases, Installing, Journal, Entry, Known, File, Tool,
       Recorded
<1>19. CASE SaveOther
  BY <1>19, NoneAssumption DEF SaveOther, Record, disk, volatile, observed,
       rest, WellTyped, PCs, Phases, Installing, Journal, Entry
<1>20. CASE Exit
  BY <1>20 DEF Exit, disk, volatile, observed, rest, WellTyped, PCs, Phases,
       Installing
<1>21. CASE CommitFails
  BY <1>21, NoneAssumption DEF CommitFails, Return, disk,
       volatile, observed, rest, WellTyped, PCs, Phases, Installing, Journal,
       Entry, Nothing
<1>22. CASE IOFailure
  BY <1>22 DEF IOFailure, Return, disk, volatile, observed,
       rest, WellTyped, PCs, Phases, Installing, Nothing
<1>23. CASE Crash
  BY <1>23 DEF Crash, Return, disk, volatile, observed,
       rest, WellTyped, PCs, Phases, Installing, Nothing
<1>24. ASSUME NEW f \in File, NEW c \in LocalEdits, Edit(f, c)
      PROVE  WellTyped'
  <2>1. c \in Contents \cup {NoFile} /\ NoFile \in GeneratedTwins
    BY EditsAssumption DEF GeneratedTwins
  <2>2. /\ dest' \in [File -> Contents \cup {NoFile}]
        /\ edited' \subseteq File
    BY <1>24, <2>1 DEF Edit, WellTyped
  <2>3. captured' \subseteq Contents
    BY <1>24 DEF Edit, WellTyped
  <2>4. notes' \subseteq Contents
    BY <1>24, <2>1 DEF Edit, WellTyped
  <2>5. QED
    BY <1>24, <2>2, <2>3, <2>4 DEF Edit, volatile, WellTyped
<1>25. ASSUME NEW f \in File, NEW c \in LocalEdits, Damage(f, c)
      PROVE  WellTyped'
  BY <1>25, EditsAssumption DEF Damage, disk, volatile,
       observed, rest, WellTyped, PCs, Phases, Installing
<1>26. CASE UNCHANGED vars
  BY <1>26 DEF vars, disk, volatile, observed, rest, WellTyped, PCs, Phases, Installing
<1>27. QED
  BY <1>1, <1>2, <1>3, <1>4, <1>5, <1>6, <1>7, <1>8, <1>9, <1>10, <1>11, <1>12,
     <1>13, <1>14, <1>15, <1>16, <1>17, <1>18, <1>19, <1>20, <1>21, <1>22, <1>23, <1>24, <1>25, <1>26
  DEF Next, Recover, Install, Convert, Environment
-----------------------------------------------------------------------------
(* The phases of a call *)

\* After Return nothing of the call is left.
LEMMA ReturnPhases ==
    ASSUME Phases, Return, pending' \/ journal' = None
    PROVE  Phases'
  BY DEF Phases, Return, Installing

LEMMA PhasesNext == WellTyped /\ Phases /\ [Next]_vars => Phases'
<1> SUFFICES ASSUME WellTyped, Phases, [Next]_vars
             PROVE  Phases'
  OBVIOUS
<1>1. ASSUME NEW r \in Remote, Sync(r)  PROVE  Phases'
  BY <1>1, UnloadedAssumption, NoneAssumption DEF Sync, Goto, Known, disk,
       WellTyped, Phases, Installing
<1>2. CASE ScanNothing
  BY <1>2, ReturnPhases DEF ScanNothing, AfterRecovery, Goto, volatile, disk,
       Phases, Installing
<1>3. CASE ScanAbandoned
  BY <1>3, ReturnPhases DEF ScanAbandoned, Goto, volatile, disk, Phases,
       Installing
<1>4. CASE ScanJournal
  BY <1>4, ReturnPhases DEF ScanJournal, Goto, volatile, disk, Phases,
       Installing
<1>5. CASE Recheck
  BY <1>5, ReturnPhases DEF Recheck, Goto, volatile, disk, Phases, Installing
<1>6. CASE Replace
  BY <1>6, ReturnPhases DEF Replace, Goto, Phases, Installing
<1>7. CASE Commit
  BY <1>7, NoneAssumption, UnloadedAssumption DEF Commit, Record, Goto,
       volatile, WellTyped, Journal, Phases, Installing
<1>8. CASE RemoveFile
  BY <1>8 DEF RemoveFile, volatile, Phases, Installing
<1>9. CASE RemoveDirectory
  BY <1>9, ReturnPhases DEF RemoveDirectory, AfterRecovery, Goto, volatile,
       Phases, Installing
<1>10. CASE Plan
  <2>1. NeedsPreservation => Known # None
    BY DEF NeedsPreservation
  <2>2. QED
    BY <1>10, <2>1, ReturnPhases DEF Plan, Goto, disk, Known, Phases,
       Installing
<1>11. CASE Fingerprint
  BY <1>11 DEF Fingerprint, Goto, disk, Phases, Installing
<1>12. CASE PreserveSource
  <2>1. mem \in Entry
    BY <1>12 DEF PreserveSource, Phases, Installing, WellTyped
  <2>2. Recorded(Known)["source"] \in Contents
    BY <2>1, NoneAssumption, UnloadedAssumption DEF Known, Recorded, Entry,
         File
  <2>3. QED
    BY <1>12, <2>2, ReturnPhases DEF PreserveSource, Goto, volatile, disk,
         Phases, Installing
<1>13. CASE PreserveTwin
  BY <1>13 DEF PreserveTwin, Goto, volatile, Phases, Installing
<1>14. CASE MakeDirectory
  BY <1>14 DEF MakeDirectory, Goto, volatile, Phases, Installing
<1>15. CASE StagePart
  BY <1>15 DEF StagePart, volatile, Phases, Installing
<1>16. CASE WriteJournal
  BY <1>16 DEF WriteJournal, Goto, Phases, Installing
<1>17. CASE ConvertTwin
  BY <1>17, UnloadedAssumption DEF ConvertTwin, Goto, volatile, Known,
       WellTyped, Phases, Installing
<1>18. CASE RecordConversion
  BY <1>18 DEF RecordConversion, Record, Goto, volatile, Phases, Installing
<1>19. CASE SaveOther
  BY <1>19 DEF SaveOther, Record, volatile, Phases, Installing
<1>20. CASE Exit
  BY <1>20 DEF Exit, volatile, disk, Phases, Installing
<1>21. CASE CommitFails
  BY <1>21, ReturnPhases DEF CommitFails, disk, Phases
<1>22. CASE IOFailure
  BY <1>22, ReturnPhases DEF IOFailure, disk, Phases
<1>23. CASE Crash
  BY <1>23, ReturnPhases DEF Crash, Phases
<1>24. ASSUME NEW f \in File, NEW c \in LocalEdits, Edit(f, c)
      PROVE  Phases'
  BY <1>24 DEF Edit, volatile, Phases, Installing
<1>25. ASSUME NEW f \in File, NEW c \in LocalEdits, Damage(f, c)
      PROVE  Phases'
  BY <1>25 DEF Damage, volatile, Phases, Installing
<1>26. CASE UNCHANGED vars
  BY <1>26 DEF vars, disk, volatile, Phases, Installing
<1>27. QED
  BY <1>1, <1>2, <1>3, <1>4, <1>5, <1>6, <1>7, <1>8, <1>9, <1>10, <1>11,
     <1>12, <1>13, <1>14, <1>15, <1>16, <1>17, <1>18, <1>19, <1>20, <1>21,
     <1>22, <1>23, <1>24, <1>25, <1>26
     DEF Next, Recover, Install, Convert, Environment

\* The disk, the memory and the locals always hold what the code can put
\* there; an archived revision in particular always has its source.
THEOREM TypeCorrect == Spec => []TypeOK
<1>1. Init => WellTyped /\ Phases /\ WithinBounds
  BY TypeInit, BoundsInit
<1>2. WellTyped /\ Phases /\ WithinBounds /\ [Next]_vars =>
        (WellTyped /\ Phases /\ WithinBounds)'
  BY TypeNext, PhasesNext, BoundsNext
<1>3. WellTyped /\ WithinBounds => TypeOK
  BY DEF TypeOK
<1>4. QED
  BY <1>1, <1>2, <1>3, PTL DEF Spec
-----------------------------------------------------------------------------
(* The memory and the manifest *)

\* A conversion records the source it converted.
LEMMA ConversionKeepsSource ==
    ASSUME NEW e \in Entry
    PROVE  LET c == [sha |-> [e.sha EXCEPT !["twin"] = ConvertedTwin],
                     tool |-> "converter"]
           IN  c \in Entry /\ Source(c) = Source(e)
<1> DEFINE c == [sha |-> [e.sha EXCEPT !["twin"] = ConvertedTwin],
                 tool |-> "converter"]
<1>1. c \in Entry
  BY ConvertedAssumption DEF Entry, Tool
<1>2. e.sha \in [File -> Contents] /\ "source" \in File
  BY DEF Entry, File
<1>3. c.sha["source"] = e.sha["source"]
  BY <1>2
<1>4. QED
  BY <1>1, <1>3, NoneAssumption DEF Source, Recorded

LEMMA MemoryNext ==
    WellTyped /\ Phases /\ MemoryAgrees /\ [Next]_vars => MemoryAgrees'
<1> SUFFICES ASSUME WellTyped, Phases, MemoryAgrees, [Next]_vars
             PROVE  MemoryAgrees'
  OBVIOUS
<1>1. ASSUME NEW r \in Remote, Sync(r)  PROVE  MemoryAgrees'
  BY <1>1 DEF Sync, Known, disk, MemoryAgrees, Source, Recorded
<1>2. CASE Recover /\ ~Commit /\ ~RemoveFile
  <2>1. UNCHANGED <<manifest, mem, journal>>
    BY <1>2 DEF Recover, ScanNothing, ScanAbandoned, ScanJournal, Recheck,
         Replace, RemoveDirectory, disk
  <2>2. QED
    BY <2>1 DEF MemoryAgrees, Source, Recorded
<1>3. CASE Commit
  BY <1>3 DEF Commit, Record, MemoryAgrees, Source, Recorded
<1>4. CASE RemoveFile
  BY <1>4 DEF RemoveFile, Phases, MemoryAgrees, Source, Recorded
<1>5. CASE Install /\ ~WriteJournal
  <2>1. UNCHANGED <<manifest, mem, journal>>
    BY <1>5 DEF Install, Plan, Fingerprint, PreserveSource, PreserveTwin,
         MakeDirectory, StagePart, disk
  <2>2. QED
    BY <2>1 DEF MemoryAgrees, Source, Recorded
<1>6. CASE WriteJournal
  <2>1. Source(mem) = Source(manifest) /\ Known = mem
    BY <1>6 DEF WriteJournal, Phases, Installing, MemoryAgrees, Known
  <2>2. journal'.prior = mem /\ UNCHANGED <<manifest, mem>>
    BY <1>6, <2>1 DEF WriteJournal
  <2>3. QED
    BY <2>1, <2>2 DEF MemoryAgrees, Source, Recorded
<1>7. CASE ConvertTwin
  BY <1>7 DEF ConvertTwin, Known, MemoryAgrees, Source, Recorded
<1>8. CASE RecordConversion
  <2>1. mem \in Entry /\ Known = mem
    BY <1>8 DEF RecordConversion, Phases, WellTyped, Known
  <2>2. Source(mem') = Source(mem)
    BY <1>8, <2>1, ConversionKeepsSource DEF RecordConversion
  <2>3. manifest' = mem' /\ journal' = journal /\ mem # Unloaded
    BY <1>8, <2>1, UnloadedAssumption DEF RecordConversion, Record
  <2>4. QED
    BY <2>2, <2>3 DEF MemoryAgrees
<1>9. CASE SaveOther
  BY <1>9 DEF SaveOther, Record, MemoryAgrees, Source, Recorded
<1>10. CASE Exit
  BY <1>10 DEF Exit, disk, MemoryAgrees, Source, Recorded
<1>11. CASE CommitFails
  BY <1>11 DEF CommitFails, disk, Phases, MemoryAgrees, Source, Recorded
<1>12. CASE IOFailure \/ Crash
  BY <1>12 DEF IOFailure, Crash, disk, MemoryAgrees, Source, Recorded
<1>13. ASSUME NEW f \in File, NEW c \in LocalEdits, Edit(f, c) \/ Damage(f, c)
       PROVE  MemoryAgrees'
  BY <1>13 DEF Edit, Damage, MemoryAgrees, Source, Recorded
<1>14. CASE UNCHANGED vars
  BY <1>14 DEF vars, disk, MemoryAgrees, Source, Recorded
<1>15. QED
  BY <1>1, <1>2, <1>3, <1>4, <1>5, <1>6, <1>7, <1>8, <1>9, <1>10, <1>11,
     <1>12, <1>13, <1>14
     DEF Next, Recover, Install, Convert, Environment
-----------------------------------------------------------------------------
(* What is archived before a journal may replace it *)

LEMMA HistoryGrows ==
    ASSUME [Next]_vars
    PROVE  HistorySources \subseteq HistorySources'
<1>1. history \subseteq history'
  BY DEF Next, Sync, Recover, ScanNothing, ScanAbandoned, ScanJournal, Recheck,
       Replace, Commit, RemoveFile, RemoveDirectory, Install, Plan,
       Fingerprint, PreserveSource, PreserveTwin, MakeDirectory, StagePart,
       WriteJournal, Convert, ConvertTwin, RecordConversion, SaveOther, Exit,
       Environment, CommitFails, IOFailure, Crash, Edit, Damage, vars, disk
<1>2. QED
  BY <1>1 DEF HistorySources

LEMMA PriorNext ==
    WellTyped /\ Phases /\ PriorArchived /\ [Next]_vars => PriorArchived'
<1> SUFFICES ASSUME WellTyped, Phases, PriorArchived, [Next]_vars
             PROVE  PriorArchived'
  OBVIOUS
<1>h. HistorySources \subseteq HistorySources'
  BY HistoryGrows
<1>1. ASSUME NEW r \in Remote, Sync(r)  PROVE  PriorArchived'
  BY <1>1, <1>h DEF Sync, Goto, disk, PriorArchived
<1>2. CASE ScanNothing \/ RemoveDirectory
  BY <1>2, <1>h DEF ScanNothing, RemoveDirectory, AfterRecovery, Return, Goto,
       disk, PriorArchived
<1>3. CASE ScanAbandoned \/ ScanJournal \/ Recheck \/ Replace
  BY <1>3, <1>h DEF ScanAbandoned, ScanJournal, Recheck, Replace, Return, Goto,
       disk, PriorArchived
<1>4. CASE Commit \/ RemoveFile
  BY <1>4, <1>h DEF Commit, RemoveFile, Goto, PriorArchived
<1>5. CASE Plan
  <2>1. Known = mem
    BY <1>5 DEF Plan, Phases, Known
  <2>2. mem # None /\ Source(mem) # goal["source"] => NeedsPreservation
    BY <2>1 DEF NeedsPreservation, Source
  <2>3. QED
    BY <1>5, <1>h, <2>2 DEF Plan, Return, Goto, disk, PriorArchived
<1>6. CASE Fingerprint
  BY <1>6, <1>h DEF Fingerprint, Goto, disk, PriorArchived
<1>7. CASE PreserveSource
  <2>1. mem \in Entry /\ Known = mem
    BY <1>7 DEF PreserveSource, Phases, WellTyped, Known
  <2>2. Source(mem) \in Contents
    BY <2>1, NoneAssumption DEF Source, Recorded, Entry, File
  <2>3. before = Nothing => before["source"] # Source(mem)
    BY <2>2, ContentsAssumption DEF Nothing, File
  <2>4. QED
    BY <1>7, <1>h, <2>1, <2>3 DEF PreserveSource, Return, Goto, volatile, disk,
         Source, PriorArchived
<1>8. CASE PreserveTwin
  <2>1. Source(mem) \in HistorySources'
    <3>1. [source |-> saving, twin |-> dest["twin"]] \in history'
      BY <1>8 DEF PreserveTwin
    <3>2. saving \in HistorySources'
      BY <3>1 DEF HistorySources
    <3>3. QED
      BY <1>8, <3>2 DEF PreserveTwin, PriorArchived
  <2>2. QED
    BY <1>8, <1>h, <2>1 DEF PreserveTwin, Goto, volatile, PriorArchived
<1>9. CASE MakeDirectory \/ StagePart
  BY <1>9, <1>h DEF MakeDirectory, StagePart, Goto, volatile, PriorArchived
<1>10. CASE WriteJournal
  <2>1. Known = mem
    BY <1>10 DEF WriteJournal, Phases, Known
  <2>2. /\ journal'.prior = mem
        /\ Source(journal'.entry) = goal["source"]
        /\ journal'.before = before
        /\ pc' = "scan"
        /\ pc = "stage"
    <3>1. [sha |-> goal, tool |-> "generator"] \in Entry
      BY <1>10 DEF WriteJournal, Phases, Installing, WellTyped, Entry, Tool
    <3>2. QED
      BY <1>10, <2>1, <3>1, NoneAssumption
         DEF WriteJournal, Goto, Source, Recorded
  <2>3. QED
    BY <1>h, <2>2 DEF PriorArchived
<1>11. CASE ConvertTwin \/ RecordConversion \/ SaveOther \/ Exit
  BY <1>11, <1>h DEF ConvertTwin, RecordConversion, SaveOther, Exit, Goto,
       disk, PriorArchived
<1>12. CASE CommitFails \/ IOFailure \/ Crash
  BY <1>12, <1>h DEF CommitFails, IOFailure, Crash, Return, disk,
       PriorArchived
<1>13. ASSUME NEW f \in File, NEW c \in LocalEdits, Edit(f, c) \/ Damage(f, c)
       PROVE  PriorArchived'
  BY <1>13, <1>h DEF Edit, Damage, volatile, PriorArchived
<1>14. CASE UNCHANGED vars
  BY <1>14, <1>h DEF vars, volatile, disk, PriorArchived
<1>15. QED
  BY <1>1, <1>2, <1>3, <1>4, <1>5, <1>6, <1>7, <1>8, <1>9, <1>10, <1>11,
     <1>12, <1>13, <1>14
     DEF Next, Recover, Install, Convert, Environment
-----------------------------------------------------------------------------
(* Captured sources *)

\* Every step keeps what the invariant says of a captured source that is not
\* archived: it is on disk, in the manifest and in memory.
LEMMA CapturedNext == IInv /\ [Next]_vars => CapturedRecorded'
<1> SUFFICES ASSUME IInv, [Next]_vars
             PROVE  CapturedRecorded'
  OBVIOUS
<1> USE DEF IInv, TypeOK
<1>h. HistorySources \subseteq HistorySources'
  BY HistoryGrows
<1>1. ASSUME NEW r \in Remote, Sync(r)  PROVE  CapturedRecorded'
  BY <1>1, <1>h DEF Sync, Goto, Known, disk, observed, CapturedRecorded,
       Archived, Source, Recorded
<1>2. CASE ScanNothing \/ ScanAbandoned \/ RemoveFile \/ RemoveDirectory
  BY <1>2, <1>h DEF ScanNothing, ScanAbandoned, RemoveFile, RemoveDirectory,
       AfterRecovery, Return, Goto, disk, observed, CapturedRecorded,
       Archived, Source, Recorded
<1>3. CASE ScanJournal
  <2>1. UNCHANGED <<disk, mem, observed>>
    BY <1>3 DEF ScanJournal
  <2>2. CASE ~Recoverable(journal)
    BY <1>3, <2>1, <2>2, <1>h DEF ScanJournal, Return, disk, observed,
         CapturedRecorded, Archived, Source, Recorded
  <2>3. CASE Recoverable(journal)
    <3>1. captured \subseteq Archived(Source(journal.entry))
      <4> SUFFICES ASSUME NEW x \in captured, x \notin HistorySources
                   PROVE  x = Source(journal.entry)
        BY DEF Archived
      <4>1. x = dest["source"] /\ x = Source(manifest) /\ x # NoFile
        BY ContentsAssumption DEF CapturedRecorded, Archived, WellTyped
      <4>2. journal.entry # None /\ journal # None
        BY <1>3, NoneAssumption DEF ScanJournal, WellTyped, Journal
      <4>3. Source(journal.entry) = journal.entry.sha["source"]
        BY <4>2 DEF Source, Recorded
      <4>4. CASE manifest = journal.entry
        BY <4>1, <4>4
      <4>5. CASE manifest = journal.prior
        <5>1. journal.prior # None
          BY <4>1, <4>5 DEF Source, Recorded, Nothing, File
        <5>2. dest["source"] \in {journal.before["source"],
                                  journal.entry.sha["source"]}
          BY <2>3 DEF Recoverable, File
        <5>3. QED
          BY <4>1, <4>2, <4>3, <4>5, <5>1, <5>2 DEF PriorArchived
      <4>6. QED
        BY <2>3, <4>4, <4>5 DEF Recoverable
    <3>2. QED
      BY <2>1, <3>1, <1>h DEF disk, observed, CapturedRecorded, Archived,
           Source, Recorded
  <2>4. QED
    BY <2>2, <2>3
<1>4. CASE Recheck
  BY <1>4, <1>h DEF Recheck, Return, Goto, disk, observed, CapturedRecorded,
       Archived, Source, Recorded
<1>5. CASE Replace
  <2>1. /\ UNCHANGED <<manifest, journal, mem, captured>>
        /\ pc' \in {"install", "idle"}
        /\ captured \subseteq Archived(Source(journal.entry))
    BY <1>5 DEF Replace, Return, Goto, CapturedRecorded
  <2>2. journal.entry # None
    BY <1>5, NoneAssumption DEF Replace, Phases, WellTyped, Journal
  <2>3. dest'["source"] \in {dest["source"], Source(journal.entry)}
    BY <1>5, <2>2 DEF Replace, WellTyped, Source, Recorded, File, NextStaged
  <2>4. captured' \subseteq Archived(dest["source"])'
    BY <1>h, <2>1, <2>3 DEF CapturedRecorded, Archived
  <2>5. QED
    BY <1>5, <1>h, <2>1, <2>4 DEF Replace, CapturedRecorded, Archived, Source,
         Recorded
<1>6. CASE Commit
  <2>1. journal.entry # None
    BY <1>6, NoneAssumption DEF Commit, Phases, WellTyped, Journal
  <2>2. /\ captured \subseteq Archived(Source(journal.entry))
        /\ captured' \subseteq
              captured \cup ({Source(journal.entry)} \cap {dest["source"]})
        /\ manifest' = journal.entry /\ mem' = journal.entry
        /\ dest' = dest /\ pc' = "cleanup"
    BY <1>6, <2>1 DEF Commit, Record, Goto, CapturedRecorded, Source, Recorded
  <2>3. Source(manifest)' = Source(journal.entry) /\
        Source(mem)' = Source(journal.entry)
    BY <2>2 DEF Source, Recorded
  <2>4. QED
    BY <1>h, <2>2, <2>3 DEF CapturedRecorded, Archived
<1>7. CASE Install
  <2>1. UNCHANGED <<manifest, dest, mem, captured>>
    BY <1>7 DEF Install, Plan, Fingerprint, PreserveSource, PreserveTwin,
         MakeDirectory, StagePart, WriteJournal, disk, observed
  <2>2. pc' \notin {"install", "replace"}
    BY <1>7 DEF Install, Plan, Fingerprint, PreserveSource, PreserveTwin,
         MakeDirectory, StagePart, WriteJournal, Return, Goto
  <2>3. QED
    BY <1>h, <2>1, <2>2 DEF CapturedRecorded, Archived, Source, Recorded
<1>8. CASE ConvertTwin
  <2>1. /\ UNCHANGED <<manifest, captured>>
        /\ mem' = Known /\ pc' = "convert"
        /\ dest'["source"] = dest["source"]
    BY <1>8 DEF ConvertTwin, Goto, WellTyped, File
  <2>2. QED
    BY <1>h, <2>1 DEF CapturedRecorded, Archived, Known, Source, Recorded
<1>9. CASE RecordConversion
  <2>1. mem \in Entry /\ Known = mem /\ mem # Unloaded
    BY <1>9 DEF RecordConversion, Phases, WellTyped, Known
  <2>2. Source(mem') = Source(mem) /\ mem' \in Entry
    BY <1>9, <2>1, ConversionKeepsSource DEF RecordConversion
  <2>3. mem'.sha["source"] = Source(mem)
    BY <2>2, NoneAssumption DEF Source, Recorded
  <2>4. /\ manifest' = mem' /\ pc' = "idle" /\ dest' = dest
        /\ captured' = captured \cup ({Source(mem)} \cap {dest["source"]})
    BY <1>9, <2>3 DEF RecordConversion, Record, Goto
  <2>5. Source(manifest)' = Source(mem) /\ Source(mem)' = Source(mem)
    BY <2>2, <2>4 DEF Source, Recorded
  <2>6. QED
    BY <1>h, <2>1, <2>4, <2>5 DEF CapturedRecorded, Archived
<1>10. CASE SaveOther
  <2>1. mem \in Entry /\ mem # Unloaded /\ mem # None
    BY <1>10 DEF SaveOther, WellTyped
  <2>2. /\ manifest' = mem /\ UNCHANGED <<mem, dest, pc>> /\ pc = "idle"
        /\ captured' = captured \cup ({Source(mem)} \cap {dest["source"]})
    BY <1>10, <2>1 DEF SaveOther, Record, Source, Recorded
  <2>3. Source(manifest)' = Source(mem) /\ Source(mem)' = Source(mem)
    BY <2>2 DEF Source, Recorded
  <2>4. QED
    BY <1>h, <2>1, <2>2, <2>3 DEF CapturedRecorded, Archived
<1>11. CASE Exit
  BY <1>11, <1>h DEF Exit, disk, observed, CapturedRecorded, Archived, Source,
       Recorded
<1>12. CASE CommitFails
  <2>1. /\ captured \subseteq Archived(Source(journal.entry))
        /\ UNCHANGED <<manifest, dest, captured>>
        /\ mem' = journal.entry /\ pc' = "idle"
    BY <1>12 DEF CommitFails, Return, disk, observed, CapturedRecorded
  <2>2. Source(mem)' = Source(journal.entry)
    BY <2>1 DEF Source, Recorded
  <2>3. QED
    BY <1>h, <2>1, <2>2 DEF CapturedRecorded, Archived, Source, Recorded
<1>13. CASE IOFailure \/ Crash
  BY <1>13, <1>h DEF IOFailure, Crash, Return, disk, observed,
       CapturedRecorded, Archived, Source, Recorded
<1>14. ASSUME NEW f \in File, NEW c \in LocalEdits, Edit(f, c)
       PROVE  CapturedRecorded'
  <2>1. UNCHANGED <<manifest, journal, mem, pc>> /\ captured' \subseteq captured
    BY <1>14 DEF Edit
  <2>2. captured' \subseteq Archived(dest["source"])'
    <3>1. CASE f = "source"
      BY <1>14, <3>1, <1>h DEF Edit, CapturedRecorded, Archived
    <3>2. CASE f # "source"
      <4>1. dest'["source"] = dest["source"]
        BY <1>14, <3>2 DEF Edit, WellTyped, File
      <4>2. QED
        BY <2>1, <4>1, <1>h DEF CapturedRecorded, Archived
    <3>3. QED
      BY <3>1, <3>2
  <2>3. QED
    BY <1>h, <2>1, <2>2 DEF CapturedRecorded, Archived, Source, Recorded
<1>15. ASSUME NEW f \in File, NEW c \in LocalEdits, Damage(f, c)
       PROVE  CapturedRecorded'
  BY <1>15, <1>h DEF Damage, observed, CapturedRecorded, Archived, Source,
       Recorded
<1>16. CASE UNCHANGED vars
  BY <1>16, <1>h DEF vars, disk, observed, CapturedRecorded, Archived, Source,
       Recorded
<1>17. QED
  BY <1>1, <1>2, <1>3, <1>4, <1>5, <1>6, <1>7, <1>8, <1>9, <1>10, <1>11,
     <1>12, <1>13, <1>14, <1>15, <1>16
     DEF Next, Recover, Convert, Environment

LEMMA IInvInductive == IInv /\ [Next]_vars => IInv'
  BY TypeNext, PhasesNext, BoundsNext, MemoryNext, PriorNext, CapturedNext
     DEF IInv, TypeOK

LEMMA IInvInit == Init => IInv
<1>1. Init => MemoryAgrees /\ CapturedRecorded /\ PriorArchived
  BY DEF Init, MemoryAgrees, CapturedRecorded, PriorArchived, Archived
<1>2. QED
  BY <1>1, TypeInit, BoundsInit DEF IInv, TypeOK

\* "A sync never silently destroys a captured revision": for any contents,
\* any edits and any number of crashes and failures, a source the manifest
\* ever recorded is still in place or in the history.
THEOREM CapturedSurvivesAlways == Spec => []CapturedSurvives
<1>1. IInv => CapturedSurvives
  BY DEF IInv, CapturedRecorded, Archived, CapturedSurvives
<1>2. QED
  BY IInvInit, IInvInductive, <1>1, PTL DEF Spec
-----------------------------------------------------------------------------
(* The parts outlive the acceptance of their source *)

LEMMA PartsNext ==
    ASSUME WellTyped, Phases, MemoryAgrees, PartsOutliveCommit, [Next]_vars
    PROVE  PartsOutliveCommit'
<1>1. CASE WriteJournal
  BY <1>1 DEF WriteJournal, PartsOutliveCommit
<1>2. CASE RemoveFile
  BY <1>2 DEF RemoveFile, Phases, PartsOutliveCommit, Source
<1>3. ASSUME NEW f \in File, NEW c \in LocalEdits, Damage(f, c)
      PROVE  PartsOutliveCommit'
  <2>1. \A g \in File : part[g] # NoFile => part'[g] # NoFile
    BY <1>3 DEF Damage, WellTyped
  <2>2. journal' = journal /\ manifest' = manifest
    BY <1>3 DEF Damage
  <2>3. QED
    BY <2>1, <2>2 DEF PartsOutliveCommit, Source, Recorded
<1>4. CASE StagePart
  BY <1>4 DEF StagePart, Phases, Installing, PartsOutliveCommit
<1>5. CASE UNCHANGED <<manifest, part, journal>>
  BY <1>5 DEF PartsOutliveCommit, Source, Recorded
<1>7. CASE Commit
  BY <1>7 DEF Commit, Record, PartsOutliveCommit, Source, Recorded
<1>8. CASE RecordConversion
  <2>1. mem \in Entry /\ Known = mem /\ mem # Unloaded
    BY <1>8 DEF RecordConversion, Phases, WellTyped, Known
  <2>2. Source(mem') = Source(mem)
    BY <1>8, <2>1, ConversionKeepsSource DEF RecordConversion
  <2>3. manifest' = mem' /\ UNCHANGED <<part, journal>>
    BY <1>8 DEF RecordConversion, Record
  <2>4. journal # None /\ Source(manifest') # Source(journal.entry) =>
            Source(manifest') = Source(manifest)
    BY <2>1, <2>2, <2>3 DEF MemoryAgrees
  <2>5. QED
    BY <2>3, <2>4 DEF PartsOutliveCommit, Source, Recorded
<1>9. CASE SaveOther
  <2>1. manifest' = mem /\ mem # Unloaded /\ UNCHANGED <<part, journal>>
    BY <1>9 DEF SaveOther, Record
  <2>2. journal # None /\ Source(manifest') # Source(journal.entry) =>
            Source(manifest') = Source(manifest)
    BY <2>1 DEF MemoryAgrees
  <2>3. QED
    BY <2>1, <2>2 DEF PartsOutliveCommit, Source, Recorded
<1>10. CASE UNCHANGED vars
  BY <1>5, <1>10 DEF vars, disk
<1>11. QED
  <2>1. Next /\ ~WriteJournal /\ ~RemoveFile /\ ~StagePart /\ ~Commit
          /\ ~RecordConversion /\ ~SaveOther
          /\ ~(\E f \in File, c \in LocalEdits : Damage(f, c)) =>
        UNCHANGED <<manifest, part, journal>>
    BY DEF Next, Sync, Recover, ScanNothing, ScanAbandoned, ScanJournal,
         Recheck, Replace, RemoveDirectory, Install, Plan,
         Fingerprint, PreserveSource, PreserveTwin, MakeDirectory, Convert,
         ConvertTwin, Exit, Environment,
         CommitFails, IOFailure, Crash, Edit, disk
  <2>2. QED
    BY <1>1, <1>2, <1>3, <1>4, <1>5, <1>7, <1>8, <1>9, <1>10, <2>1

\* Until the manifest has accepted the new source, both of its parts are still
\* staged, so that a restart can install it from the journal alone, whatever
\* was killed and whatever the converter recorded over the journal meanwhile.
THEOREM PartsOutliveCommitAlways == Spec => []PartsOutliveCommit
<1> DEFINE Inv == WellTyped /\ Phases /\ MemoryAgrees /\ PartsOutliveCommit
<1>1. Init => Inv
  BY TypeInit DEF Init, MemoryAgrees, PartsOutliveCommit
<1>2. Inv /\ [Next]_vars => Inv'
  BY TypeNext, PhasesNext, MemoryNext, PartsNext
<1>3. Inv => PartsOutliveCommit
  OBVIOUS
<1>4. QED
  BY <1>1, <1>2, <1>3, PTL DEF Spec
-----------------------------------------------------------------------------
(* The source on disk is accounted for *)

\* What SourceAccounted says of the manifest, of any entry.
Accounts(e) ==
    \/ "source" \in edited
    \/ dest["source"] = Source(e)
    \/ journal # None /\ dest["source"] = Source(journal.entry)

\* It must hold of the memory too, which a save writes; and a transaction that
\* has no source left to replace has replaced it.
AccountedAtEachStep ==
    /\ Accounts(manifest)
    /\ mem # Unloaded => Accounts(mem)
    /\ pc \in {"install", "replace"} /\ "source" \notin staged =>
          "source" \in edited \/ dest["source"] = Source(journal.entry)
    /\ pc = "replace" => staged # {}

LEMMA AccountedNext ==
    WellTyped /\ Phases /\ AccountedAtEachStep /\ [Next]_vars => AccountedAtEachStep'
<1> SUFFICES ASSUME WellTyped, Phases, AccountedAtEachStep, [Next]_vars
             PROVE  AccountedAtEachStep'
  OBVIOUS
<1>1. ASSUME NEW r \in Remote, Sync(r)  PROVE  AccountedAtEachStep'
  BY <1>1 DEF Sync, Goto, Known, disk, observed, AccountedAtEachStep, Accounts, Source, Recorded
<1>2. CASE ScanNothing \/ ScanAbandoned \/ RemoveDirectory \/ Exit \/ IOFailure \/ Crash
  <2>1. /\ UNCHANGED <<manifest, dest, journal, edited>>
        /\ mem' \in {mem, Unloaded} /\ pc' \notin {"install", "replace"}
    BY <1>2 DEF ScanNothing, ScanAbandoned, RemoveDirectory, Exit, IOFailure, Crash,
         AfterRecovery, Return, Goto, disk, observed
  <2>2. QED
    BY <2>1 DEF AccountedAtEachStep, Accounts, Source, Recorded
<1>3. CASE ScanJournal
  <2>1. UNCHANGED <<disk, mem, observed>>
    BY <1>3 DEF ScanJournal
  <2>2. CASE ~Recoverable(journal)
    BY <1>3, <2>1, <2>2 DEF ScanJournal, Return, disk, observed, AccountedAtEachStep,
         Accounts, Source, Recorded
  <2>3. CASE Recoverable(journal)
    <3>1. /\ pc' = "install"
          /\ staged' = {f \in File : dest[f] # journal.entry.sha[f]}
      BY <1>3, <2>3 DEF ScanJournal, Goto
    <3>2. Source(journal.entry) = journal.entry.sha["source"]
      BY <1>3, NoneAssumption DEF ScanJournal, WellTyped, Journal, Source, Recorded
    <3>3. "source" \notin staged' => dest["source"] = Source(journal.entry)
      BY <3>1, <3>2 DEF File
    <3>4. QED
      BY <2>1, <3>1, <3>3 DEF disk, observed, AccountedAtEachStep, Accounts, Source, Recorded
  <2>4. QED
    BY <2>2, <2>3
<1>4. CASE Recheck
  BY <1>4 DEF Recheck, Return, Goto, disk, volatile, observed, AccountedAtEachStep,
       Accounts, Source, Recorded
<1>5. CASE Replace
  <2>1. /\ UNCHANGED <<manifest, journal, mem>> /\ journal # None
        /\ pc' \in {"install", "idle"}
    BY <1>5 DEF Replace, Return, Goto, Phases
  <2>2. Source(journal.entry) = journal.entry.sha["source"]
    BY <2>1, NoneAssumption DEF WellTyped, Journal, Source, Recorded
  <2>3. CASE NextStaged = "source" /\ part["source"] = journal.entry.sha["source"]
    <3>1. dest'["source"] = journal.entry.sha["source"]
      BY <1>5, <2>3 DEF Replace, WellTyped, File
    <3>2. QED
      BY <2>1, <2>2, <3>1 DEF AccountedAtEachStep, Accounts, Source, Recorded
  <2>4. CASE NextStaged # "source"
    <3>1. /\ dest'["source"] = dest["source"] /\ "source" \notin staged
          /\ "source" \in edited => "source" \in edited'
      BY <1>5, <2>4 DEF Replace, WellTyped, File, NextStaged
    <3>2. QED
      BY <1>5, <2>1, <3>1 DEF Replace, AccountedAtEachStep, Accounts, Source, Recorded
  <2>5. CASE part[NextStaged] # journal.entry.sha[NextStaged]
    BY <1>5, <2>1, <2>5 DEF Replace, Return, AccountedAtEachStep, Accounts, Source, Recorded
  <2>6. QED
    BY <2>3, <2>4, <2>5
<1>6. CASE Commit \/ CommitFails
  <2>1. /\ UNCHANGED <<dest, journal, edited>> /\ journal # None
        /\ mem' = journal.entry /\ manifest' \in {manifest, journal.entry}
        /\ pc' \in {"cleanup", "idle"}
    BY <1>6 DEF Commit, CommitFails, Record, Return, Goto, disk, observed, Phases
  <2>2. "source" \in edited \/ dest["source"] = Source(journal.entry)
    BY <1>6 DEF Commit, CommitFails, AccountedAtEachStep
  <2>3. QED
    BY <2>1, <2>2 DEF AccountedAtEachStep, Accounts, Source, Recorded
<1>7. CASE RemoveFile
  <2>1. /\ UNCHANGED <<manifest, dest, mem, edited, pc>> /\ pc = "cleanup"
        /\ \/ journal' = journal
           \/ journal' = None /\ manifest = journal.entry /\ mem = journal.entry
    BY <1>7 DEF RemoveFile, observed, Phases
  <2>2. QED
    BY <2>1 DEF AccountedAtEachStep, Accounts, Source, Recorded
<1>8. CASE Install
  <2>1. /\ UNCHANGED <<manifest, dest, mem, edited>>
        /\ journal' = journal \/ journal = None
        /\ pc' \notin {"install", "replace"}
    BY <1>8 DEF Install, Plan, Fingerprint, PreserveSource, PreserveTwin, MakeDirectory,
         StagePart, WriteJournal, Return, Goto, disk, observed, Phases, Installing
  <2>2. QED
    BY <2>1 DEF AccountedAtEachStep, Accounts, Source, Recorded
<1>9. CASE ConvertTwin
  <2>1. /\ UNCHANGED <<manifest, journal>> /\ mem' = Known /\ pc' = "convert"
        /\ dest'["source"] = dest["source"]
        /\ "source" \in edited => "source" \in edited'
    BY <1>9 DEF ConvertTwin, Goto, WellTyped, File
  <2>2. QED
    BY <2>1 DEF AccountedAtEachStep, Accounts, Known, Source, Recorded
<1>10. CASE RecordConversion
  <2>1. mem \in Entry /\ Known = mem /\ mem # Unloaded
    BY <1>10 DEF RecordConversion, Phases, WellTyped, Known
  <2>2. Source(mem') = Source(mem)
    BY <1>10, <2>1, ConversionKeepsSource DEF RecordConversion
  <2>3. manifest' = mem' /\ pc' = "idle" /\ UNCHANGED <<dest, journal, edited>>
    BY <1>10 DEF RecordConversion, Record, Goto
  <2>4. Source(manifest)' = Source(mem) /\ Source(mem)' = Source(mem)
    BY <2>2, <2>3 DEF Source, Recorded
  <2>5. Source(journal.entry)' = Source(journal.entry)
    BY <2>3 DEF Source, Recorded
  <2>6. QED
    BY <2>1, <2>3, <2>4, <2>5 DEF AccountedAtEachStep, Accounts
<1>11. CASE SaveOther
  <2>1. /\ manifest' = mem /\ mem # Unloaded
        /\ UNCHANGED <<dest, mem, journal, edited, pc>> /\ pc = "idle"
    BY <1>11 DEF SaveOther, Record
  <2>2. QED
    BY <2>1 DEF AccountedAtEachStep, Accounts, Source, Recorded
<1>12. ASSUME NEW f \in File, NEW c \in LocalEdits, Edit(f, c)
       PROVE  AccountedAtEachStep'
  <2>1. UNCHANGED <<manifest, mem, journal, pc, staged>> /\ edited \subseteq edited'
    BY <1>12 DEF Edit, volatile
  <2>2. "source" \in edited' \/ dest'["source"] = dest["source"]
    BY <1>12 DEF Edit, WellTyped, File
  <2>3. QED
    BY <2>1, <2>2 DEF AccountedAtEachStep, Accounts, Source, Recorded
<1>13. ASSUME NEW f \in File, NEW c \in LocalEdits, Damage(f, c)
       PROVE  AccountedAtEachStep'
  BY <1>13 DEF Damage, volatile, observed, AccountedAtEachStep, Accounts, Source, Recorded
<1>14. CASE UNCHANGED vars
  BY <1>14 DEF vars, disk, volatile, observed, AccountedAtEachStep, Accounts, Source, Recorded
<1>15. QED
  BY <1>1, <1>2, <1>3, <1>4, <1>5, <1>6, <1>7, <1>8, <1>9, <1>10, <1>11, <1>12, <1>13,
     <1>14
     DEF Next, Recover, Convert, Environment

\* However often a transaction is cut short and replayed, the source on disk
\* is an edit, the recorded revision, or a live journal's.
THEOREM SourceAccountedAlways == Spec => []SourceAccounted
<1> DEFINE Inv == WellTyped /\ Phases /\ AccountedAtEachStep
<1>1. Init => Inv
  BY TypeInit DEF Init, AccountedAtEachStep, Accounts, Source, Recorded
<1>2. Inv /\ [Next]_vars => Inv'
  BY TypeNext, PhasesNext, AccountedNext
<1>3. Inv => SourceAccounted
  <2> SUFFICES ASSUME Inv PROVE SourceAccounted
    OBVIOUS
  <2>1. journal # None => Source(journal.entry) = journal.entry.sha["source"]
    BY NoneAssumption DEF WellTyped, Journal, Source, Recorded
  <2>2. QED
    BY <2>1 DEF AccountedAtEachStep, Accounts, SourceAccounted, Source
<1>4. QED
  BY <1>1, <1>2, <1>3, PTL DEF Spec
-----------------------------------------------------------------------------
(* The student's annotations *)

\* Notes that only the twin on disk still holds.
Unarchived == notes \ HistoryTwins

\* Whatever the program records, installs or proposes has a twin it can make
\* again.
TwinsAreGenerated ==
    /\ \A e \in {manifest, mem} \ {None, Unloaded} : e.sha["twin"] \in GeneratedTwins
    /\ journal # None => journal.entry.sha["twin"] \in GeneratedTwins
    /\ goal # None => goal["twin"] \in GeneratedTwins

\* From the decision to the replacement, a note that is about to be replaced
\* is archived first.
NotesGuarded ==
    /\ notes \cap GeneratedTwins = {}
    /\ notes # {} => manifest # None \/ journal # None
    /\ pc = "fingerprint" /\ dest["twin"] \in Unarchived => preserve
    /\ pc \in {"directory", "stage"} => before["twin"] \notin Unarchived
    /\ journal # None => journal.before["twin"] \notin Unarchived
    /\ pc = "replace" /\ NextStaged = "twin" => dest["twin"] \notin Unarchived
    /\ NotesSurvive

LEMMA GeneratedNext ==
    WellTyped /\ Phases /\ TwinsAreGenerated /\ [Next]_vars => TwinsAreGenerated'
<1> SUFFICES ASSUME WellTyped, Phases, TwinsAreGenerated, [Next]_vars
             PROVE  TwinsAreGenerated'
  OBVIOUS
<1>1. ASSUME NEW r \in Remote, Sync(r)  PROVE  TwinsAreGenerated'
  BY <1>1 DEF Sync, Known, disk, TwinsAreGenerated, GeneratedTwins
<1>2. CASE Recover
  <2>1. /\ manifest' \in {manifest, journal.entry} /\ mem' \in {mem, journal.entry}
        /\ (manifest' # manifest \/ mem' # mem) => journal # None
        /\ journal' \in {journal, None} /\ goal' \in {goal, None}
    BY <1>2 DEF Recover, ScanNothing, ScanAbandoned, ScanJournal, Recheck, Replace,
         Commit, Record, RemoveFile, RemoveDirectory, AfterRecovery, Return, disk,
         volatile, Phases
  <2>2. QED
    BY <2>1 DEF TwinsAreGenerated
<1>3. CASE Install /\ ~WriteJournal
  BY <1>3 DEF Install, Plan, Fingerprint, PreserveSource, PreserveTwin, MakeDirectory,
       StagePart, Return, disk, volatile, TwinsAreGenerated
<1>a. CASE WriteJournal
  <2>1. UNCHANGED <<manifest, mem>> /\ goal' = None /\ goal # None
    BY <1>a DEF WriteJournal, Phases, Installing
  <2>2. journal'.entry.sha = goal
    BY <1>a DEF WriteJournal
  <2>3. QED
    BY <2>1, <2>2 DEF TwinsAreGenerated
<1>4. CASE ConvertTwin
  BY <1>4 DEF ConvertTwin, Known, volatile, TwinsAreGenerated
<1>5. CASE RecordConversion
  <2>1. mem \in Entry /\ Known = mem
    BY <1>5 DEF RecordConversion, Phases, WellTyped, Known
  <2>2. mem'.sha["twin"] = ConvertedTwin
    BY <1>5, <2>1 DEF RecordConversion, Entry, File
  <2>3. manifest' = mem' /\ UNCHANGED <<journal, goal>>
    BY <1>5 DEF RecordConversion, Record, volatile
  <2>4. QED
    BY <2>2, <2>3 DEF TwinsAreGenerated, GeneratedTwins
<1>6. CASE SaveOther \/ Exit
  BY <1>6 DEF SaveOther, Record, Exit, disk, volatile, TwinsAreGenerated
<1>7. CASE CommitFails \/ IOFailure \/ Crash
  BY <1>7 DEF CommitFails, IOFailure, Crash, Return, disk, Phases, TwinsAreGenerated
<1>8. ASSUME NEW f \in File, NEW c \in LocalEdits, Edit(f, c) \/ Damage(f, c)
      PROVE  TwinsAreGenerated'
  BY <1>8 DEF Edit, Damage, volatile, TwinsAreGenerated
<1>9. CASE UNCHANGED vars
  BY <1>9 DEF vars, disk, volatile, TwinsAreGenerated
<1>10. QED
  BY <1>1, <1>2, <1>3, <1>a, <1>4, <1>5, <1>6, <1>7, <1>8, <1>9
     DEF Next, Convert, Environment

LEMMA TwinsGrow ==
    ASSUME [Next]_vars
    PROVE  HistoryTwins \subseteq HistoryTwins'
<1>1. history \subseteq history'
  BY DEF Next, Sync, Recover, ScanNothing, ScanAbandoned, ScanJournal, Recheck,
       Replace, Commit, RemoveFile, RemoveDirectory, Install, Plan,
       Fingerprint, PreserveSource, PreserveTwin, MakeDirectory, StagePart,
       WriteJournal, Convert, ConvertTwin, RecordConversion, SaveOther, Exit,
       Environment, CommitFails, IOFailure, Crash, Edit, Damage, vars, disk
<1>2. QED
  BY <1>1 DEF HistoryTwins

\* A call that returns leaves the notes where they are.
LEMMA NotesAfterReturn ==
    ASSUME NotesGuarded, Return, dest' = dest, notes' = notes, history' = history,
           manifest' = manifest, journal' = journal
    PROVE  NotesGuarded'
BY DEF NotesGuarded, Return, Unarchived, HistoryTwins, GeneratedTwins, NotesSurvive

LEMMA NotesNext ==
    WellTyped /\ Phases /\ MemoryAgrees /\ TwinsAreGenerated /\ NotesGuarded
        /\ [Next]_vars => NotesGuarded'
<1> SUFFICES ASSUME WellTyped, Phases, MemoryAgrees, TwinsAreGenerated, NotesGuarded,
                    [Next]_vars
             PROVE  NotesGuarded'
  OBVIOUS
<1>h. HistoryTwins \subseteq HistoryTwins'
  BY TwinsGrow
<1>g. GeneratedTwins' = GeneratedTwins
  BY DEF GeneratedTwins
<1>1. ASSUME NEW r \in Remote, Sync(r)  PROVE  NotesGuarded'
  BY <1>1, <1>h, <1>g DEF Sync, Goto, disk, observed, NotesGuarded, Unarchived, NotesSurvive
<1>2. CASE ScanNothing \/ ScanAbandoned \/ ScanJournal \/ RemoveDirectory \/ Exit
           \/ IOFailure \/ Crash \/ CommitFails
  <2>1. /\ UNCHANGED <<dest, notes, history, manifest, journal>>
        /\ pc' \notin {"fingerprint", "directory", "stage", "replace"}
    BY <1>2 DEF ScanNothing, ScanAbandoned, ScanJournal, RemoveDirectory, Exit, IOFailure,
         Crash, CommitFails, AfterRecovery, Return, Goto, disk, observed
  <2>2. QED
    BY <2>1, <1>g DEF NotesGuarded, Unarchived, HistoryTwins, NotesSurvive
<1>3. CASE Recheck
  <2>1. UNCHANGED <<dest, notes, history, manifest, journal>> /\ journal # None
    BY <1>3 DEF Recheck, disk, observed, Phases
  <2>2. CASE Return
    BY <2>1, <2>2, NotesAfterReturn
  <2>3. CASE /\ pc' = "replace" /\ staged' = staged
             /\ dest[NextStaged] \in {journal.before[NextStaged],
                                     journal.entry.sha[NextStaged]}
    <3>1. NextStaged = "twin" => dest["twin"] \notin Unarchived
      BY <2>1, <2>3 DEF NotesGuarded, Unarchived, TwinsAreGenerated
    <3>2. NextStaged' = NextStaged
      BY <2>3 DEF NextStaged
    <3>3. QED
      BY <2>1, <2>3, <3>1, <3>2, <1>g DEF NotesGuarded, Unarchived, HistoryTwins, NotesSurvive
  <2>4. QED
    BY <1>3, <2>2, <2>3 DEF Recheck, Goto, volatile
<1>4. CASE Replace
  <2>1. /\ UNCHANGED <<manifest, journal, history, notes>>
        /\ pc' \in {"install", "idle"}
    BY <1>4 DEF Replace, Return, Goto
  <2>2. \/ dest'["twin"] = dest["twin"]
        \/ NextStaged = "twin"
    BY <1>4 DEF Replace, WellTyped, File, NextStaged
  <2>3. notes \subseteq HistoryTwins \cup {dest'["twin"]}
    BY <1>4, <2>2 DEF Replace, NotesGuarded, NotesSurvive, Unarchived
  <2>4. QED
    BY <2>1, <2>3, <1>g DEF NotesGuarded, Unarchived, HistoryTwins, NotesSurvive
<1>5. CASE Commit
  <2>1. /\ manifest' = journal.entry /\ journal # None /\ pc' = "cleanup"
        /\ UNCHANGED <<dest, notes, history, journal>>
    BY <1>5 DEF Commit, Record, Goto, Phases
  <2>2. QED
    BY <2>1, <1>g DEF NotesGuarded, Unarchived, HistoryTwins, NotesSurvive
<1>6. CASE RemoveFile
  <2>1. /\ UNCHANGED <<dest, notes, history, manifest, pc>> /\ pc = "cleanup"
        /\ journal' = journal \/ (journal' = None /\ manifest = journal.entry /\ journal # None)
    BY <1>6 DEF RemoveFile, observed, Phases
  <2>2. journal # None => journal.entry # None
    BY NoneAssumption DEF WellTyped, Journal
  <2>3. QED
    BY <2>1, <2>2, <1>g DEF NotesGuarded, Unarchived, HistoryTwins, NotesSurvive
<1>7. CASE Plan
  <2>1. UNCHANGED <<dest, notes, history, manifest, journal>>
    BY <1>7 DEF Plan, disk, observed
  <2>2. CASE pc' = "fingerprint"
    <3>1. ASSUME dest["twin"] \in notes  PROVE  NeedsPreservation
      <4>1. manifest # None /\ journal = None
        BY <1>7, <3>1 DEF Plan, NotesGuarded, Phases, Installing
      <4>2. mem # Unloaded /\ Source(mem) = Source(manifest)
        BY <1>7, <4>1 DEF Plan, Phases, MemoryAgrees
      <4>3. mem # None
        BY <4>1, <4>2, NoneAssumption, ContentsAssumption
           DEF Source, Recorded, Nothing, WellTyped, Entry, File
      <4>4. Known = mem /\ Recorded(Known)["twin"] \in GeneratedTwins
        BY <4>2, <4>3 DEF Known, Recorded, TwinsAreGenerated
      <4>5. Modified("twin")
        BY <3>1, <4>4 DEF Modified, NotesGuarded, GeneratedTwins
      <4>6. QED
        BY <4>3, <4>4, <4>5 DEF NeedsPreservation, File
    <3>2. preserve' = NeedsPreservation
      BY <1>7, <2>2 DEF Plan, Return
    <3>3. QED
      BY <2>1, <2>2, <3>1, <3>2, <1>g DEF NotesGuarded, Unarchived, HistoryTwins, NotesSurvive
  <2>3. CASE Return
    BY <2>1, <2>3, NotesAfterReturn
  <2>4. QED
    BY <1>7, <2>2, <2>3 DEF Plan, Goto
<1>8. CASE Fingerprint
  <2>1. /\ UNCHANGED <<dest, notes, history, manifest, journal>> /\ before' = dest
        /\ pc' = "preserve source" \/ (pc' = "directory" /\ ~preserve)
    BY <1>8 DEF Fingerprint, Goto, disk, observed
  <2>2. QED
    BY <1>8, <2>1, <1>g DEF Fingerprint, NotesGuarded, Unarchived, HistoryTwins, NotesSurvive
<1>9. CASE PreserveSource
  <2>1. UNCHANGED <<dest, notes, history, manifest, journal>>
    BY <1>9 DEF PreserveSource, disk, observed
  <2>2. CASE Return
    BY <2>1, <2>2, NotesAfterReturn
  <2>3. CASE pc' = "directory" /\ before = Nothing /\ before' = before
    <3>1. before'["twin"] = NoFile
      BY <2>3 DEF Nothing, File
    <3>2. before'["twin"] \notin notes
      BY <3>1 DEF NotesGuarded, GeneratedTwins
    <3>3. QED
      BY <2>1, <2>3, <3>2, <1>g DEF NotesGuarded, Unarchived, HistoryTwins, NotesSurvive
  <2>4. CASE pc' = "preserve twin"
    BY <2>1, <2>4, <1>g DEF NotesGuarded, Unarchived, HistoryTwins, NotesSurvive
  <2>5. QED
    BY <1>9, <2>2, <2>3, <2>4 DEF PreserveSource, Goto, volatile
<1>10. CASE PreserveTwin
  <2>1. /\ UNCHANGED <<dest, notes, manifest, journal, before>> /\ pc' = "directory"
        /\ history' = history \cup {[source |-> saving, twin |-> dest["twin"]]}
    BY <1>10 DEF PreserveTwin, Goto, volatile, observed
  <2>2. dest["twin"] \in HistoryTwins'
    <3>1. [source |-> saving, twin |-> dest["twin"]].twin = dest["twin"]
      OBVIOUS
    <3>2. QED
      BY <2>1, <3>1 DEF HistoryTwins
  <2>3. before["twin"] \notin notes \ HistoryTwins'
    BY <2>2, <1>h DEF NotesGuarded, NotesSurvive
  <2>4. QED
    BY <2>1, <2>3, <1>h, <1>g DEF NotesGuarded, Unarchived, NotesSurvive
<1>11. CASE MakeDirectory \/ StagePart
  <2>1. /\ UNCHANGED <<dest, notes, history, manifest, journal, before>>
        /\ pc \in {"directory", "stage"} /\ pc' = "stage"
    BY <1>11 DEF MakeDirectory, StagePart, Goto, volatile, observed
  <2>2. QED
    BY <2>1, <1>g DEF NotesGuarded, Unarchived, HistoryTwins, NotesSurvive
<1>12. CASE WriteJournal
  <2>1. /\ UNCHANGED <<dest, notes, history, manifest>> /\ pc = "stage" /\ pc' = "scan"
        /\ journal' # None /\ journal'.before = before
    BY <1>12, NoneAssumption, TypeNext DEF WriteJournal, Goto, observed, WellTyped, Journal,
         Phases, Installing, Known, Entry, Tool
  <2>2. QED
    BY <2>1, <1>g DEF NotesGuarded, Unarchived, HistoryTwins, NotesSurvive
<1>13. CASE ConvertTwin
  <2>1. /\ UNCHANGED <<notes, manifest, journal>> /\ pc' = "convert"
        /\ dest["twin"] \notin {NoFile, Recorded(Known)["twin"]} =>
              dest["twin"] \in HistoryTwins'
    <3>1. UNCHANGED <<notes, manifest, journal>> /\ pc' = "convert"
      BY <1>13 DEF ConvertTwin, Goto
    <3>2. ASSUME dest["twin"] \notin {NoFile, Recorded(Known)["twin"]}
          PROVE  dest["twin"] \in HistoryTwins'
      <4>1. history' = history \cup {[source |-> dest["source"], twin |-> dest["twin"]]}
        BY <1>13, <3>2 DEF ConvertTwin, Modified
      <4>2. [source |-> dest["source"], twin |-> dest["twin"]].twin = dest["twin"]
        OBVIOUS
      <4>3. QED
        BY <4>1, <4>2 DEF HistoryTwins
    <3>3. QED
      BY <3>1, <3>2
  <2>2. Recorded(Known)["twin"] \in GeneratedTwins
    <3>1. Known \in {manifest, mem} \ {None, Unloaded}
      BY <1>13, UnloadedAssumption DEF ConvertTwin, Known, WellTyped
    <3>2. QED
      BY <3>1 DEF Recorded, TwinsAreGenerated
  <2>3. dest["twin"] \in notes => dest["twin"] \in HistoryTwins'
    BY <2>1, <2>2 DEF NotesGuarded, GeneratedTwins
  <2>4. notes \subseteq HistoryTwins'
    BY <2>3, <1>h DEF NotesGuarded, NotesSurvive
  <2>5. QED
    BY <2>1, <2>4, <1>g DEF NotesGuarded, Unarchived, NotesSurvive
<1>14. CASE RecordConversion \/ SaveOther
  <2>1. /\ UNCHANGED <<dest, notes, history, journal>> /\ pc' = "idle" /\ manifest' # None
    <3>1. CASE RecordConversion
      <4>1. mem \in Entry /\ Known = mem
        BY <3>1 DEF RecordConversion, Phases, WellTyped, Known
      <4>2. manifest' \in Entry
        BY <3>1, <4>1, ConversionKeepsSource DEF RecordConversion, Record
      <4>3. QED
        BY <3>1, <4>2, NoneAssumption DEF RecordConversion, Record, Goto
    <3>2. CASE SaveOther
      BY <3>2 DEF SaveOther, Record
    <3>3. QED
      BY <1>14, <3>1, <3>2
  <2>2. QED
    BY <2>1, <1>g DEF NotesGuarded, Unarchived, HistoryTwins, NotesSurvive
<1>15. ASSUME NEW f \in File, NEW c \in LocalEdits, Edit(f, c)
       PROVE  NotesGuarded'
  <2>1. /\ UNCHANGED <<manifest, journal, history, pc, preserve, before, staged>>
        /\ manifest # None \/ journal # None
    BY <1>15 DEF Edit, volatile
  <2>2. CASE f = "source"
    <3>1. UNCHANGED notes /\ dest'["twin"] = dest["twin"]
      BY <1>15, <2>2 DEF Edit, WellTyped, File
    <3>2. QED
      BY <2>1, <3>1, <1>g DEF NotesGuarded, Unarchived, HistoryTwins, NotesSurvive, NextStaged
  <2>3. CASE f = "twin"
    <3>1. /\ dest'["twin"] = c /\ c # dest["twin"]
          /\ notes' \subseteq notes \cup {c}
          /\ dest["twin"] \notin notes'
          /\ pc # "idle" => notes' \subseteq notes
          /\ c \in notes' => c \in notes \/ c \notin GeneratedTwins \cup Taken
      BY <1>15, <2>3 DEF Edit, WellTyped, File
    <3>2. c \in notes => c \in HistoryTwins
      BY <3>1 DEF NotesGuarded, NotesSurvive
    <3>3. notes' \subseteq HistoryTwins \cup {c}
      BY <3>1 DEF NotesGuarded, NotesSurvive
    <3>4. journal # None => journal.before["twin"] \notin notes' \ HistoryTwins
      BY <3>1, <3>2 DEF NotesGuarded, Unarchived, Taken
    <3>5. pc # "idle" => /\ notes' \ HistoryTwins \subseteq Unarchived
                         /\ c \notin notes' \ HistoryTwins
      BY <3>1, <3>2 DEF Unarchived
    <3>6. notes' \cap GeneratedTwins = {}
      BY <3>1 DEF NotesGuarded
    <3>7. QED
      BY <2>1, <3>1, <3>3, <3>4, <3>5, <3>6, <1>g
         DEF NotesGuarded, Unarchived, HistoryTwins, NotesSurvive
  <2>4. QED
    BY <2>2, <2>3 DEF File
<1>16. ASSUME NEW f \in File, NEW c \in LocalEdits, Damage(f, c)
       PROVE  NotesGuarded'
  BY <1>16, <1>g DEF Damage, volatile, observed, NotesGuarded, Unarchived, HistoryTwins,
       NotesSurvive, NextStaged
<1>17. CASE UNCHANGED vars
  BY <1>17, <1>g DEF vars, disk, volatile, observed, NotesGuarded, Unarchived, HistoryTwins,
       NotesSurvive, NextStaged
<1>18. QED
  BY <1>1, <1>2, <1>3, <1>4, <1>5, <1>6, <1>7, <1>8, <1>9, <1>10, <1>11, <1>12, <1>13,
     <1>14, <1>15, <1>16, <1>17
     DEF Next, Recover, Install, Convert, Environment

\* What the student writes into a twin between two runs is in place or in the
\* history, through any transactions, conversions, kills and later edits, for
\* outlines as for assignments.
THEOREM NotesSurviveAlways == Spec => []NotesSurvive
<1> DEFINE Inv == WellTyped /\ Phases /\ MemoryAgrees /\ TwinsAreGenerated /\ NotesGuarded
<1>1. Init => Inv
  BY TypeInit DEF Init, MemoryAgrees, TwinsAreGenerated, NotesGuarded, Unarchived,
       NotesSurvive
<1>2. Inv /\ [Next]_vars => Inv'
  BY TypeNext, PhasesNext, MemoryNext, GeneratedNext, NotesNext
<1>3. Inv => NotesSurvive
  BY DEF NotesGuarded
<1>4. QED
  BY <1>1, <1>2, <1>3, PTL DEF Spec
-----------------------------------------------------------------------------
(* The transaction implements the archive *)

\* Since the fingerprints were taken nothing was captured, and the student may
\* have changed the source: what is captured was there, or is archived.
BeforeHolds ==
    pc \in {"preserve source", "preserve twin", "directory", "stage"} =>
        captured \subseteq Archived(before["source"])

LEMMA BeforeNext ==
    ASSUME IInv, BeforeHolds, [Next]_vars
    PROVE  BeforeHolds'
<1> DEFINE Late == {"preserve source", "preserve twin", "directory", "stage"}
<1>h. HistorySources \subseteq HistorySources'
  BY HistoryGrows
<1>1. CASE Fingerprint
  <2>1. before' = dest /\ captured' = captured
    BY <1>1 DEF Fingerprint, observed
  <2>2. QED
    BY <1>h, <2>1 DEF IInv, CapturedRecorded, BeforeHolds, Archived
<1>2. CASE Install /\ ~Fingerprint
  <2>1. captured' = captured
    BY <1>2 DEF Install, Plan, PreserveSource, PreserveTwin, MakeDirectory, StagePart,
         WriteJournal, observed
  <2>2. pc' \in Late => pc \in Late /\ before' = before
    BY <1>2 DEF Install, Plan, PreserveSource, PreserveTwin, MakeDirectory, StagePart,
         WriteJournal, Return, Goto, volatile
  <2>3. QED
    BY <1>h, <2>1, <2>2 DEF BeforeHolds, Archived
<1>3. CASE Recover \/ Convert \/ SaveOther \/ Exit \/ \E r \in Remote : Sync(r)
  <2>1. pc' \notin Late
    BY <1>3 DEF Recover, ScanNothing, ScanAbandoned, ScanJournal, Recheck, Replace, Commit,
         RemoveFile, RemoveDirectory, Convert, ConvertTwin, RecordConversion, SaveOther,
         Exit, Sync, AfterRecovery, Return, Goto
  <2>2. QED
    BY <2>1 DEF BeforeHolds
<1>4. CASE CommitFails \/ IOFailure \/ Crash
  BY <1>4 DEF CommitFails, IOFailure, Crash, Return, BeforeHolds
<1>5. ASSUME NEW f \in File, NEW c \in LocalEdits, Edit(f, c) \/ Damage(f, c)
      PROVE  BeforeHolds'
  <2>1. captured' \subseteq captured /\ UNCHANGED <<pc, before>>
    BY <1>5 DEF Edit, Damage, volatile, observed
  <2>2. QED
    BY <1>h, <2>1 DEF BeforeHolds, Archived
<1>6. CASE UNCHANGED vars
  BY <1>6, <1>h DEF vars, volatile, observed, BeforeHolds, Archived
<1>7. QED
  BY <1>1, <1>2, <1>3, <1>4, <1>5, <1>6 DEF Next, Environment

AbstractlyUnmoved == UNCHANGED <<Accepted, Proposed, HistorySources, captured>>

\* An entry is a revision of the promise.
LEMMA EntryIsRevision ==
    ASSUME NEW e \in Entry
    PROVE  /\ Source(e) = e.sha["source"] /\ Source(e) \in Contents
           /\ e # None /\ Source(e) # None
           /\ e.sha["twin"] \in Contents
<1>1. e.sha["source"] \in Contents /\ e.sha["twin"] \in Contents /\ e # None
  BY NoneAssumption DEF Entry, File
<1>2. QED
  BY <1>1, NoneAssumption DEF Source, Recorded

LEMMA AcceptedIs ==
    ASSUME WellTyped, manifest # None
    PROVE  /\ manifest \in Entry
           /\ Accepted = [source |-> Source(manifest), twin |-> manifest.sha["twin"]]
           /\ Accepted # None /\ Accepted.source = Source(manifest)
<1>1. manifest \in Entry
  BY DEF WellTyped
<1>2. Accepted = [source |-> Source(manifest), twin |-> manifest.sha["twin"]]
  BY DEF Accepted
<1>3. Accepted \in [source : Contents, twin : Contents]
  BY <1>1, <1>2, EntryIsRevision
<1>4. QED
  BY <1>1, <1>2, <1>3, NoRevisionAssumption

LEMMA Retwinned ==
    ASSUME NEW s, NEW t, NEW u
    PROVE  [[source |-> s, twin |-> t] EXCEPT !.twin = u] = [source |-> s, twin |-> u]
  OBVIOUS

\* A save of the entry e, whose source is the recorded or the proposed one, is
\* a new twin or the acceptance of the proposal.
LEMMA SaveStep ==
    ASSUME WellTyped, NEW e \in Entry, manifest' = e,
           UNCHANGED <<journal, history>>,
           captured' = captured \cup ({Source(e)} \cap {dest["source"]}),
           captured \subseteq Archived(Source(e)),
           \/ Source(e) = Source(manifest)
           \/ journal # None /\ Source(e) = Source(journal.entry)
    PROVE  Promise!ANext
<1>1. /\ Source(e) \in Contents /\ e # None /\ Source(e) # None
      /\ e.sha["twin"] \in Contents
  BY EntryIsRevision
<1>2. Accepted' = [source |-> Source(e), twin |-> e.sha["twin"]]
  BY <1>1 DEF Accepted, Source, Recorded
<1>3. HistorySources' = HistorySources
  BY DEF HistorySources
<1>4. captured' \in {captured, captured \cup {Source(e)}}
  OBVIOUS
<1>5. manifest = None => Source(manifest) \notin Contents
  BY ContentsAssumption DEF Source, Recorded, Nothing, File
<1>6. CASE Source(e) = Source(manifest)
  <2>1. manifest # None
    BY <1>1, <1>5, <1>6
  <2>2. Accepted' = [Accepted EXCEPT !.twin = e.sha["twin"]]
    BY <1>2, <1>6, <2>1, AcceptedIs, Retwinned
  <2>3. Proposed' = Proposed
    BY <1>6 DEF Proposed, Source, Recorded
  <2>4. Promise!Retwin(e.sha["twin"])
    BY <1>3, <1>4, <1>6, <2>1, <2>2, <2>3, AcceptedIs DEF Promise!Retwin
  <2>5. QED
    BY <1>1, <2>4 DEF Promise!ANext
<1>7. CASE Source(e) # Source(manifest)
  <2>1. journal # None /\ Source(e) = Source(journal.entry)
    BY <1>7
  <2>2. Proposed = Source(e)
    BY <1>7, <2>1 DEF Proposed
  <2>3. Proposed' = None
    BY <2>1 DEF Proposed, Source, Recorded
  <2>4. Promise!MayGiveWay(Proposed)
    <3>1. Accepted # None => manifest # None
      BY DEF Accepted
    <3>2. QED
      BY <2>2, <3>1, AcceptedIs DEF Promise!MayGiveWay, Archived
  <2>5. Promise!Accept(e.sha["twin"])
    BY <1>1, <1>2, <1>3, <1>4, <2>2, <2>3, <2>4 DEF Promise!Accept
  <2>6. QED
    BY <1>1, <2>5 DEF Promise!ANext
<1>8. QED
  BY <1>6, <1>7

\* A revision of a recorded or proposed source goes into the archive.
LEMMA KeepStep ==
    ASSUME WellTyped, NEW s \in Contents, NEW t,
           UNCHANGED <<manifest, journal, captured>>,
           history' = history \cup {[source |-> s, twin |-> t]},
           \/ s = Source(manifest)
           \/ journal # None /\ s = Source(journal.entry)
    PROVE  Promise!ANext
<1>1. HistorySources' = HistorySources \cup {s}
  <2>1. [source |-> s, twin |-> t].source = s
    OBVIOUS
  <2>2. QED
    BY <2>1 DEF HistorySources
<1>2. UNCHANGED <<Accepted, Proposed>>
  BY DEF Accepted, Proposed, Source, Recorded
<1>3. s = Proposed \/ (Accepted # None /\ s = Accepted.source)
  <2>1. CASE s = Source(manifest)
    <3>1. manifest # None
      BY <2>1, ContentsAssumption DEF Source, Recorded, Nothing, File
    <3>2. QED
      BY <2>1, <3>1, AcceptedIs
  <2>2. CASE s # Source(manifest)
    BY <2>2 DEF Proposed
  <2>3. QED
    BY <2>1, <2>2
<1>4. Promise!Archive(s)
  BY <1>1, <1>2, <1>3 DEF Promise!Archive
<1>5. QED
  BY <1>4 DEF Promise!ANext

\* A step of a transaction, a conversion or the student is one of the promise's.
LEMMA ArchiveStep ==
    ASSUME IInv, BeforeHolds, [Next]_vars
    PROVE  Promise!ANext \/ AbstractlyUnmoved
<1> USE DEF IInv, TypeOK
<1>1. CASE UNCHANGED <<manifest, journal, history, captured>>
  BY <1>1 DEF AbstractlyUnmoved, Accepted, Proposed, HistorySources, Source, Recorded
<1>2. CASE Commit
  <2>1. /\ journal # None /\ manifest' = journal.entry
        /\ UNCHANGED <<journal, history>>
        /\ captured \subseteq Archived(Source(journal.entry))
    BY <1>2 DEF Commit, Record, Phases, CapturedRecorded
  <2>2. journal.entry \in Entry
    BY <2>1 DEF WellTyped, Journal
  <2>3. captured' = captured \cup ({Source(journal.entry)} \cap {dest["source"]})
    BY <1>2, <2>2, EntryIsRevision DEF Commit, Record
  <2>4. QED
    BY <2>1, <2>2, <2>3, SaveStep
<1>3. CASE RemoveFile
  <2>1. /\ UNCHANGED <<manifest, history, captured>>
        /\ journal' = journal
             \/ (journal # None /\ journal' = None /\ manifest = journal.entry)
    BY <1>3 DEF RemoveFile, Phases, observed
  <2>2. Accepted' = Accepted /\ HistorySources' = HistorySources
    BY <2>1 DEF Accepted, HistorySources, Source, Recorded
  <2>3. Proposed' = Proposed
    BY <2>1 DEF Proposed, Source, Recorded
  <2>4. QED
    BY <2>1, <2>2, <2>3 DEF AbstractlyUnmoved
<1>4. CASE PreserveTwin
  <2>1. /\ mem # None /\ mem # Unloaded /\ saving = Source(mem) /\ saving \in Contents
        /\ UNCHANGED <<manifest, journal, captured>>
        /\ history' = history \cup {[source |-> saving, twin |-> dest["twin"]]}
    BY <1>4 DEF PreserveTwin, Phases, Installing, PriorArchived, observed
  <2>2. QED
    BY <2>1, KeepStep DEF MemoryAgrees
<1>5. CASE WriteJournal
  <2> DEFINE e == [sha |-> goal, tool |-> "generator"]
  <2>1. /\ journal = None /\ mem # Unloaded /\ goal \in [File -> Contents]
        /\ UNCHANGED <<manifest, history, captured>> /\ pc = "stage"
        /\ journal' = [prior |-> Known, entry |-> e, before |-> before]
    BY <1>5 DEF WriteJournal, Phases, Installing, WellTyped, observed
  <2>2. Source(mem) = Source(manifest)
    BY <2>1 DEF MemoryAgrees
  <2>3. e \in Entry
    BY <2>1 DEF Entry, Tool
  <2>4. Source(e) = goal["source"] /\ Source(e) \in Contents
    BY <2>3, EntryIsRevision
  <2>5. journal' # None /\ journal'.entry = e
    <3>1. Known \in Entry \cup {None}
      BY <2>1 DEF Known, WellTyped
    <3>2. journal' \in Journal
      BY <2>1, <2>3, <3>1 DEF Journal, WellTyped
    <3>3. QED
      BY <2>1, <3>2, NoneAssumption
  <2>6. /\ Accepted' = Accepted /\ Proposed = None /\ HistorySources' = HistorySources
        /\ Proposed' = IF Source(manifest) = Source(e) THEN None ELSE Source(e)
    BY <2>1, <2>5 DEF Accepted, Proposed, HistorySources, Source, Recorded
  <2>7. CASE Source(manifest) = Source(e)
    BY <2>1, <2>6, <2>7 DEF AbstractlyUnmoved
  <2>8. CASE Source(manifest) # Source(e)
    <3>1. ASSUME Accepted # None, Accepted.source \in captured
          PROVE  Accepted.source \in {Source(e)} \cup HistorySources
      <4>1. manifest # None
        BY <3>1 DEF Accepted
      <4>2. Accepted.source = Source(mem) /\ Source(mem) \in Contents
        BY <4>1, <2>2, AcceptedIs, EntryIsRevision
      <4>3. Source(mem) \in Archived(before["source"])
        BY <2>1, <3>1, <4>2 DEF BeforeHolds
      <4>4. mem # None
        BY <4>2, ContentsAssumption DEF Source, Recorded, Nothing, File
      <4>5. /\ Source(mem) # goal["source"] /\ before["source"] = Source(mem) =>
                    Source(mem) \in HistorySources
        BY <2>1, <4>4 DEF PriorArchived
      <4>6. QED
        BY <2>4, <4>2, <4>3, <4>5 DEF Archived
    <3>2. Promise!Propose(Source(e))
      BY <2>1, <2>6, <2>8, <3>1 DEF Promise!Propose, Promise!MayGiveWay
    <3>3. QED
      BY <2>4, <3>2 DEF Promise!ANext
  <2>9. QED
    BY <2>7, <2>8
<1>6. CASE ConvertTwin
  <2>1. UNCHANGED <<manifest, journal, captured>>
    BY <1>6 DEF ConvertTwin
  <2>2. CASE history' = history
    BY <2>1, <2>2, <1>1
  <2>3. CASE history' = history \cup {[source |-> dest["source"], twin |-> dest["twin"]]}
    <3>1. Known \in Entry /\ dest["source"] = Source(Known)
      BY <1>6 DEF ConvertTwin, Known, WellTyped, Source
    <3>2. \/ Source(Known) = Source(manifest)
          \/ journal # None /\ Source(Known) = Source(journal.entry)
      BY DEF MemoryAgrees, Known
    <3>3. QED
      BY <2>1, <2>3, <3>1, <3>2, EntryIsRevision, KeepStep
  <2>4. QED
    BY <1>6, <2>2, <2>3 DEF ConvertTwin
<1>7. CASE RecordConversion
  <2>1. mem \in Entry /\ Known = mem /\ mem # Unloaded
    BY <1>7 DEF RecordConversion, Phases, WellTyped, Known
  <2>2. mem' \in Entry /\ Source(mem') = Source(mem)
    BY <1>7, <2>1, ConversionKeepsSource DEF RecordConversion
  <2>3. /\ manifest' = mem' /\ UNCHANGED <<journal, history>>
        /\ captured' = captured \cup ({mem'.sha["source"]} \cap {dest["source"]})
    BY <1>7 DEF RecordConversion, Record
  <2>4. captured' = captured \cup ({Source(mem')} \cap {dest["source"]})
    BY <2>2, <2>3, EntryIsRevision
  <2>5. captured \subseteq Archived(Source(mem'))
    BY <2>1, <2>2 DEF CapturedRecorded
  <2>6. \/ Source(mem') = Source(manifest)
        \/ journal # None /\ Source(mem') = Source(journal.entry)
    BY <2>1, <2>2 DEF MemoryAgrees
  <2>7. QED
    BY <2>2, <2>3, <2>4, <2>5, <2>6, SaveStep
<1>8. CASE SaveOther
  <2>1. mem \in Entry /\ mem # Unloaded
    BY <1>8 DEF SaveOther, WellTyped
  <2>2. /\ manifest' = mem /\ UNCHANGED <<journal, history>>
        /\ captured' = captured \cup ({Source(mem)} \cap {dest["source"]})
    BY <1>8, <2>1, EntryIsRevision DEF SaveOther, Record
  <2>3. QED
    BY <2>1, <2>2, SaveStep DEF MemoryAgrees, CapturedRecorded
<1>9. ASSUME NEW f \in File, NEW c \in LocalEdits, Edit(f, c)
      PROVE  Promise!ANext
  <2>1. UNCHANGED <<manifest, journal, history>> /\ captured' \subseteq captured
    BY <1>9 DEF Edit
  <2>2. UNCHANGED <<Accepted, Proposed, HistorySources>>
    BY <2>1 DEF Accepted, Proposed, HistorySources, Source, Recorded
  <2>3. QED
    BY <2>1, <2>2 DEF Promise!Discard, Promise!ANext
<1>10. CASE \/ Recover /\ ~Commit /\ ~RemoveFile
            \/ Install /\ ~PreserveTwin /\ ~WriteJournal
            \/ Exit \/ CommitFails \/ IOFailure \/ Crash
            \/ \E r \in Remote : Sync(r)
            \/ \E f \in File, c \in LocalEdits : Damage(f, c)
  <2>1. UNCHANGED <<manifest, journal, history, captured>>
    BY <1>10 DEF Recover, ScanNothing, ScanAbandoned, ScanJournal, Recheck, Replace,
         RemoveDirectory, Install, Plan, Fingerprint, PreserveSource, MakeDirectory,
         StagePart, Exit, CommitFails, IOFailure, Crash, Sync, Damage, disk, observed
  <2>2. QED
    BY <2>1, <1>1
<1>11. CASE UNCHANGED vars
  BY <1>11, <1>1 DEF vars, disk, observed
<1>12. QED
  BY <1>2, <1>3, <1>4, <1>5, <1>6, <1>7, <1>8, <1>9, <1>10, <1>11
     DEF Next, Recover, Install, Convert, Environment

\* Every step is a step of RevisionArchive or none, for assignments and for
\* outlines: what a journal proposes, the archive already allows; what the
\* manifest accepts was proposed or has the accepted source, even when a
\* conversion records it in the middle of the transaction.
THEOREM TransactionImplementsArchive == Spec => ImplementsArchive
<1> DEFINE Inv == IInv /\ BeforeHolds
<1>1. Init => Inv
  BY IInvInit DEF Init, BeforeHolds
<1>2. Inv /\ [Next]_vars => Inv'
  BY IInvInductive, BeforeNext
<1>3. Init => Promise!AInit
  BY DEF Init, Promise!AInit, Accepted, Proposed, HistorySources
<1>4. Inv /\ [Next]_vars => [Promise!ANext]_(Promise!avars)
  BY ArchiveStep DEF AbstractlyUnmoved, Promise!avars
<1>5. QED
  BY <1>1, <1>2, <1>3, <1>4, PTL DEF Spec, ImplementsArchive, Promise!ASpec
=============================================================================
