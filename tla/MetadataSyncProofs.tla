------------------------- MODULE MetadataSyncProofs -------------------------
(***************************************************************************)
(* Theorems about MetadataSync, for any items, lists, tools and bounds:    *)
(* its types, that nothing is marked without having been gone, that a sync *)
(* without errors has what was posted throughout it, and that a record of  *)
(* completeness follows the rows.                                          *)
(*                                                                         *)
(* None of these is inductive.  A mark is given when a complete            *)
(* list is merged, so what must be carried is what a list in mid-reading   *)
(* says about an item (Reading), and what a list read to its end still     *)
(* says when it is merged, several lists later for the topics (Shown).     *)
(* The report is honest because every list that a step leaves behind is    *)
(* complete, a gap or an error (Accounted), and what it wrote is carried   *)
(* from the merge to the report (Captured); the record is, because what a  *)
(* merge wrote is still there when it is recorded (RecordHolds).           *)
(***************************************************************************)
EXTENDS MetadataSync, TLAPS

\* What is known of an item of the list being read.
Reading ==
    pc = "fetch" =>
        \A i \in Of(coll) : /\ i \in posted \/ i \in lacked
                            /\ i \in todo \/ i \in seen \/ i \in lacked

\* A list read to the end shows what was there all the time.
Shown == \A i \in Item : CollectionOf[i] \in whole => i \in seen \/ i \in lacked

\* What was posted throughout was not lacking at any moment.
SteadyIsPosted == steady \cap lacked = {}

\* The lists that have been read when the run is at c.
ReadBefore(c) == CASE c = "assignments" -> {"toc"}
                   [] c = "news" -> {"toc", "assignments"}
                   [] c = "quizzes" -> {"toc", "assignments", "news"}
                   [] c = "grades" -> {"toc", "assignments", "news", "quizzes"}
                   [] OTHER -> {}

ReadLists == CASE pc = "fetch" -> ReadBefore(coll)
               [] pc \in {"record", "rows"} -> ReadBefore(coll) \cup {coll}
               [] pc = "map" -> Collections \ {"discussions"}
               [] OTHER -> {}

\* A list that was read is complete, a gap or an error.
Accounted == ReadLists \subseteq whole \cup gaps \cup errors

\* The lists whose rows this run has written.
WrittenBefore(c) == IF c = "discussions" THEN Collections \ {"discussions"}
                    ELSE ReadBefore(c) \ {"toc"}

WrittenLists ==
    CASE pc \in {"fetch", "rows"} -> WrittenBefore(coll)
      [] pc = "record" -> WrittenBefore(coll) \cup
                            (IF RecordsFirst(coll) THEN {} ELSE {coll})
      [] pc = "map" -> Collections \ {"toc", "discussions"}
      [] pc = "stages" -> Collections \ {"discussions"}
      [] pc \in {"download", "report"} -> Collections
      [] OTHER -> {}

\* The content map, too, has been written.
MapWritten == \/ pc \in {"stages", "download", "report"}
              \/ pc \in {"fetch", "record", "rows"} /\ coll = "discussions"

RowCaptured == \A i \in steady :
    CollectionOf[i] \in WrittenLists =>
        CollectionOf[i] \in gaps \/ rows[i] = "present"

FileCaptured == \A i \in steady :
    i \in Attached /\ MapWritten =>
        "assignments" \in gaps \/ attached[i] = "present"

\* A sync has written what was posted throughout, or names the gap.
Captured == command = "sync" /\ errors = {} => RowCaptured /\ FileCaptured

\* Where the run can be.
Placed ==
    /\ pc \in {"record", "rows"} => coll # "toc"
    /\ pc = "rows" /\ coll = "discussions" => coll \in whole
    /\ pc = "mark" => command = "init"
    /\ pc = "idle" => lacked = {}
-----------------------------------------------------------------------------
(* Types *)

LEMMA CollectionFacts ==
    /\ {"toc", "assignments", "news", "quizzes"} \subseteq Collections
    /\ \A c \in Collections :
        c \in {"toc", "assignments", "news", "quizzes", "grades", "discussions"}
BY CollectionsAssumption DEF Always

\* A page of counting: two is as far as it goes.
LEMMA CountType ==
    ASSUME NEW i, NEW n \in 0 .. 2
    PROVE  Count(n, i) \in 0 .. 2
BY DEF Count

LEMMA MergedType ==
    ASSUME NEW mark \in Mark, NEW listed, NEW complete
    PROVE  Merged(mark, listed, complete) \in Mark
BY DEF Merged, Mark

LEMMA FaultType ==
    ASSUME faults \in 0 .. MaxFaults, Fault
    PROVE  faults' \in 0 .. MaxFaults
BY BoundsAssumption DEF Fault

LEMMA ChangeType ==
    ASSUME changes \in 0 .. MaxChanges, Change
    PROVE  changes' \in 0 .. MaxChanges
BY BoundsAssumption DEF Change

\* What entering a list does to the types.
LEMMA EnterType ==
    ASSUME NEW c \in Collections, lacked \subseteq Item, Enter(c)
    PROVE  /\ pc' \in PCs
           /\ coll' \in Collections
           /\ todo' \subseteq Of(coll')
           /\ lacked' \subseteq Item
BY DEF Enter, Goto, PCs, Of

LEMMA NextListType ==
    ASSUME TypeOK, NextList
    PROVE  /\ pc' \in PCs
           /\ coll' \in Collections
           /\ todo' \subseteq Of(coll')
           /\ lacked' \subseteq Item
<1>1. CASE After[coll] \in Collections
  BY <1>1, EnterType DEF NextList, TypeOK
<1>2. CASE After[coll] \notin Collections
  BY <1>2 DEF NextList, TypeOK, Goto, PCs, Of
<1>. QED  BY <1>1, <1>2

LEMMA AfterListType ==
    ASSUME TypeOK, NEW complete, AfterList(complete)
    PROVE  /\ pc' \in PCs
           /\ coll' \in Collections
           /\ todo' \subseteq Of(coll')
           /\ lacked' \subseteq Item
<1>1. CASE coll = "toc"
  BY <1>1, EnterType, CollectionFacts DEF AfterList, TypeOK
<1>2. CASE coll # "toc"
  BY <1>2 DEF AfterList, TypeOK, Goto, PCs, Of
<1>. QED  BY <1>1, <1>2

LEMMA ForgetType ==
    ASSUME Forget
    PROVE  /\ pc' \in PCs
           /\ command' \in {"sync", "init"}
           /\ coll' \in Collections
           /\ todo' \subseteq Of(coll')
           /\ seen' \subseteq Item
           /\ whole' \subseteq Collections
           /\ errors' \subseteq Collections \cup {"files"}
           /\ gaps' \subseteq Optional \cup {"files"}
           /\ steady' \subseteq posted'
           /\ lacked' \subseteq Item
BY CollectionFacts DEF Forget, Goto, PCs

LEMMA InitType == Init => TypeOK
BY PostingsAssumption, ExposuresAssumption, CollectionFacts, BoundsAssumption
DEF Init, TypeOK, Mark, Coverage, PCs, Of

\* One step per action.
LEMMA TypeStep ==
    ASSUME TypeOK, [Next]_vars
    PROVE  TypeOK'
<1>. USE DEF TypeOK
<1>1. CASE UNCHANGED vars
  BY <1>1 DEF vars, course, disk, reading, results, observed, bounds
<1>2. ASSUME NEW kind \in {"sync", "init"}, Start(kind)
      PROVE  TypeOK'
  BY <1>2, EnterType, CollectionFacts
  DEF Start, course, disk, results, bounds
<1>3. CASE ResumeInit
  BY <1>3
  DEF ResumeInit, ReportedErrors, ReportedGaps, Optional, course, disk,
      reading, observed, bounds, Goto, PCs
<1>4. ASSUME NEW p \in SUBSET todo, Page(p)
      PROVE  TypeOK'
  <2>1. /\ pc' \in PCs
        /\ coll' \in Collections
        /\ todo' \subseteq Of(coll')
        /\ lacked' \subseteq Item
    BY <1>4, AfterListType DEF Page
  <2>2. seen' \subseteq Item /\ whole' \subseteq Collections
    BY <1>4 DEF Page
  <2>. QED  BY <1>4, <2>1, <2>2 DEF Page, course, disk, results, bounds
<1>5. CASE Unavailable
  <2>1. gaps' \subseteq Optional \cup {"files"}
    BY <1>5 DEF Unavailable, Listable, Optional
  <2>. QED  BY <1>5, <2>1, AfterListType
            DEF Unavailable, course, disk, bounds
<1>6. CASE ListFails
  <2>1. seen' \subseteq Item
    BY <1>6 DEF ListFails
  <2>2. errors' \subseteq Collections \cup {"files"}
    BY <1>6 DEF ListFails
  <2>. QED  BY <1>6, <2>1, <2>2, AfterListType, FaultType
            DEF ListFails, course, disk
<1>7. CASE Record
  <2>1. coverage' \in [Optional -> Coverage]
    BY <1>7 DEF Record, Outcome, Coverage
  <2>2. /\ pc' \in PCs
        /\ coll' \in Collections
        /\ todo' \subseteq Of(coll')
        /\ lacked' \subseteq Item
    <3>1. CASE RecordsFirst(coll)
      BY <1>7, <3>1 DEF Record, Goto, PCs
    <3>2. CASE ~RecordsFirst(coll)
      BY <1>7, <3>2, NextListType DEF Record
    <3>. QED  BY <3>1, <3>2
  <2>. QED  BY <1>7, <2>1, <2>2 DEF Record, course, results, bounds
<1>8. CASE MergeRows
  <2>1. rows' \in [Item -> Mark]
    BY <1>8, MergedType DEF MergeRows
  <2>2. gone' \in [Item -> 0 .. 2]
    BY <1>8, CountType DEF MergeRows
  <2>3. /\ pc' \in PCs
        /\ coll' \in Collections
        /\ todo' \subseteq Of(coll')
        /\ lacked' \subseteq Item
    <3>1. CASE RecordsFirst(coll)
      BY <1>8, <3>1, NextListType DEF MergeRows
    <3>2. CASE ~RecordsFirst(coll)
      BY <1>8, <3>2 DEF MergeRows, Goto, PCs
    <3>. QED  BY <3>1, <3>2
  <2>. QED  BY <1>8, <2>1, <2>2, <2>3 DEF MergeRows, course, results, bounds
<1>9. CASE WriteMap
  <2>1. rows' \in [Item -> Mark] /\ attached' \in [Attached -> Mark]
    BY <1>9, MergedType DEF WriteMap
  <2>2. gone' \in [Item -> 0 .. 2] /\ goneFile' \in [Attached -> 0 .. 2]
    BY <1>9, CountType DEF WriteMap
  <2>. QED  BY <1>9, <2>1, <2>2 DEF WriteMap, course, results, bounds, Goto, PCs
<1>10. CASE InitStops
  BY <1>10, ForgetType DEF InitStops, course, disk, bounds
<1>11. CASE MarkMetadata
  BY <1>11
  DEF MarkMetadata, course, reading, results, observed, bounds, Goto, PCs
<1>12. CASE Stages
  <2>1. /\ pc' \in PCs
        /\ coll' \in Collections
        /\ todo' \subseteq Of(coll')
        /\ lacked' \subseteq Item
    <3>1. CASE errors = {} /\ command = "sync" /\ "discussions" \in Collections
      BY <1>12, <3>1, EnterType DEF Stages
    <3>2. CASE ~(errors = {} /\ command = "sync"
                    /\ "discussions" \in Collections)
      BY <1>12, <3>2 DEF Stages, Goto, PCs
    <3>. QED  BY <3>1, <3>2
  <2>. QED  BY <1>12, <2>1 DEF Stages, course, disk, results, bounds
<1>13. CASE Download
  BY <1>13
  DEF Download, course, disk, reading, results, observed, bounds, Goto, PCs
<1>14. CASE StageFails
  <2>1. /\ errors' \subseteq Collections \cup {"files"}
        /\ gaps' \subseteq Optional \cup {"files"}
    BY <1>14 DEF StageFails
  <2>. QED  BY <1>14, <2>1, FaultType
            DEF StageFails, course, disk, reading, observed, Goto, PCs
<1>15. CASE Report
  BY <1>15, ForgetType DEF Report, course, bounds
<1>16. CASE Stop
  BY <1>16, ForgetType, FaultType DEF Stop, course, disk
<1>17. ASSUME NEW i \in Item, Post(i) \/ Remove(i)
       PROVE  TypeOK'
  BY <1>17, ChangeType
  DEF Post, Remove, disk, reading, results, observed
<1>18. ASSUME NEW tools \in Exposures, Expose(tools)
       PROVE  TypeOK'
  BY <1>18, ChangeType DEF Expose, disk, reading, results, observed
<1>. QED
  BY <1>1, <1>2, <1>3, <1>4, <1>5, <1>6, <1>7, <1>8, <1>9, <1>10, <1>11,
     <1>12, <1>13, <1>14, <1>15, <1>16, <1>17, <1>18
  DEF Next, Program, Resume, Environment, Sync, BeginInit

\* Every reachable state is well typed: the marks, the record, and the
\* position of the run (ingest_metadata and its two commands).
THEOREM TypeCorrect == Spec => []TypeOK
BY InitType, TypeStep, PTL DEF Spec
-----------------------------------------------------------------------------
(* Marks *)

LEMMA EnterReads ==
    ASSUME NEW c \in Collections, TypeOK, Shown, Enter(c),
           UNCHANGED <<posted, seen, whole>>
    PROVE  Reading' /\ Shown'
<1>1. Reading'
  BY DEF Enter, Reading, Goto, Of
<1>2. Shown'
  BY DEF Enter, Shown
<1>. QED  BY <1>1, <1>2

LEMMA NextListReads ==
    ASSUME TypeOK, Shown, NextList, UNCHANGED <<posted, seen, whole>>
    PROVE  Reading' /\ Shown'
<1>1. CASE After[coll] \in Collections
  BY <1>1, EnterReads DEF NextList
<1>2. CASE After[coll] \notin Collections
  BY <1>2 DEF NextList, Goto, Reading, Shown
<1>. QED  BY <1>1, <1>2

\* A list that is left keeps what it showed.
LEMMA AfterListReads ==
    ASSUME TypeOK, NEW complete, AfterList(complete), posted' = posted,
           \A i \in Item : CollectionOf[i] \in whole' => i \in seen' \/ i \in lacked
    PROVE  Reading' /\ Shown'
<1>1. CASE coll = "toc"
  <2>1. lacked' = lacked \cup (Of("assignments") \ posted)
    BY <1>1 DEF AfterList, Enter
  <2>2. Reading'
    BY <1>1 DEF AfterList, Enter, Reading, Goto, Of
  <2>. QED  BY <2>1, <2>2 DEF Shown
<1>2. CASE coll # "toc"
  BY <1>2 DEF AfterList, Goto, Reading, Shown
<1>. QED  BY <1>1, <1>2

\* Where nothing is read, nothing is claimed.
LEMMA ForgetReads ==
    ASSUME Forget
    PROVE  Reading' /\ Shown'
BY DEF Forget, Goto, Reading, Shown

\* One step per action.
LEMMA ReadingStep ==
    ASSUME TypeOK, Reading, Shown, [Next]_vars
    PROVE  Reading' /\ Shown'
<1>1. CASE UNCHANGED vars
  BY <1>1 DEF vars, course, reading, observed, Reading, Shown
<1>2. ASSUME NEW kind \in {"sync", "init"}, Start(kind)
      PROVE  Reading' /\ Shown'
  BY <1>2, EnterReads, CollectionFacts DEF Start, course
<1>3. CASE ResumeInit
  BY <1>3 DEF ResumeInit, Goto, course, reading, observed, Reading, Shown
<1>4. ASSUME NEW p \in SUBSET todo, Page(p)
      PROVE  Reading' /\ Shown'
  <2>. /\ pc = "fetch" /\ posted' = posted
       /\ seen' = seen \cup (p \cap posted)
    BY <1>4 DEF Page, course
  <2>1. CASE LastPage(p)
    <3>1. whole' = whole \cup {coll} /\ AfterList(TRUE)
      BY <1>4, <2>1 DEF Page
    <3>2. \A i \in Item :
            CollectionOf[i] \in whole' => i \in seen' \/ i \in lacked
      <4>1. ASSUME NEW i \in Item, CollectionOf[i] \in whole
            PROVE  i \in seen' \/ i \in lacked
        BY <4>1 DEF Shown
      <4>2. ASSUME NEW i \in Item, CollectionOf[i] = coll
            PROVE  i \in seen' \/ i \in lacked
        BY <2>1, <4>2 DEF Reading, LastPage, Of
      <4>. QED  BY <3>1, <4>1, <4>2
    <3>. QED  BY <3>1, <3>2, AfterListReads
  <2>2. CASE ~LastPage(p)
    <3>. /\ todo' = todo \ p
         /\ pc' = pc /\ coll' = coll /\ whole' = whole /\ lacked' = lacked
      BY <1>4, <2>2 DEF Page
    <3>. QED  BY DEF Reading, Shown, Of
  <2>. QED  BY <2>1, <2>2
<1>5. CASE Unavailable
  BY <1>5, AfterListReads DEF Unavailable, course, Shown
<1>6. CASE ListFails
  BY <1>6, AfterListReads DEF ListFails, course, Shown
<1>7. CASE Record
  <2>1. CASE RecordsFirst(coll)
    BY <1>7, <2>1 DEF Record, Goto, Reading, Shown
  <2>2. CASE ~RecordsFirst(coll)
    BY <1>7, <2>2, NextListReads DEF Record, course
  <2>. QED  BY <2>1, <2>2
<1>8. CASE MergeRows
  <2>1. CASE RecordsFirst(coll)
    BY <1>8, <2>1, NextListReads DEF MergeRows, course
  <2>2. CASE ~RecordsFirst(coll)
    BY <1>8, <2>2 DEF MergeRows, Goto, Reading, Shown
  <2>. QED  BY <2>1, <2>2
<1>9. CASE WriteMap
  BY <1>9 DEF WriteMap, Goto, Reading, Shown
<1>10. CASE InitStops \/ Report \/ Stop
  BY <1>10, ForgetReads DEF InitStops, Report, Stop
<1>11. CASE MarkMetadata \/ Download \/ StageFails
  BY <1>11
  DEF MarkMetadata, Download, StageFails, Goto, reading, observed, Reading,
      Shown
<1>12. CASE Stages
  <2>1. CASE errors = {} /\ command = "sync" /\ "discussions" \in Collections
    BY <1>12, <2>1, EnterReads DEF Stages, course
  <2>2. CASE ~(errors = {} /\ command = "sync" /\ "discussions" \in Collections)
    BY <1>12, <2>2 DEF Stages, Goto, Reading, Shown
  <2>. QED  BY <2>1, <2>2
<1>13. ASSUME NEW i \in Item, Post(i)
       PROVE  Reading' /\ Shown'
  BY <1>13 DEF Post, reading, observed, Reading, Shown, Of
<1>14. ASSUME NEW i \in Item, Remove(i)
       PROVE  Reading' /\ Shown'
  <2>1. lacked' = IF pc = "fetch" /\ i \in Of(coll) THEN lacked \cup {i}
                  ELSE lacked
    BY <1>14 DEF Remove
  <2>2. /\ pc' = pc /\ coll' = coll /\ todo' = todo
        /\ seen' = seen /\ whole' = whole /\ posted' = posted \ {i}
    BY <1>14 DEF Remove, reading
  <2>3. Reading'
    BY <2>1, <2>2 DEF Reading, Of
  <2>4. Shown'
    BY <2>1, <2>2 DEF Shown
  <2>. QED  BY <2>3, <2>4
<1>15. ASSUME NEW tools \in Exposures, Expose(tools)
       PROVE  Reading' /\ Shown'
  BY <1>15 DEF Expose, reading, observed, Reading, Shown, Of
<1>. QED
  BY <1>1, <1>2, <1>3, <1>4, <1>5, <1>6, <1>7, <1>8, <1>9, <1>10, <1>11,
     <1>12, <1>13, <1>14, <1>15
  DEF Next, Program, Resume, Environment, Sync, BeginInit

\* A mark that a merge gives is paid for by the absences counted.
LEMMA MarkedCounts ==
    ASSUME NEW i, NEW n \in 0 .. 2, NEW mark \in Mark, NEW complete \in BOOLEAN,
           n >= Absences(mark), complete => i \in seen \/ i \in lacked
    PROVE  Count(n, i) >= Absences(Merged(mark, i \in seen, complete))
<1>1. CASE i \in seen
  BY <1>1 DEF Count, Merged, Absences
<1>2. CASE i \notin seen /\ ~complete
  <2>1. Merged(mark, i \in seen, complete) = mark
    BY <1>2 DEF Merged
  <2>2. Count(n, i) >= n
    BY <1>2 DEF Count
  <2>3. Absences(mark) \in Nat /\ Count(n, i) \in Nat
    BY CountType DEF Absences
  <2>. QED  BY <2>1, <2>2, <2>3
<1>3. CASE i \notin seen /\ complete
  <2>1. i \in lacked
    BY <1>3
  <2>2. CASE mark = "unknown"
    BY <1>3, <2>1, <2>2 DEF Count, Merged, Absences
  <2>3. CASE mark = "present"
    BY <1>3, <2>1, <2>3 DEF Count, Merged, Absences
  <2>4. CASE mark \in {"missing", "withdrawn"}
    BY <1>3, <2>1, <2>4 DEF Count, Merged, Absences
  <2>. QED  BY <2>2, <2>3, <2>4 DEF Mark
<1>. QED  BY <1>1, <1>2, <1>3

LEMMA MarkedStep ==
    ASSUME TypeOK, Shown, MarkedWasGone, [Next]_vars
    PROVE  MarkedWasGone'
<1>1. CASE MergeRows
  <2>1. ASSUME NEW i \in Item
        PROVE  gone'[i] >= Absences(rows'[i])
    <3>1. CASE i \in Of(coll)
      <4>1. /\ rows'[i] = Merged(rows[i], i \in seen, coll \in whole)
            /\ gone'[i] = Count(gone[i], i)
        BY <1>1, <3>1 DEF MergeRows
      <4>2. coll \in whole => i \in seen \/ i \in lacked
        BY <3>1 DEF Shown, Of
      <4>3. gone[i] \in 0 .. 2 /\ rows[i] \in Mark /\ gone[i] >= Absences(rows[i])
        BY DEF TypeOK, MarkedWasGone
      <4>4. (coll \in whole) \in BOOLEAN
        OBVIOUS
      <4>. QED  BY <4>1, <4>2, <4>3, <4>4, MarkedCounts
    <3>2. CASE i \notin Of(coll)
      BY <1>1, <3>2 DEF MergeRows, MarkedWasGone
    <3>. QED  BY <3>1, <3>2
  <2>. QED  BY <1>1, <2>1 DEF MergeRows, MarkedWasGone
<1>2. CASE WriteMap
  <2>. MapIsComplete => "toc" \in whole /\ "assignments" \in whole
    BY DEF MapIsComplete
  <2>1. ASSUME NEW i \in Item
        PROVE  gone'[i] >= Absences(rows'[i])
    <3>1. CASE i \in Of("toc")
      <4>1. /\ rows'[i] = Merged(rows[i], i \in seen, MapIsComplete)
            /\ gone'[i] = Count(gone[i], i)
        BY <1>2, <3>1 DEF WriteMap
      <4>2. MapIsComplete => i \in seen \/ i \in lacked
        BY <3>1 DEF Shown, Of
      <4>3. gone[i] \in 0 .. 2 /\ rows[i] \in Mark /\ gone[i] >= Absences(rows[i])
        BY DEF TypeOK, MarkedWasGone
      <4>4. MapIsComplete \in BOOLEAN
        BY DEF MapIsComplete
      <4>. QED  BY <4>1, <4>2, <4>3, <4>4, MarkedCounts
    <3>2. CASE i \notin Of("toc")
      BY <1>2, <3>2 DEF WriteMap, MarkedWasGone
    <3>. QED  BY <3>1, <3>2
  <2>2. ASSUME NEW i \in Attached
        PROVE  goneFile'[i] >= Absences(attached'[i])
    <3>1. /\ attached'[i] = Merged(attached[i], i \in seen, MapIsComplete)
          /\ goneFile'[i] = Count(goneFile[i], i)
      BY <1>2 DEF WriteMap
    <3>2. MapIsComplete => i \in seen \/ i \in lacked
      BY DEF Shown, Attached, Of
    <3>3. /\ goneFile[i] \in 0 .. 2 /\ attached[i] \in Mark
          /\ goneFile[i] >= Absences(attached[i])
      BY DEF TypeOK, MarkedWasGone
    <3>4. MapIsComplete \in BOOLEAN
      BY DEF MapIsComplete
    <3>. QED  BY <3>1, <3>2, <3>3, <3>4, MarkedCounts
  <2>. QED  BY <2>1, <2>2 DEF MarkedWasGone
<1>3. CASE UNCHANGED <<rows, attached, gone, goneFile>>
  BY <1>3 DEF MarkedWasGone
<1>4. CASE \/ \E p \in SUBSET todo : Page(p)
           \/ Unavailable \/ Record \/ InitStops \/ MarkMetadata
           \/ Stages \/ Download \/ Report \/ Sync \/ Resume \/ Environment
           \/ UNCHANGED vars
  <2>1. UNCHANGED <<rows, attached, gone, goneFile>>
    BY <1>4
    DEF Page, Unavailable, Record, InitStops, MarkMetadata, Stages, Download,
        Report, Sync, Resume, BeginInit, Start, ResumeInit, Environment,
        ListFails, StageFails, Stop, Post, Remove, Expose, vars, disk, observed
  <2>. QED  BY <1>3, <2>1
<1>. QED  BY <1>1, <1>2, <1>4 DEF Next, Program

\* A mark is never given to an item that was posted while its list was read,
\* whatever failed, was removed or was killed, in any order
\* (_merge_rows and _merge_topic_records under _fetch_collection).
THEOREM MarkedWasGoneAlways == Spec => []MarkedWasGone
<1> DEFINE IInv == TypeOK /\ Reading /\ Shown /\ MarkedWasGone
<1>1. Init => IInv
  <2>1. Init => Reading /\ Shown
    BY DEF Init, Reading, Shown
  <2>2. Init => MarkedWasGone
    BY DEF Init, MarkedWasGone, Absences
  <2>. QED  BY InitType, <2>1, <2>2
<1>2. IInv /\ [Next]_vars => IInv'
  BY TypeStep, ReadingStep, MarkedStep
<1>3. IInv => MarkedWasGone
  OBVIOUS
<1>. QED  BY <1>1, <1>2, <1>3, PTL DEF Spec
-----------------------------------------------------------------------------
(* The report *)

\* The lists that follow each other.
LEMMA NextFacts ==
    ASSUME TypeOK, coll # "toc"
    PROVE  /\ After[coll] \in Collections =>
                /\ coll # "discussions"
                /\ After[coll] \notin {"toc", "discussions"}
                /\ ReadBefore(After[coll]) = ReadBefore(coll) \cup {coll}
                /\ WrittenBefore(After[coll]) = WrittenBefore(coll) \cup {coll}
           /\ After[coll] \notin Collections /\ coll # "discussions" =>
                /\ Collections \ {"discussions"} = ReadBefore(coll) \cup {coll}
                /\ Collections \ {"toc", "discussions"}
                        = WrittenBefore(coll) \cup {coll}
<1>0. coll \in {"assignments", "news", "quizzes", "grades", "discussions"}
  BY CollectionFacts DEF TypeOK
<1>1. "none" \notin Collections
  BY CollectionFacts
<1>2. CASE coll = "assignments"
  BY <1>2, CollectionFacts DEF After, ReadBefore, WrittenBefore
<1>3. CASE coll = "news"
  BY <1>3, CollectionFacts DEF After, ReadBefore, WrittenBefore
<1>4. CASE coll = "quizzes"
  BY <1>4, CollectionFacts DEF After, ReadBefore, WrittenBefore
<1>5. CASE coll = "grades"
  BY <1>1, <1>5, CollectionFacts DEF After, ReadBefore, WrittenBefore, TypeOK
<1>6. CASE coll = "discussions"
  BY <1>1, <1>6 DEF After
<1>. QED  BY <1>0, <1>2, <1>3, <1>4, <1>5, <1>6

\* The step from a list to the one that follows, or to what follows the last.
LEMMA NextListGoes ==
    ASSUME TypeOK, coll # "toc", NextList
    PROVE  \/ /\ coll # "discussions"
              /\ pc' = "fetch" /\ coll' \notin {"toc", "discussions"}
              /\ ReadLists' = ReadBefore(coll) \cup {coll}
              /\ WrittenLists' = WrittenBefore(coll) \cup {coll}
              /\ ~MapWritten'
              /\ lacked' = lacked \cup (Of(coll') \ posted)
           \/ /\ coll # "discussions"
              /\ pc' = "map"
              /\ ReadLists' = ReadBefore(coll) \cup {coll}
              /\ WrittenLists' = WrittenBefore(coll) \cup {coll}
              /\ ~MapWritten'
              /\ lacked' = lacked
           \/ /\ coll = "discussions"
              /\ pc' = "download"
              /\ ReadLists' = {}
              /\ lacked' = lacked
<1>1. CASE After[coll] \in Collections
  <2>1. /\ pc' = "fetch" /\ coll' = After[coll]
        /\ lacked' = lacked \cup (Of(coll') \ posted)
    BY <1>1 DEF NextList, Enter, Goto
  <2>2. /\ coll # "discussions" /\ coll' \notin {"toc", "discussions"}
        /\ ReadBefore(coll') = ReadBefore(coll) \cup {coll}
        /\ WrittenBefore(coll') = WrittenBefore(coll) \cup {coll}
    BY <1>1, <2>1, NextFacts
  <2>3. ReadLists' = ReadBefore(coll') /\ WrittenLists' = WrittenBefore(coll')
    BY <2>1 DEF ReadLists, WrittenLists, ReadBefore, WrittenBefore
  <2>4. ~MapWritten'
    BY <2>1, <2>2 DEF MapWritten
  <2>. QED  BY <2>1, <2>2, <2>3, <2>4
<1>2. CASE After[coll] \notin Collections /\ coll # "discussions"
  <2>1. pc' = "map" /\ lacked' = lacked
    BY <1>2 DEF NextList, Goto
  <2>2. ReadLists' = Collections \ {"discussions"}
    BY <2>1 DEF ReadLists
  <2>3. WrittenLists' = Collections \ {"toc", "discussions"}
    BY <2>1 DEF WrittenLists
  <2>4. ~MapWritten'
    BY <2>1 DEF MapWritten
  <2>. QED  BY <1>2, <2>1, <2>2, <2>3, <2>4, NextFacts
<1>3. CASE coll = "discussions"
  <2>1. pc' = "download" /\ lacked' = lacked
    BY <1>3, NextFacts DEF NextList, Goto
  <2>. QED  BY <1>3, <2>1 DEF ReadLists
<1>. QED  BY <1>1, <1>2, <1>3

\* The step from reading a list to what is done with it.
LEMMA AfterListGoes ==
    ASSUME TypeOK, pc = "fetch", NEW complete, AfterList(complete)
    PROVE  \/ /\ coll = "toc"
              /\ pc' = "fetch" /\ coll' = "assignments"
              /\ ReadLists' = {"toc"} /\ WrittenLists' = {}
              /\ lacked' = lacked \cup (Of("assignments") \ posted)
           \/ /\ coll # "toc" /\ (coll = "discussions" => complete)
              /\ pc' \in {"record", "rows"} /\ coll' = coll
              /\ ReadLists' = ReadBefore(coll) \cup {coll}
              /\ WrittenLists' = WrittenBefore(coll)
              /\ lacked' = lacked
           \/ /\ coll = "discussions" /\ ~complete
              /\ pc' = "record" /\ coll' = coll
              /\ ReadLists' = ReadBefore(coll) \cup {coll}
              /\ WrittenLists' = WrittenBefore(coll) \cup {coll}
              /\ lacked' = lacked
<1>1. CASE coll = "toc"
  <2>1. /\ pc' = "fetch" /\ coll' = "assignments"
        /\ lacked' = lacked \cup (Of("assignments") \ posted)
    BY <1>1 DEF AfterList, Enter, Goto
  <2>2. ReadLists' = {"toc"} /\ WrittenLists' = {}
    BY <2>1 DEF ReadLists, WrittenLists, ReadBefore, WrittenBefore
  <2>. QED  BY <1>1, <2>1, <2>2
<1>2. CASE coll # "toc"
  <2>1. /\ pc' = IF RecordsFirst(coll) \/ (coll = "discussions" /\ ~complete)
                 THEN "record" ELSE "rows"
        /\ coll' = coll /\ lacked' = lacked
    BY <1>2 DEF AfterList, Goto
  <2>2. ReadLists' = ReadBefore(coll) \cup {coll}
    BY <2>1 DEF ReadLists, ReadBefore
  <2>3. CASE coll = "discussions" /\ ~complete
    <3>1. pc' = "record" /\ coll' = "discussions"
      BY <2>1, <2>3
    <3>2. WrittenLists' = WrittenBefore(coll) \cup {coll}
      BY <2>1, <3>1 DEF WrittenLists, RecordsFirst, WrittenBefore
    <3>. QED  BY <2>1, <2>2, <2>3, <3>1, <3>2
  <2>4. CASE RecordsFirst(coll)
    <3>1. WrittenLists' = WrittenBefore(coll)
      BY <2>1, <2>4 DEF WrittenLists, RecordsFirst, WrittenBefore, ReadBefore
    <3>. QED  BY <1>2, <2>1, <2>2, <2>4, <3>1 DEF RecordsFirst
  <2>5. CASE ~RecordsFirst(coll) /\ ~(coll = "discussions" /\ ~complete)
    <3>1. WrittenLists' = WrittenBefore(coll)
      BY <2>1, <2>5 DEF WrittenLists, WrittenBefore, ReadBefore
    <3>. QED  BY <1>2, <2>1, <2>2, <2>5, <3>1
  <2>. QED  BY <2>3, <2>4, <2>5
<1>. QED  BY <1>1, <1>2

LEMMA PlacedStep ==
    ASSUME TypeOK, Placed, [Next]_vars
    PROVE  Placed'
<1>1. CASE UNCHANGED vars
  BY <1>1 DEF vars, reading, observed, Placed
<1>2. CASE Sync \/ BeginInit
  BY <1>2 DEF Sync, BeginInit, Start, Enter, Goto, Placed
<1>3. CASE ResumeInit
  BY <1>3 DEF ResumeInit, Goto, Placed
<1>4. ASSUME NEW p \in SUBSET todo, Page(p)
      PROVE  Placed'
  <2>1. CASE LastPage(p)
    <3>1. pc = "fetch" /\ whole' = whole \cup {coll} /\ AfterList(TRUE)
      BY <1>4, <2>1 DEF Page
    <3>. QED  BY <3>1, AfterListGoes DEF Placed
  <2>2. CASE ~LastPage(p)
    BY <1>4, <2>2 DEF Page, Placed
  <2>. QED  BY <2>1, <2>2
<1>5. CASE Unavailable
  BY <1>5, AfterListGoes DEF Unavailable, Placed
<1>6. CASE ListFails
  BY <1>6, AfterListGoes DEF ListFails, Placed
<1>7. CASE Record
  <2>1. CASE RecordsFirst(coll)
    BY <1>7, <2>1 DEF Record, Goto, Placed, RecordsFirst
  <2>2. CASE ~RecordsFirst(coll)
    BY <1>7, <2>2, NextListGoes DEF Record, Placed
  <2>. QED  BY <2>1, <2>2
<1>8. CASE MergeRows
  <2>1. CASE RecordsFirst(coll)
    BY <1>8, <2>1, NextListGoes DEF MergeRows, Placed
  <2>2. CASE ~RecordsFirst(coll)
    BY <1>8, <2>2 DEF MergeRows, Goto, Placed
  <2>. QED  BY <2>1, <2>2
<1>9. CASE WriteMap
  BY <1>9 DEF WriteMap, Goto, Placed, TypeOK
<1>10. CASE InitStops \/ Report \/ Stop
  BY <1>10 DEF InitStops, Report, Stop, Forget, Goto, Placed
<1>11. CASE MarkMetadata \/ Download \/ StageFails
  BY <1>11 DEF MarkMetadata, Download, StageFails, Goto, Placed
<1>12. CASE Stages
  BY <1>12 DEF Stages, Enter, Goto, Placed
<1>13. ASSUME NEW i \in Item, Post(i) \/ Remove(i)
       PROVE  Placed'
  BY <1>13 DEF Post, Remove, reading, observed, Placed
<1>14. ASSUME NEW tools \in Exposures, Expose(tools)
       PROVE  Placed'
  BY <1>14 DEF Expose, reading, observed, Placed
<1>. QED
  BY <1>1, <1>2, <1>3, <1>4, <1>5, <1>6, <1>7, <1>8, <1>9, <1>10, <1>11,
     <1>12, <1>13, <1>14
  DEF Next, Program, Resume, Environment

\* What lacks when a list is entered, or is removed, was not posted throughout.
LEMMA SteadyStep ==
    ASSUME TypeOK, Placed, SteadyIsPosted, [Next]_vars
    PROVE  SteadyIsPosted'
<1>1. CASE steady' = steady /\ lacked' = lacked
  BY <1>1 DEF SteadyIsPosted
<1>2. ASSUME steady' = steady, NEW c, lacked' = lacked \cup (Of(c) \ posted)
      PROVE  SteadyIsPosted'
  BY <1>2 DEF SteadyIsPosted, TypeOK
<1>3. CASE lacked' = {}
  BY <1>3 DEF SteadyIsPosted
<1>4. CASE Sync \/ BeginInit
  BY <1>4 DEF Sync, BeginInit, Start, Enter, Goto, Placed, SteadyIsPosted
<1>5. ASSUME NEW p \in SUBSET todo, Page(p)
      PROVE  SteadyIsPosted'
  <2>1. CASE LastPage(p)
    BY <1>5, <2>1, <1>1, <1>2, AfterListGoes DEF Page
  <2>2. CASE ~LastPage(p)
    BY <1>5, <2>2, <1>1 DEF Page
  <2>. QED  BY <2>1, <2>2
<1>6. CASE Unavailable
  BY <1>6, <1>1, <1>2, AfterListGoes DEF Unavailable
<1>7. CASE ListFails
  BY <1>7, <1>1, <1>2, AfterListGoes DEF ListFails
<1>8. CASE Record \/ MergeRows
  <2>1. coll # "toc"
    BY <1>8 DEF Record, MergeRows, Placed
  <2>2. CASE NextList
    BY <1>8, <2>1, <2>2, <1>1, <1>2, NextListGoes DEF Record, MergeRows
  <2>3. CASE lacked' = lacked
    BY <1>8, <2>3, <1>1 DEF Record, MergeRows
  <2>. QED  BY <1>8, <2>2, <2>3 DEF Record, MergeRows
<1>9. CASE WriteMap \/ InitStops \/ Report \/ Stop
  BY <1>9, <1>3 DEF WriteMap, InitStops, Report, Stop, Forget
<1>10. CASE ResumeInit \/ MarkMetadata \/ Download \/ StageFails \/ UNCHANGED vars
  BY <1>10, <1>1 DEF ResumeInit, MarkMetadata, Download, StageFails, observed, vars
<1>11. CASE Stages
  BY <1>11, <1>1, <1>2 DEF Stages, Enter
<1>12. ASSUME NEW i \in Item, Post(i)
       PROVE  SteadyIsPosted'
  BY <1>12, <1>1 DEF Post, observed
<1>13. ASSUME NEW i \in Item, Remove(i)
       PROVE  SteadyIsPosted'
  <2>1. steady' = steady \ {i} /\ lacked' \subseteq lacked \cup {i}
    BY <1>13 DEF Remove
  <2>. QED  BY <2>1 DEF SteadyIsPosted
<1>14. ASSUME NEW tools \in Exposures, Expose(tools)
       PROVE  SteadyIsPosted'
  BY <1>14, <1>1 DEF Expose, observed
<1>. QED
  BY <1>4, <1>5, <1>6, <1>7, <1>8, <1>9, <1>10, <1>11, <1>12, <1>13, <1>14
  DEF Next, Program, Resume, Environment

\* Every list that is left behind is complete, a gap or an error.
LEMMA AccountedStep ==
    ASSUME TypeOK, Placed, Accounted, [Next]_vars
    PROVE  Accounted'
<1>1. CASE ReadLists' = {}
  BY <1>1 DEF Accounted
<1>2. ASSUME ReadLists' \subseteq ReadLists, whole \subseteq whole',
             gaps \subseteq gaps', errors \subseteq errors'
      PROVE  Accounted'
  BY <1>2 DEF Accounted
\* Leaving the list that is being read.
<1>3. ASSUME pc = "fetch", NEW complete, AfterList(complete),
             whole \subseteq whole', gaps \subseteq gaps', errors \subseteq errors',
             coll \in whole' \cup gaps' \cup errors'
      PROVE  Accounted'
  <2>1. ReadLists = ReadBefore(coll)
    BY <1>3 DEF ReadLists
  <2>2. ReadLists' \subseteq ReadBefore(coll) \cup {coll}
    BY <1>3, AfterListGoes
  <2>. QED  BY <1>3, <2>1, <2>2 DEF Accounted
\* Leaving the list that has been read.
<1>4. ASSUME pc \in {"record", "rows"}, NextList,
             UNCHANGED <<whole, gaps, errors>>
      PROVE  Accounted'
  <2>1. ReadLists = ReadBefore(coll) \cup {coll}
    BY <1>4 DEF ReadLists, ReadBefore
  <2>2. coll # "toc"
    BY <1>4 DEF Placed
  <2>3. ReadLists' \subseteq ReadLists
    BY <1>4, <2>1, <2>2, NextListGoes
  <2>. QED  BY <1>4, <2>3 DEF Accounted
\* Between recording a list and merging it.
<1>5. ASSUME pc \in {"record", "rows"}, pc' \in {"record", "rows"},
             UNCHANGED <<coll, whole, gaps, errors>>
      PROVE  Accounted'
  <2>1. ReadLists' = ReadLists
    BY <1>5 DEF ReadLists, ReadBefore
  <2>. QED  BY <1>5, <2>1 DEF Accounted
<1>6. CASE \/ UNCHANGED vars \/ \E i \in Item : Post(i) \/ Remove(i)
           \/ \E tools \in Exposures : Expose(tools)
  <2>1. UNCHANGED <<pc, coll, whole, gaps, errors>>
    BY <1>6 DEF vars, Post, Remove, Expose, reading, results
  <2>. QED  BY <2>1 DEF Accounted, ReadLists, ReadBefore
<1>7. CASE Sync \/ BeginInit
  BY <1>7, <1>1 DEF Sync, BeginInit, Start, Enter, Goto, ReadLists, ReadBefore
<1>8. CASE \/ ResumeInit \/ WriteMap \/ InitStops \/ MarkMetadata \/ Stages
           \/ Download \/ StageFails \/ Report \/ Stop
  BY <1>8, <1>1
  DEF ResumeInit, WriteMap, InitStops, MarkMetadata, Stages, Download,
      StageFails, Report, Stop, Forget, Enter, Goto, ReadLists, ReadBefore,
      TypeOK
<1>9. ASSUME NEW p \in SUBSET todo, Page(p)
      PROVE  Accounted'
  <2>1. CASE LastPage(p)
    BY <1>9, <2>1, <1>3 DEF Page, results
  <2>2. CASE ~LastPage(p)
    BY <1>9, <2>2 DEF Page, results, Accounted, ReadLists, ReadBefore
  <2>. QED  BY <2>1, <2>2
<1>10. CASE Unavailable
  BY <1>10, <1>3 DEF Unavailable
<1>11. CASE ListFails
  BY <1>11, <1>3 DEF ListFails
<1>12. CASE Record
  <2>1. CASE RecordsFirst(coll)
    BY <1>12, <2>1, <1>5 DEF Record, Goto, results
  <2>2. CASE ~RecordsFirst(coll)
    BY <1>12, <2>2, <1>4 DEF Record, results
  <2>. QED  BY <2>1, <2>2
<1>13. CASE MergeRows
  <2>1. CASE RecordsFirst(coll)
    BY <1>13, <2>1, <1>4 DEF MergeRows, results
  <2>2. CASE ~RecordsFirst(coll)
    BY <1>13, <2>2, <1>5 DEF MergeRows, Goto, results
  <2>. QED  BY <2>1, <2>2
<1>. QED
  BY <1>6, <1>7, <1>8, <1>9, <1>10, <1>11, <1>12, <1>13
  DEF Next, Program, Resume, Environment

\* What a step leaves on disk, when no more is claimed of it than before.
LEMMA CapturedKept ==
    ASSUME Captured, command' = command, steady' \subseteq steady,
           errors \subseteq errors', gaps \subseteq gaps',
           rows' = rows, attached' = attached,
           WrittenLists' \subseteq WrittenLists, MapWritten' => MapWritten
    PROVE  Captured'
BY DEF Captured, RowCaptured, FileCaptured

\* Reading a list changes nothing on disk.
LEMMA CapturedReading ==
    ASSUME TypeOK, Placed, Captured, pc = "fetch", NEW complete,
           AfterList(complete), ~complete => coll \in gaps' \/ errors' # {},
           errors \subseteq errors', gaps \subseteq gaps',
           UNCHANGED <<command, steady, rows, attached>>
    PROVE  Captured'
<1>1. WrittenLists = WrittenBefore(coll)
  BY DEF WrittenLists, WrittenBefore, ReadBefore
<1>2. MapWritten' => MapWritten
  BY AfterListGoes DEF MapWritten
<1>3. CASE WrittenLists' \subseteq WrittenLists
  BY <1>2, <1>3, CapturedKept
<1>4. CASE coll = "discussions" /\ ~complete
  <2>. SUFFICES ASSUME command' = "sync", errors' = {}
                PROVE  RowCaptured' /\ FileCaptured'
    BY DEF Captured
  <2>1. coll \in gaps' /\ RowCaptured /\ FileCaptured
    BY <1>4 DEF Captured
  <2>2. WrittenLists' \subseteq WrittenLists \cup {coll}
    BY <1>1, <1>4, AfterListGoes
  <2>3. RowCaptured'
    BY <2>1, <2>2 DEF RowCaptured
  <2>4. FileCaptured'
    BY <2>1, <1>2 DEF FileCaptured
  <2>. QED  BY <2>3, <2>4
<1>. QED  BY <1>1, <1>3, <1>4, AfterListGoes

\* Merging a list that is read to its end brings back what was posted all the
\* time; of another list the gap or the error is known.
LEMMA CapturedMerge ==
    ASSUME TypeOK, Shown, SteadyIsPosted, Accounted, Placed, Captured, MergeRows
    PROVE  Captured'
<1>. SUFFICES ASSUME command' = "sync", errors' = {}
              PROVE  RowCaptured' /\ FileCaptured'
  BY DEF Captured
<1>1. /\ pc = "rows" /\ coll # "toc"
      /\ UNCHANGED <<command, steady, errors, gaps, attached>>
  BY DEF MergeRows, results, Placed
<1>2. RowCaptured /\ FileCaptured
  BY <1>1 DEF Captured
<1>3. WrittenLists = WrittenBefore(coll)
  BY <1>1 DEF WrittenLists, WrittenBefore, ReadBefore
<1>4. /\ WrittenLists' \subseteq WrittenLists \cup {coll}
      /\ MapWritten' => MapWritten
  <2>1. CASE RecordsFirst(coll)
    <3>1. NextList /\ coll # "discussions"
      BY <2>1 DEF MergeRows, RecordsFirst
    <3>. QED  BY <1>1, <1>3, <3>1, NextListGoes
  <2>2. CASE ~RecordsFirst(coll)
    <3>1. pc' = "record" /\ coll' = coll
      BY <2>2 DEF MergeRows, Goto
    <3>2. WrittenLists' \subseteq WrittenBefore(coll) \cup {coll}
      BY <3>1 DEF WrittenLists, WrittenBefore, ReadBefore, RecordsFirst
    <3>3. MapWritten' => MapWritten
      BY <1>1, <3>1 DEF MapWritten
    <3>. QED  BY <1>3, <3>2, <3>3
  <2>. QED  BY <2>1, <2>2
<1>5. ASSUME NEW i \in steady, CollectionOf[i] = coll
      PROVE  coll \in gaps \/ rows'[i] = "present"
  <2>1. i \in Item /\ i \in Of(coll) /\ i \notin lacked
    BY <1>5 DEF TypeOK, SteadyIsPosted, Of
  <2>2. coll \in whole \/ coll \in gaps
    <3>1. coll \in ReadLists
      BY <1>1 DEF ReadLists, ReadBefore
    <3>. QED  BY <1>1, <3>1 DEF Accounted
  <2>3. coll \in whole => i \in seen
    BY <1>5, <2>1 DEF Shown
  <2>4. i \in seen => rows'[i] = "present"
    BY <2>1 DEF MergeRows, Merged
  <2>. QED  BY <2>2, <2>3, <2>4
<1>6. ASSUME NEW i \in steady, CollectionOf[i] # coll
      PROVE  rows'[i] = rows[i]
  BY <1>6 DEF MergeRows, Of, TypeOK
<1>7. RowCaptured'
  BY <1>1, <1>2, <1>4, <1>5, <1>6 DEF RowCaptured
<1>8. FileCaptured'
  BY <1>1, <1>2, <1>4 DEF FileCaptured
<1>. QED  BY <1>7, <1>8

LEMMA CapturedMap ==
    ASSUME TypeOK, Shown, SteadyIsPosted, Accounted, Captured, WriteMap
    PROVE  Captured'
<1>. SUFFICES ASSUME command' = "sync", errors' = {}
              PROVE  RowCaptured' /\ FileCaptured'
  BY DEF Captured
<1>1. /\ pc = "map" /\ UNCHANGED <<command, steady, errors, gaps>>
      /\ pc' = "stages"
  BY DEF WriteMap, results, Goto
<1>2. RowCaptured
  BY <1>1 DEF Captured
<1>3. /\ WrittenLists = Collections \ {"toc", "discussions"}
      /\ WrittenLists' = Collections \ {"discussions"}
      /\ ReadLists = Collections \ {"discussions"}
  BY <1>1 DEF WrittenLists, ReadLists
<1>4. ASSUME NEW i \in steady, CollectionOf[i] \in {"toc", "assignments"}
      PROVE  CollectionOf[i] \in gaps \/ i \in seen
  <2>1. i \in Item /\ i \notin lacked
    BY DEF TypeOK, SteadyIsPosted
  <2>2. CollectionOf[i] \in whole \/ CollectionOf[i] \in gaps
    BY <1>1, <1>3, <1>4, CollectionFacts DEF Accounted
  <2>. QED  BY <2>1, <2>2 DEF Shown
<1>5. RowCaptured'
  <2>1. ASSUME NEW i \in steady, CollectionOf[i] = "toc", i \in seen
        PROVE  rows'[i] = "present"
    BY <2>1 DEF WriteMap, Merged, Of, TypeOK
  <2>2. ASSUME NEW i \in steady, CollectionOf[i] # "toc"
        PROVE  rows'[i] = rows[i]
    BY <2>2 DEF WriteMap, Of, TypeOK
  <2>. QED  BY <1>1, <1>2, <1>3, <1>4, <2>1, <2>2 DEF RowCaptured
<1>6. FileCaptured'
  <2>1. ASSUME NEW i \in steady, i \in Attached
        PROVE  CollectionOf[i] = "assignments"
    BY <2>1 DEF Attached, Of
  <2>2. ASSUME NEW i \in steady, i \in Attached, i \in seen
        PROVE  attached'[i] = "present"
    BY <2>2 DEF WriteMap, Merged
  <2>. QED  BY <1>1, <1>4, <2>1, <2>2 DEF FileCaptured
<1>. QED  BY <1>5, <1>6

\* One step per action.
LEMMA CapturedStep ==
    ASSUME TypeOK, Shown, SteadyIsPosted, Accounted, Placed, Captured,
           [Next]_vars
    PROVE  Captured'
<1>1. CASE WrittenLists' = {} /\ ~MapWritten'
  BY <1>1 DEF Captured, RowCaptured, FileCaptured
<1>2. CASE command' = "init"
  BY <1>2 DEF Captured
<1>3. CASE UNCHANGED vars
  BY <1>3
  DEF vars, disk, reading, results, observed, Captured, RowCaptured,
      FileCaptured, WrittenLists, WrittenBefore, ReadBefore, RecordsFirst,
      MapWritten
<1>4. CASE Sync \/ BeginInit
  <2>1. pc' = "fetch" /\ coll' = "toc"
    BY <1>4 DEF Sync, BeginInit, Start, Enter, Goto
  <2>2. WrittenLists' = {} /\ ~MapWritten'
    BY <2>1 DEF WrittenLists, WrittenBefore, ReadBefore, MapWritten
  <2>. QED  BY <1>1, <2>2
<1>5. CASE ResumeInit
  BY <1>5, <1>2 DEF ResumeInit
<1>6. ASSUME NEW p \in SUBSET todo, Page(p)
      PROVE  Captured'
  <2>. /\ pc = "fetch"
       /\ UNCHANGED <<command, steady, errors, gaps, rows, attached>>
    BY <1>6 DEF Page, disk, results
  <2>1. CASE LastPage(p)
    <3>1. AfterList(TRUE)
      BY <1>6, <2>1 DEF Page
    <3>. QED  BY <3>1, CapturedReading
  <2>2. CASE ~LastPage(p)
    <3>1. pc' = pc /\ coll' = coll
      BY <1>6, <2>2 DEF Page
    <3>2. WrittenLists' = WrittenLists /\ MapWritten' = MapWritten
      BY <3>1 DEF WrittenLists, WrittenBefore, ReadBefore, RecordsFirst,
                  MapWritten
    <3>. QED  BY <3>2, CapturedKept
  <2>. QED  BY <2>1, <2>2
<1>7. CASE Unavailable
  BY <1>7, CapturedReading DEF Unavailable, disk
<1>8. CASE ListFails
  BY <1>8, CapturedReading DEF ListFails, disk
<1>9. CASE Record
  <2>. /\ pc = "record" /\ coll # "toc"
       /\ UNCHANGED <<command, steady, errors, gaps, rows, attached>>
    BY <1>9 DEF Record, results, Placed
  <2>1. CASE RecordsFirst(coll)
    <3>1. pc' = "rows" /\ coll' = coll
      BY <1>9, <2>1 DEF Record, Goto
    <3>2. WrittenLists' \subseteq WrittenLists /\ (MapWritten' => MapWritten)
      BY <3>1 DEF WrittenLists, WrittenBefore, ReadBefore, MapWritten
    <3>. QED  BY <3>2, CapturedKept
  <2>2. CASE ~RecordsFirst(coll)
    <3>1. NextList
      BY <1>9, <2>2 DEF Record
    <3>2. WrittenLists = WrittenBefore(coll) \cup {coll}
      BY <2>2 DEF WrittenLists, WrittenBefore, ReadBefore, RecordsFirst
    <3>3. CASE coll # "discussions"
      BY <3>1, <3>2, <3>3, NextListGoes, CapturedKept
    <3>4. CASE coll = "discussions"
      <4>1. WrittenLists' \subseteq WrittenLists
        <5>1. pc' = "download"
          BY <3>1, <3>4, NextListGoes
        <5>2. WrittenLists' = Collections
          BY <5>1 DEF WrittenLists
        <5>. QED  BY <3>2, <3>4, <5>2 DEF WrittenBefore, TypeOK
      <4>2. MapWritten
        BY <3>4 DEF MapWritten
      <4>. QED  BY <4>1, <4>2, CapturedKept
    <3>. QED  BY <3>3, <3>4
  <2>. QED  BY <2>1, <2>2
<1>10. CASE MergeRows
  BY <1>10, CapturedMerge
<1>11. CASE WriteMap
  BY <1>11, CapturedMap
<1>12. CASE InitStops \/ Report \/ Stop
  <2>1. pc' = "idle"
    BY <1>12 DEF InitStops, Report, Stop, Forget, Goto
  <2>. QED  BY <1>1, <2>1 DEF WrittenLists, MapWritten
<1>13. CASE MarkMetadata
  BY <1>13, <1>2 DEF MarkMetadata, Placed
<1>14. CASE Stages
  <2>. /\ pc = "stages"
       /\ UNCHANGED <<command, steady, errors, gaps, rows, attached>>
    BY <1>14 DEF Stages, disk, results
  <2>0. MapWritten /\ WrittenLists = Collections \ {"discussions"}
    BY DEF MapWritten, WrittenLists
  <2>1. CASE errors = {} /\ command = "sync" /\ "discussions" \in Collections
    <3>1. pc' = "fetch" /\ coll' = "discussions"
      BY <1>14, <2>1 DEF Stages, Enter, Goto
    <3>2. WrittenLists' = Collections \ {"discussions"}
      BY <3>1 DEF WrittenLists, WrittenBefore
    <3>. QED  BY <2>0, <3>2, CapturedKept
  <2>2. CASE errors = {} /\ command = "sync" /\ "discussions" \notin Collections
    <3>1. pc' = "download"
      BY <1>14, <2>2 DEF Stages, Goto
    <3>2. WrittenLists' = Collections
      BY <3>1 DEF WrittenLists
    <3>. QED  BY <2>0, <2>2, <3>2, CapturedKept
  <2>3. CASE errors # {} \/ command # "sync"
    BY <2>3 DEF Captured
  <2>. QED  BY <2>1, <2>2, <2>3
<1>15. CASE Download \/ StageFails
  <2>1. /\ pc = "download" /\ pc' = "report"
        /\ UNCHANGED <<command, steady, rows, attached>>
        /\ errors \subseteq errors' /\ gaps \subseteq gaps'
    BY <1>15 DEF Download, StageFails, Goto, disk, results, observed
  <2>2. WrittenLists' = WrittenLists /\ MapWritten
    BY <2>1 DEF WrittenLists, MapWritten
  <2>. QED  BY <2>1, <2>2, CapturedKept
<1>16. CASE \/ \E i \in Item : Post(i) \/ Remove(i)
            \/ \E tools \in Exposures : Expose(tools)
  <2>1. /\ UNCHANGED <<pc, coll, command, errors, gaps, rows, attached>>
        /\ steady' \subseteq steady
    BY <1>16 DEF Post, Remove, Expose, disk, reading, results, observed
  <2>2. WrittenLists' = WrittenLists /\ MapWritten' = MapWritten
    BY <2>1 DEF WrittenLists, WrittenBefore, ReadBefore, RecordsFirst,
                MapWritten
  <2>. QED  BY <2>1, <2>2, CapturedKept
<1>. QED
  BY <1>3, <1>4, <1>5, <1>6, <1>7, <1>8, <1>9, <1>10, <1>11, <1>12, <1>13,
     <1>14, <1>15, <1>16
  DEF Next, Program, Resume, Environment

\* A sync that reports no error has, not missing, every row of what was posted
\* throughout it, except in the lists it names as gaps (_result_status over
\* ingest_metadata and _ingest_discussions).
THEOREM StatusIsHonestAlways == Spec => []StatusIsHonest
<1> DEFINE IInv == /\ TypeOK /\ Reading /\ Shown
                   /\ Placed /\ SteadyIsPosted /\ Accounted /\ Captured
<1>1. Init => IInv
  <2>1. Init => /\ Reading /\ Shown /\ Placed /\ SteadyIsPosted
                /\ ReadLists = {} /\ WrittenLists = {} /\ ~MapWritten
    BY DEF Init, Reading, Shown, Placed, SteadyIsPosted, ReadLists,
           WrittenLists, MapWritten
  <2>2. Init => Accounted /\ Captured
    BY <2>1 DEF Accounted, Captured, RowCaptured, FileCaptured
  <2>. QED  BY InitType, <2>1, <2>2
<1>2. IInv /\ [Next]_vars => IInv'
  BY TypeStep, ReadingStep, PlacedStep, SteadyStep, AccountedStep, CapturedStep
<1>3. IInv => StatusIsHonest
  <2>. SUFFICES ASSUME IInv, pc = "report", command = "sync", errors = {},
                       NEW i \in steady
                PROVE  \/ CollectionOf[i] \in gaps
                       \/ /\ rows[i] = "present"
                          /\ i \in Attached => attached[i] = "present"
    BY DEF StatusIsHonest
  <2>1. RowCaptured /\ FileCaptured
    BY DEF Captured
  <2>2. WrittenLists = Collections /\ MapWritten
    BY DEF WrittenLists, MapWritten
  <2>3. i \in Item /\ CollectionOf[i] \in Collections
    BY ItemAssumption DEF TypeOK
  <2>4. CollectionOf[i] \in gaps \/ rows[i] = "present"
    BY <2>1, <2>2, <2>3 DEF RowCaptured
  <2>5. i \in Attached => CollectionOf[i] \in gaps \/ attached[i] = "present"
    BY <2>1, <2>2 DEF FileCaptured, Attached, Of
  <2>. QED  BY <2>4, <2>5
<1>. QED  BY <1>1, <1>2, <1>3, PTL DEF Spec
-----------------------------------------------------------------------------
(* The record *)

\* The discussions are complete only once they have been read.
DiscussionsRead ==
    "discussions" \in whole => \/ pc \in {"rows", "record"} /\ coll = "discussions"
                               \/ pc \in {"download", "report"}

\* What a record is about to call complete is on disk.
RecordHolds ==
    pc = "record" /\ ~RecordsFirst(coll) /\ coll \in whole =>
        \A i \in Of(coll) \cap seen : rows[i] = "present"

\* A run that leaves a list, the discussions at most, by its end or a failure.
LEMMA RecordReading ==
    ASSUME TypeOK, DiscussionsRead, pc = "fetch", NEW complete \in BOOLEAN,
           AfterList(complete),
           whole' = IF complete THEN whole \cup {coll} ELSE whole
    PROVE  DiscussionsRead' /\ RecordHolds'
<1>0. "discussions" \notin whole
  BY DEF DiscussionsRead
<1>1. DiscussionsRead'
  BY <1>0, AfterListGoes DEF DiscussionsRead
<1>2. RecordHolds'
  <2>. SUFFICES ASSUME pc' = "record", ~RecordsFirst(coll'), coll' \in whole'
                PROVE  FALSE
    BY DEF RecordHolds
  <2>1. coll # "toc" /\ coll' = coll
    BY AfterListGoes
  <2>2. coll = "discussions" /\ ~complete
    BY <2>1 DEF AfterList, Goto, RecordsFirst
  <2>. QED  BY <1>0, <2>1, <2>2
<1>. QED  BY <1>1, <1>2

\* One step per action.
LEMMA RecordStep ==
    ASSUME TypeOK, Placed, DiscussionsRead, RecordHolds, [Next]_vars
    PROVE  DiscussionsRead' /\ RecordHolds'
<1>1. ASSUME whole' = whole, pc \in {"idle", "map", "mark", "stages"},
             pc' # "record"
      PROVE  DiscussionsRead' /\ RecordHolds'
  BY <1>1 DEF DiscussionsRead, RecordHolds
<1>2. ASSUME whole' = {}, pc' # "record"
      PROVE  DiscussionsRead' /\ RecordHolds'
  BY <1>2 DEF DiscussionsRead, RecordHolds
<1>3. CASE \/ UNCHANGED vars \/ \E i \in Item : Post(i) \/ Remove(i)
           \/ \E tools \in Exposures : Expose(tools)
  <2>1. UNCHANGED <<pc, coll, whole, seen, rows>>
    BY <1>3 DEF vars, Post, Remove, Expose, disk, reading
  <2>. QED  BY <2>1 DEF DiscussionsRead, RecordHolds, RecordsFirst, Of
<1>4. CASE Sync \/ BeginInit \/ ResumeInit
  BY <1>4, <1>1
  DEF Sync, BeginInit, ResumeInit, Start, Enter, Goto, reading
<1>5. ASSUME NEW p \in SUBSET todo, Page(p)
      PROVE  DiscussionsRead' /\ RecordHolds'
  <2>1. CASE LastPage(p)
    BY <1>5, <2>1, RecordReading DEF Page
  <2>2. CASE ~LastPage(p)
    BY <1>5, <2>2 DEF Page, DiscussionsRead, RecordHolds
  <2>. QED  BY <2>1, <2>2
<1>6. CASE Unavailable
  BY <1>6, RecordReading DEF Unavailable
<1>7. CASE ListFails
  BY <1>7, RecordReading DEF ListFails
<1>8. CASE Record \/ MergeRows
  <2>. whole' = whole /\ seen' = seen /\ pc \in {"record", "rows"} /\ coll # "toc"
    BY <1>8 DEF Record, MergeRows, Placed
  <2>1. CASE NextList
    BY <2>1, NextListGoes DEF DiscussionsRead, RecordHolds
  <2>2. CASE Record /\ ~NextList
    BY <2>2 DEF Record, Goto, DiscussionsRead, RecordHolds
  <2>3. CASE MergeRows /\ ~NextList
    <3>1. pc' = "record" /\ coll' = coll
      BY <2>3 DEF MergeRows, Goto
    <3>2. \A i \in Of(coll) \cap seen : rows'[i] = "present"
      BY <2>3 DEF MergeRows, Merged, Of
    <3>. QED  BY <3>1, <3>2 DEF DiscussionsRead, RecordHolds, Of
  <2>. QED  BY <1>8, <2>1, <2>2, <2>3
<1>9. CASE WriteMap \/ InitStops \/ Report \/ Stop
  BY <1>9, <1>2 DEF WriteMap, InitStops, Report, Stop, Forget, Goto, TypeOK
<1>10. CASE MarkMetadata
  BY <1>10, <1>1 DEF MarkMetadata, Goto, reading
<1>11. CASE Stages
  BY <1>11, <1>1 DEF Stages, Enter, Goto
<1>12. CASE Download \/ StageFails
  BY <1>12
  DEF Download, StageFails, Goto, reading, DiscussionsRead, RecordHolds
<1>. QED
  BY <1>3, <1>4, <1>5, <1>6, <1>7, <1>8, <1>9, <1>10, <1>11, <1>12
  DEF Next, Program, Resume, Environment

\* No kill leaves quizzes or discussions recorded as complete over rows that
\* lack what was listed (the order of writes in ingest_metadata and
\* _ingest_discussions).
THEOREM CompleteIsCapturedAlways == Spec => CompleteIsCaptured
<1> DEFINE IInv == TypeOK /\ Placed /\ DiscussionsRead /\ RecordHolds
<1> DEFINE Captures ==
        \A c \in Optional \cap {"quizzes", "discussions"} :
            coverage'[c] = "complete" /\ coverage[c] # "complete" =>
                \A i \in Of(c) \cap seen : rows[i] = "present"
<1>1. Init => IInv
  BY InitType DEF Init, Placed, DiscussionsRead, RecordHolds
<1>2. IInv /\ [Next]_vars => IInv'
  BY TypeStep, PlacedStep, RecordStep
<1>3. IInv /\ [Next]_vars => [Captures]_vars
  <2>. SUFFICES ASSUME IInv, [Next]_vars,
                       NEW c \in Optional \cap {"quizzes", "discussions"},
                       coverage'[c] = "complete", coverage[c] # "complete",
                       NEW i \in Of(c) \cap seen
                PROVE  rows[i] = "present"
    OBVIOUS
  <2>1. CASE Record
    <3>1. coll = c /\ Outcome = "complete"
      BY <2>1 DEF Record, TypeOK
    <3>2. coll \in whole /\ pc = "record" /\ ~RecordsFirst(coll)
      BY <2>1, <3>1 DEF Outcome, Record, RecordsFirst
    <3>. QED  BY <3>1, <3>2 DEF RecordHolds
  <2>2. CASE ~Record
    <3>1. coverage' = coverage
      BY <2>2
      DEF Next, Program, Resume, Environment, Sync, BeginInit, Start,
          ResumeInit, Page, Unavailable, ListFails, MergeRows, WriteMap,
          InitStops, MarkMetadata, Stages, Download, StageFails, Report, Stop,
          Post, Remove, Expose, vars, disk
    <3>. QED  BY <3>1
  <2>. QED  BY <2>1, <2>2
<1>. QED  BY <1>1, <1>2, <1>3, PTL DEF Spec, CompleteIsCaptured
=============================================================================
