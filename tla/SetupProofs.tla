----------------------------- MODULE SetupProofs -----------------------------
(***************************************************************************)
(* Proofs about what a student sets up: the agent skills of a destination  *)
(* (Skills) and the resumable `a2l init` (Onboarding), for any number of   *)
(* skills, releases, files of the user's, courses, terms and faults.       *)
(***************************************************************************)
EXTENDS Skills, Onboarding, FiniteSetTheorems, WellFoundedInduction, TLAPS

-----------------------------------------------------------------------------
(* Extremes of sets of numbers *)

LEMMA SmallestExists ==
    ASSUME NEW S \in SUBSET Nat, S # {}
    PROVE  Min(S) \in S /\ \A y \in S : Min(S) <= y
<1> DEFINE T == {0..x : x \in S}
<1>1. T \subseteq FiniteSubsetsOf(Nat) /\ T # {}
  <2>1. ASSUME NEW x \in S
        PROVE  0..x \in FiniteSubsetsOf(Nat)
    <3>1. IsFiniteSet(0..x)
      BY FS_Interval
    <3>2. 0..x \in SUBSET Nat
      OBVIOUS
    <3>3. QED
      BY <3>1, <3>2 DEF FiniteSubsetsOf
  <2>2. QED
    BY <2>1
<1>2. PICK t \in T : \A u \in T : ~(<<u, t>> \in StrictSubsetOrdering(Nat))
  <2> HIDE DEF T
  <2>1. QED
    BY <1>1, FS_StrictSubsetOrderingWellFounded, WFMin
<1>3. PICK x \in S : t = 0..x
  BY <1>2
<1>4. ASSUME NEW y \in S
      PROVE  x <= y
  <2>1. SUFFICES ASSUME y < x PROVE FALSE
    OBVIOUS
  <2>2. 0..y \subseteq 0..x /\ 0..y # 0..x /\ 0..y \in SUBSET Nat /\ 0..x \in SUBSET Nat
    <3>1. x \in 0..x /\ x \notin 0..y
      BY <2>1
    <3>2. QED
      BY <2>1, <3>1
  <2>3. <<0..y, 0..x>> \in StrictSubsetOrdering(Nat)
    BY <2>2 DEF StrictSubsetOrdering
  <2>4. QED
    BY <2>3, <1>2, <1>3
<1>5. QED
  BY <1>3, <1>4 DEF Min

-----------------------------------------------------------------------------
(* Skills: the inductive invariant *)

Rows == [status : {"created", "updated", "unchanged", "conflict"},
         version : Releases \cup {0}, local : SUBSET Locals, discards : BOOLEAN]

\* While an approved plan is applied.
Applying == at \in {"describe", "copy", "away", "in", "drop"}

Planned ==
    /\ Applying \/ at \in {"asked", "offered"} => shown \in [Slugs -> Rows]
    /\ sidecar \in [version : Releases \cup {0}, recorded : Releases \cup {0}]
    /\ at \in {"away", "in"} => staged \in Copies \cup {Link}

\* Each backup that was left behind cost a fault, so a number is free.
BackupsAreFaults ==
    /\ at \in {"in", "drop"} => aside <= faults + 1
    /\ \A s \in Slugs, n \in Numbers :
          backups[s][n] # NoTree =>
              n <= faults \/ (at \in {"in", "drop"} /\ s = slug /\ n = aside)

Backed(s) == UNION {LocalsOf(backups[s][n]) : n \in Numbers}
BackedBeside(s) == UNION {LocalsOf(backups[s][n]) : n \in Numbers \ {aside}}

\* The files that were promised are in the tree that replaces the old one, or
\* need not come from it.
StagedKeeps ==
    /\ at = "away" => promised[slug] \subseteq LocalsOf(staged) \cup Backed(slug)
    /\ at = "in" => promised[slug] \subseteq LocalsOf(staged) \cup BackedBeside(slug)
    /\ at = "drop" => promised[slug] \subseteq LocalsOf(dest[slug]) \cup BackedBeside(slug)

\* A link preserves nothing, and replaces only what has nothing to preserve.
LinkReplacesNothing ==
    /\ at = "copy" => ~link
    /\ link => \A s \in Slugs :
        /\ \/ at = "describe" /\ s >= slug
           \/ at \in {"away", "in", "drop"} /\ s > slug
        /\ shown[s].status \in {"created", "updated"}
        => promised[s] \subseteq Backed(s)

\* What was not Agent2Learn's is a conflict of the approved plan.
ForeignIsConflict ==
    /\ Applying => \A s \in foreign : shown[s].status = "conflict"
    /\ at \in {"copy", "away", "in", "drop"} =>
          shown[slug].status \in {"created", "updated"}

\* Metadata is never of a later release than the content it describes, and
\* the content never of a later one than what is, or is being, installed.
DescribedBefore(tree) ==
    Managed(tree) =>
        /\ tree.recorded <= tree.content /\ tree.content <= wheel
        /\ at = "confirm" => tree.content <= latest
MetadataIsOlder ==
    /\ \A s \in Slugs : DescribedBefore(dest[s])
    /\ \A s \in Slugs, n \in Numbers : DescribedBefore(backups[s][n])
    /\ DescribedBefore(staged)
    /\ at = "copy" => sidecar.recorded <= wheel

SkillsInv ==
    /\ TypeOK /\ Planned
    /\ BackupsAreFaults
    /\ PromisedSurvive /\ StagedKeeps /\ LinkReplacesNothing
    /\ ForeignIsKept /\ ForeignIsConflict
    /\ MetadataIsOlder

-----------------------------------------------------------------------------
(* Skills: lemmas *)

LEMMA LocalsTyped ==
    ASSUME NEW tree \in Trees
    PROVE  /\ LocalsOf(tree) \subseteq Locals
           /\ IsCopy(tree) => tree \in Copies
BY TreesAssumption DEF LocalsOf, IsCopy, Trees, Copies

LEMMA NoLocals ==
    /\ LocalsOf(NoTree) = {} /\ LocalsOf(Foreign) = {} /\ LocalsOf(Link) = {}
    /\ ~Managed(NoTree) /\ ~Managed(Foreign) /\ ~Managed(Link)
BY DEF LocalsOf, Managed, IsCopy

\* A new copy.
LEMMA CopyIs ==
    ASSUME NEW c \in Releases, NEW v \in Releases \cup {0},
           NEW r \in Releases \cup {0}, NEW l \in SUBSET Locals,
           NEW tree, tree = [content |-> c, version |-> v, recorded |-> r, local |-> l]
    PROVE  /\ tree \in Copies /\ tree \in Trees
           /\ LocalsOf(tree) = l
           /\ Managed(tree) <=> v # 0
           /\ tree.content = c /\ tree.recorded = r
<1>1. tree \in Copies
  BY DEF Copies
<1>2. IsCopy(tree)
  BY <1>1, TreesAssumption DEF IsCopy
<1>3. QED
  BY <1>1, <1>2 DEF LocalsOf, Managed, Trees

LEMMA RowTyped ==
    ASSUME NEW tree \in Trees, NEW r \in Releases, link \in BOOLEAN, code \in Releases
    PROVE  Row(tree) \in Rows
<1>1. Status(tree, code) \in {"created", "updated", "unchanged", "conflict"}
  BY TreesAssumption DEF Status, Managed, IsCopy
<1>2. (IF Managed(tree) THEN tree.version ELSE 0) \in Releases \cup {0}
  BY LocalsTyped DEF Managed, Copies
<1>3. (IF Status(tree, code) = "updated" THEN LocalsOf(tree) ELSE {}) \in SUBSET Locals
  BY LocalsTyped
<1>4. QED
  BY <1>1, <1>2, <1>3 DEF Row, Rows

LEMMA PlanFacts ==
    ASSUME TypeOK, NEW s \in Slugs
    PROVE  /\ Plan \in [Slugs -> Rows]
           /\ Plan[s].local \subseteq LocalsOf(dest[s])
           /\ dest[s] = Foreign => Plan[s].status = "conflict"
           /\ link /\ Plan[s].status \in {"created", "updated"} => LocalsOf(dest[s]) = {}
<1>1. Plan \in [Slugs -> Rows]
  BY RowTyped DEF TypeOK, Plan
<1>2. Plan[s] = Row(dest[s]) /\ dest[s] \in Trees /\ link \in BOOLEAN
  BY DEF TypeOK, Plan
<1>3. Plan[s].local \subseteq LocalsOf(dest[s])
  BY <1>2 DEF Row
<1>4. dest[s] = Foreign => Plan[s].status = "conflict"
  BY <1>2, TreesAssumption DEF Row, Status, Managed, IsCopy
<1>5. ASSUME link, Plan[s].status \in {"created", "updated"}
      PROVE  LocalsOf(dest[s]) = {}
  <2>1. Status(dest[s], code) \in {"created", "updated"}
    BY <1>2, <1>5 DEF Row
  <2>2. CASE IsCopy(dest[s])
    <3>1. dest[s].local = {}
      BY <2>1, <2>2, <1>5 DEF Status, Managed, IsCopy
    <3>2. QED
      BY <3>1, <2>2 DEF LocalsOf
  <2>3. CASE ~IsCopy(dest[s])
    BY <2>3 DEF LocalsOf
  <2>4. QED
    BY <2>2, <2>3
<1>6. QED
  BY <1>1, <1>3, <1>4, <1>5

\* A number that no backup has: each one that was left behind cost a fault.
LEMMA FreeBackupIs ==
    ASSUME TypeOK, BackupsAreFaults, at = "away"
    PROVE  /\ FreeBackup \in Numbers /\ FreeBackup <= faults + 1
           /\ backups[slug][FreeBackup] = NoTree
<1> DEFINE free == {n \in Numbers : backups[slug][n] = NoTree}
<1>1. faults + 1 \in free
  <2>1. faults \in Nat /\ faults <= MaxFaults /\ MaxFaults \in Nat /\ slug \in Slugs
    BY SkillsAssumption DEF TypeOK
  <2>2. faults + 1 \in Numbers
    BY <2>1 DEF Numbers
  <2>3. ~(faults + 1 <= faults)
    BY <2>1
  <2>4. backups[slug][faults + 1] = NoTree
    BY <2>1, <2>2, <2>3 DEF BackupsAreFaults
  <2>5. QED
    BY <2>2, <2>4
<1>2. free \in SUBSET Nat
  BY SkillsAssumption DEF Numbers
<1>3. FreeBackup \in free /\ \A n \in free : FreeBackup <= n
  <2> HIDE DEF free
  <2>1. Min(free) \in free /\ \A n \in free : Min(free) <= n
    BY <1>1, <1>2, SmallestExists
  <2>2. FreeBackup = Min(free)
    BY DEF FreeBackup, free
  <2>3. QED
    BY <2>1, <2>2
<1>4. QED
  BY <1>1, <1>3

LEMMA BackedIs ==
    ASSUME NEW s \in Slugs, NEW n \in Numbers
    PROVE  /\ LocalsOf(backups[s][n]) \subseteq Backed(s)
           /\ n # aside => LocalsOf(backups[s][n]) \subseteq BackedBeside(s)
           /\ BackedBeside(s) \subseteq Backed(s)
BY DEF Backed, BackedBeside

LEMMA PromisedIs ==
    PromisedSurvive <=>
        \A s \in Slugs : promised[s] \subseteq LocalsOf(dest[s]) \cup Backed(s)
BY DEF PromisedSurvive, Backed

LEMMA SkillsInvInit == Init => SkillsInv
<1> SUFFICES ASSUME Init PROVE SkillsInv
  OBVIOUS
<1>0. 1 \in Slugs /\ 1 \in Releases /\ MaxFaults \in Nat
  BY SkillsAssumption DEF Slugs, Releases
<1>1. [content |-> 1, version |-> 0, recorded |-> 0, local |-> {}] \in Trees
  BY <1>0, CopyIs
<1>2. \A s \in Slugs : /\ dest[s] \in Trees
                       /\ ~Managed(dest[s])
  <2>1. ~Managed([content |-> 1, version |-> 0, recorded |-> 0, local |-> {}])
    BY DEF Managed
  <2>2. \A s \in Slugs :
            dest[s] \in {NoTree, Foreign,
                        [content |-> 1, version |-> 0, recorded |-> 0, local |-> {}]}
    BY DEF Init
  <2>3. QED
    BY <1>1, <2>1, <2>2, NoLocals DEF Trees
<1>3. TypeOK
  <2>1. dest \in [Slugs -> Trees]
    BY <1>2 DEF Init
  <2>2. backups \in [Slugs -> [Numbers -> Trees]]
    BY DEF Init, Trees
  <2>3. promised \in [Slugs -> SUBSET Locals] /\ foreign \subseteq Slugs
    BY DEF Init
  <2>4. staged \in Trees /\ aside \in Numbers \cup {0} /\ faults \in 0..MaxFaults
    BY <1>0 DEF Init, Trees
  <2>5. QED
    BY <2>1, <2>2, <2>3, <2>4, <1>0 DEF Init, TypeOK
<1>4. Planned
  BY DEF Init, Planned, Applying
<1>5. BackupsAreFaults
  BY DEF Init, BackupsAreFaults
<1>6. PromisedSurvive /\ StagedKeeps /\ LinkReplacesNothing
  BY DEF Init, PromisedSurvive, StagedKeeps, LinkReplacesNothing
<1>7. ForeignIsKept /\ ForeignIsConflict
  BY DEF Init, ForeignIsKept, ForeignIsConflict, Applying
<1>8. MetadataIsOlder
  BY <1>2, NoLocals DEF Init, MetadataIsOlder, DescribedBefore
<1>9. QED
  BY <1>3, <1>4, <1>5, <1>6, <1>7, <1>8 DEF SkillsInv

\* What ends a command leaves to be shown of the destination.
LEMMA EndsKeeps ==
    ASSUME SkillsInv, Ends,
           dest' \in [Slugs -> Trees], backups' \in [Slugs -> [Numbers -> Trees]],
           wheel' \in Releases, promised' \in [Slugs -> SUBSET Locals],
           foreign' \subseteq Slugs, faults' \in 0..MaxFaults,
           \A s \in Slugs, n \in Numbers : backups'[s][n] # NoTree => n <= faults',
           PromisedSurvive', ForeignIsKept', wheel' = wheel,
           \A s \in Slugs : DescribedBefore(dest[s])',
           \A s \in Slugs, n \in Numbers : DescribedBefore(backups[s][n])'
    PROVE  SkillsInv'
<1>0. 1 \in Slugs /\ 1 \in Releases
  BY SkillsAssumption DEF Slugs, Releases
<1>1. TypeOK'
  BY <1>0 DEF Ends, TypeOK, Trees
<1>2. Planned'
  BY DEF Ends, Planned, Applying
<1>3. BackupsAreFaults'
  BY DEF Ends, BackupsAreFaults
<1>4. StagedKeeps' /\ LinkReplacesNothing' /\ ForeignIsConflict'
  BY DEF Ends, StagedKeeps, LinkReplacesNothing, ForeignIsConflict, Applying
<1>5. DescribedBefore(staged)'
  BY NoLocals DEF Ends, DescribedBefore
<1>6. MetadataIsOlder'
  BY <1>5 DEF MetadataIsOlder, Ends
<1>7. QED
  BY <1>1, <1>2, <1>3, <1>4, <1>6 DEF SkillsInv

\* A command that ends without having touched the destination.
LEMMA EndsUntouched ==
    ASSUME SkillsInv, Ends, UNCHANGED <<disk, wheel, history>>,
           \/ at \notin {"in", "drop"} /\ UNCHANGED faults
           \/ Fault
    PROVE  SkillsInv'
<1>1. faults \in Nat /\ faults' \in 0..MaxFaults /\ faults <= faults'
  BY SkillsAssumption DEF SkillsInv, TypeOK, Fault
<1>2. ASSUME NEW s \in Slugs, NEW n \in Numbers, backups'[s][n] # NoTree
      PROVE  n <= faults'
  <2>1. backups[s][n] # NoTree
    BY <1>2 DEF disk
  <2>2. n \in Nat /\ aside \in Nat
    BY SkillsAssumption DEF Numbers, SkillsInv, TypeOK
  <2>3. CASE at \notin {"in", "drop"}
    BY <1>1, <2>1, <2>2, <2>3 DEF SkillsInv, BackupsAreFaults
  <2>4. CASE at \in {"in", "drop"} /\ Fault
    BY <1>1, <2>1, <2>2, <2>4 DEF SkillsInv, BackupsAreFaults, Fault
  <2>5. QED
    BY <2>3, <2>4
<1>3. PromisedSurvive' /\ ForeignIsKept'
  BY DEF SkillsInv, PromisedSurvive, ForeignIsKept, disk, history
<1>4. /\ \A s \in Slugs : DescribedBefore(dest[s])'
      /\ \A s \in Slugs, n \in Numbers : DescribedBefore(backups[s][n])'
  BY DEF SkillsInv, MetadataIsOlder, DescribedBefore, Managed, IsCopy, disk, Ends
<1>5. QED
  BY <1>1, <1>2, <1>3, <1>4, EndsKeeps DEF SkillsInv, TypeOK, disk, history

\* The student's yes: what is promised is there, and what is not Agent2Learn's.
LEMMA ApprovedKeeps ==
    ASSUME SkillsInv, Approved, shown \in [Slugs -> Rows], UNCHANGED <<disk, wheel>>
    PROVE  /\ promised' \in [Slugs -> SUBSET Locals] /\ foreign' \subseteq Slugs
           /\ PromisedSurvive' /\ ForeignIsKept'
<1>1. promised' \in [Slugs -> SUBSET Locals]
  <2>1. \A s \in Slugs : shown[s].local \in SUBSET Locals
    BY DEF Rows
  <2>2. promised \in [Slugs -> SUBSET Locals]
    BY DEF SkillsInv, TypeOK
  <2>3. QED
    BY <2>1, <2>2 DEF Approved
<1>2. ASSUME NEW s \in Slugs
      PROVE  promised'[s] \subseteq LocalsOf(dest'[s]) \cup Backed(s)'
  <2>1. promised'[s] = promised[s] \cup (shown[s].local \cap LocalsOf(dest[s]))
    BY DEF Approved
  <2>2. promised[s] \subseteq LocalsOf(dest[s]) \cup Backed(s)
    BY PromisedIs DEF SkillsInv
  <2>3. dest' = dest /\ Backed(s)' = Backed(s)
    BY DEF disk, Backed
  <2>4. QED
    BY <2>1, <2>2, <2>3
<1>3. PromisedSurvive'
  BY <1>2 DEF PromisedSurvive, Backed, LocalsOf, IsCopy
<1>4. foreign' \subseteq Slugs /\ ForeignIsKept'
  BY DEF Approved, ForeignIsKept, disk
<1>5. QED
  BY <1>1, <1>3, <1>4

\* An approved plan is that of the destination as it is at the approval.
LEMMA ApprovalKeeps ==
    ASSUME SkillsInv, at = "asked", Approved, Go("describe"),
           shown' = Plan, UNCHANGED <<disk, wheel, options, staging, faults>>
    PROVE  SkillsInv'
<1>0. TypeOK /\ shown \in [Slugs -> Rows] /\ slug \in Slugs
  BY DEF SkillsInv, Planned, TypeOK
<1>1. /\ promised' \in [Slugs -> SUBSET Locals] /\ foreign' \subseteq Slugs
      /\ PromisedSurvive' /\ ForeignIsKept'
  BY <1>0, ApprovedKeeps
<1>2. TypeOK'
  BY <1>0, <1>1 DEF TypeOK, Go, disk, options, staging
<1>3. Planned'
  BY <1>0, PlanFacts DEF SkillsInv, Planned, Applying, Go, staging
<1>4. BackupsAreFaults' /\ StagedKeeps'
  BY DEF SkillsInv, BackupsAreFaults, StagedKeeps, Go, disk
<1>5. ASSUME link', NEW s \in Slugs, shown'[s].status \in {"created", "updated"}
      PROVE  promised'[s] \subseteq Backed(s)'
  <2>1. LocalsOf(dest[s]) = {}
    BY <1>0, <1>5, PlanFacts DEF options
  <2>2. promised'[s] = promised[s]
    BY <2>1, <1>0 DEF Approved, SkillsInv, TypeOK
  <2>3. promised[s] \subseteq Backed(s)
    BY <2>1, PromisedIs DEF SkillsInv
  <2>4. QED
    BY <2>2, <2>3 DEF Backed, disk
<1>6. LinkReplacesNothing'
  BY <1>5 DEF LinkReplacesNothing, Go
<1>7. \A s \in foreign' : shown'[s].status = "conflict"
  BY <1>0, PlanFacts DEF Approved
<1>8. ForeignIsConflict'
  BY <1>7 DEF ForeignIsConflict, Go
<1>9. MetadataIsOlder'
  BY DEF SkillsInv, MetadataIsOlder, DescribedBefore, disk, staging, Go
<1>10. QED
  BY <1>1, <1>2, <1>3, <1>4, <1>6, <1>8, <1>9 DEF SkillsInv

LEMMA BeginInstallKeeps ==
    SkillsInv /\ (BeginInstall \/ AcceptOffer) => SkillsInv'
<1> SUFFICES ASSUME SkillsInv, BeginInstall \/ AcceptOffer PROVE SkillsInv'
  OBVIOUS
<1>0. /\ at \in {"idle", "offered"} /\ at' = "start"
      /\ command' \in {"install", "upgrade"} /\ force' \in BOOLEAN /\ link' \in BOOLEAN
      /\ code' \in Releases
      /\ UNCHANGED <<disk, wheel, latest, shown, staging, history, faults>>
  BY DEF BeginInstall, AcceptOffer, Go, SkillsInv, TypeOK, options
<1>1. TypeOK'
  BY <1>0 DEF SkillsInv, TypeOK, disk, staging, history
<1>2. Planned' /\ BackupsAreFaults' /\ StagedKeeps' /\ LinkReplacesNothing'
  BY <1>0 DEF SkillsInv, Planned, Applying, BackupsAreFaults, StagedKeeps,
         LinkReplacesNothing, disk, staging, history
<1>3. PromisedSurvive' /\ ForeignIsKept' /\ ForeignIsConflict'
  BY <1>0 DEF SkillsInv, PromisedSurvive, ForeignIsKept, ForeignIsConflict, Applying,
         disk, history
<1>4. MetadataIsOlder'
  BY <1>0 DEF SkillsInv, MetadataIsOlder, DescribedBefore, disk, staging
<1>5. QED
  BY <1>1, <1>2, <1>3, <1>4 DEF SkillsInv

LEMMA ValidateSourceKeeps == SkillsInv /\ ValidateSource => SkillsInv'
<1> SUFFICES ASSUME SkillsInv, ValidateSource PROVE SkillsInv'
  OBVIOUS
<1>1. CASE Ends
  BY <1>1, EndsUntouched DEF ValidateSource
<1>2. CASE ~Ends
  <2>0. /\ at = "start" /\ at' = "plan"
        /\ UNCHANGED <<disk, wheel, options, shown, staging, history, faults>>
    BY <1>2 DEF ValidateSource, Go
  <2>1. TypeOK'
    BY <2>0 DEF SkillsInv, TypeOK, disk, options, staging, history
  <2>2. Planned' /\ BackupsAreFaults' /\ StagedKeeps' /\ LinkReplacesNothing'
    BY <2>0 DEF SkillsInv, Planned, Applying, BackupsAreFaults, StagedKeeps,
                LinkReplacesNothing, disk, staging, history
  <2>3. PromisedSurvive' /\ ForeignIsKept' /\ ForeignIsConflict'
    BY <2>0 DEF SkillsInv, PromisedSurvive, ForeignIsKept, ForeignIsConflict, Applying,
                disk, history
  <2>4. MetadataIsOlder'
    BY <2>0 DEF SkillsInv, MetadataIsOlder, DescribedBefore, disk, staging
  <2>5. QED
    BY <2>1, <2>2, <2>3, <2>4 DEF SkillsInv
<1>3. QED
  BY <1>1, <1>2

LEMMA PreviewKeeps == SkillsInv /\ (Preview \/ Offer) => SkillsInv'
<1> SUFFICES ASSUME SkillsInv, Preview \/ Offer PROVE SkillsInv'
  OBVIOUS
<1>0. /\ at \in {"plan", "offer"} /\ at' \in {"asked", "offered", "done"}
      /\ shown' = Plan
      /\ UNCHANGED <<disk, wheel, options, staging, history, faults>>
  BY DEF Preview, Offer, Go
<1>1. TypeOK'
  BY <1>0 DEF SkillsInv, TypeOK, disk, options, staging, history
<1>2. Planned'
  BY <1>0, PlanFacts DEF SkillsInv, Planned, Applying, TypeOK, staging
<1>3. BackupsAreFaults' /\ StagedKeeps' /\ LinkReplacesNothing'
  BY <1>0 DEF SkillsInv, BackupsAreFaults, StagedKeeps,
         LinkReplacesNothing, disk, staging, history
<1>4. PromisedSurvive' /\ ForeignIsKept' /\ ForeignIsConflict'
  BY <1>0 DEF SkillsInv, PromisedSurvive, ForeignIsKept, ForeignIsConflict, Applying,
         disk, history
<1>5. MetadataIsOlder'
  BY <1>0 DEF SkillsInv, MetadataIsOlder, DescribedBefore, disk, staging
<1>6. QED
  BY <1>1, <1>2, <1>3, <1>4, <1>5 DEF SkillsInv

LEMMA ApproveKeeps == SkillsInv /\ Approve => SkillsInv'
<1> SUFFICES ASSUME SkillsInv, Approve PROVE SkillsInv'
  OBVIOUS
<1>1. CASE Plan = shown /\ Go("describe") /\ UNCHANGED <<options, shown, staging>>
  BY <1>1, ApprovalKeeps DEF Approve
<1>2. CASE Plan # shown /\ Ends
  <2>1. /\ shown \in [Slugs -> Rows] /\ UNCHANGED <<disk, wheel, faults>>
        /\ at = "asked" /\ Approved
    BY DEF SkillsInv, Planned, Approve
  <2>2. /\ promised' \in [Slugs -> SUBSET Locals] /\ foreign' \subseteq Slugs
        /\ PromisedSurvive' /\ ForeignIsKept'
    BY <2>1, ApprovedKeeps
  <2>3. \A s \in Slugs, n \in Numbers : backups'[s][n] # NoTree => n <= faults'
    BY <2>1 DEF SkillsInv, BackupsAreFaults, disk
  <2>4. /\ \A s \in Slugs : DescribedBefore(dest[s])'
        /\ \A s \in Slugs, n \in Numbers : DescribedBefore(backups[s][n])'
    BY <1>2, <2>1 DEF SkillsInv, MetadataIsOlder, DescribedBefore, Managed, IsCopy,
                      disk, Ends
  <2>5. QED
    BY <1>2, <2>1, <2>2, <2>3, <2>4, EndsKeeps DEF SkillsInv, TypeOK, disk
<1>3. QED
  BY <1>1, <1>2 DEF Approve

LEMMA UpgradeKeeps ==
    SkillsInv /\ (BeginUpgrade \/ ApplyUpgrade \/ VerifyInstallation) => SkillsInv'
<1> SUFFICES ASSUME SkillsInv, BeginUpgrade \/ ApplyUpgrade \/ VerifyInstallation
             PROVE  SkillsInv'
  OBVIOUS
<1>1. CASE Ends
  <2>1. ~BeginUpgrade
    BY <1>1 DEF BeginUpgrade, Ends, Go
  <2>2. at \in {"confirm", "verify"} /\ UNCHANGED <<disk, history, faults>>
    BY <2>1 DEF ApplyUpgrade, VerifyInstallation
  <2>3. CASE UNCHANGED wheel
    BY <1>1, <2>2, <2>3, EndsUntouched
  <2>4. CASE ~UNCHANGED wheel
    BY <1>1, <2>1, <2>4 DEF ApplyUpgrade, VerifyInstallation, Go, Ends
  <2>5. QED
    BY <2>3, <2>4
<1>2. CASE ~Ends
  <2>0. /\ at \in {"idle", "confirm", "verify"} /\ at' \in {"confirm", "verify", "offer"}
        /\ UNCHANGED <<disk, shown, staging, history, faults>>
    BY <1>2 DEF BeginUpgrade, ApplyUpgrade, VerifyInstallation, Go
  <2>1. TypeOK'
    <3>1. /\ wheel' \in Releases /\ code' \in Releases /\ latest' \in Releases
          /\ command' \in {"install", "upgrade"}
          /\ force' \in BOOLEAN /\ link' \in BOOLEAN
      BY <1>2 DEF SkillsInv, TypeOK, BeginUpgrade, ApplyUpgrade, VerifyInstallation, options
    <3>2. QED
      BY <2>0, <3>1 DEF SkillsInv, TypeOK, disk, staging, history
  <2>2. Planned' /\ BackupsAreFaults' /\ StagedKeeps' /\ LinkReplacesNothing'
    BY <2>0 DEF SkillsInv, Planned, Applying, BackupsAreFaults, StagedKeeps,
           LinkReplacesNothing, disk, staging, history
  <2>3. PromisedSurvive' /\ ForeignIsKept' /\ ForeignIsConflict'
    BY <2>0 DEF SkillsInv, PromisedSurvive, ForeignIsKept, ForeignIsConflict, Applying,
           disk, history
  <2>4. ASSUME NEW tree \in Trees, DescribedBefore(tree)
        PROVE  /\ tree.recorded <= tree.content /\ tree.content <= wheel'
               /\ at' = "confirm" => tree.content <= latest'
               \/ ~Managed(tree)
    <3>0. SUFFICES ASSUME Managed(tree)
                   PROVE  /\ tree.recorded <= tree.content /\ tree.content <= wheel'
                          /\ at' = "confirm" => tree.content <= latest'
      OBVIOUS
    <3>1. tree.content \in Nat /\ wheel \in Nat /\ latest \in Nat
      BY <3>0, LocalsTyped, SkillsAssumption DEF Managed, Copies, Releases, SkillsInv, TypeOK
    <3>2. /\ tree.recorded <= tree.content /\ tree.content <= wheel
          /\ at = "confirm" => tree.content <= latest
      BY <2>4, <3>0 DEF DescribedBefore
    <3>3. CASE BeginUpgrade
      <4>1. wheel' = wheel /\ latest' \in Releases /\ latest' > wheel
        BY <3>3 DEF BeginUpgrade
      <4>2. latest' \in Nat
        BY <4>1, SkillsAssumption DEF Releases
      <4>3. QED
        BY <3>1, <3>2, <4>1, <4>2
    <3>4. CASE ApplyUpgrade
      BY <1>2, <3>2, <3>4 DEF ApplyUpgrade, Go
    <3>5. CASE VerifyInstallation
      BY <1>2, <3>2, <3>5 DEF VerifyInstallation, Go
    <3>6. QED
      BY <3>3, <3>4, <3>5
  <2>5. MetadataIsOlder'
    <3>1. \A tree \in Trees : DescribedBefore(tree) =>
              \/ ~Managed(tree)
              \/ /\ tree.recorded <= tree.content /\ tree.content <= wheel'
                 /\ at' = "confirm" => tree.content <= latest'
      BY <2>4
    <3>2. /\ \A s \in Slugs : dest[s] \in Trees /\ DescribedBefore(dest[s])
          /\ \A s \in Slugs, n \in Numbers :
                backups[s][n] \in Trees /\ DescribedBefore(backups[s][n])
          /\ staged \in Trees /\ DescribedBefore(staged)
      BY DEF SkillsInv, TypeOK, MetadataIsOlder
    <3>3. /\ \A s \in Slugs : DescribedBefore(dest[s])'
          /\ \A s \in Slugs, n \in Numbers : DescribedBefore(backups[s][n])'
          /\ DescribedBefore(staged)'
      BY <2>0, <3>1, <3>2 DEF DescribedBefore, Managed, IsCopy, disk, staging
    <3>4. QED
      BY <2>0, <3>3 DEF MetadataIsOlder
  <2>6. QED
    BY <2>1, <2>2, <2>3, <2>5 DEF SkillsInv
<1>3. QED
  BY <1>1, <1>2

LEMMA AdvanceIs ==
    ASSUME slug \in Slugs, Advance
    PROVE  /\ at' \in {"done", "describe"} /\ slug' \in Slugs
           /\ at' = "describe" => slug' = slug + 1
           /\ \A s \in Slugs : s >= slug + 1 => s > slug /\ s # slug
<1>1. LastSlug \in Nat /\ slug \in Nat
  BY SkillsAssumption DEF Slugs
<1>2. \A s \in Slugs : s >= slug + 1 => s > slug /\ s # slug
  BY <1>1 DEF Slugs
<1>3. CASE slug = LastSlug
  BY <1>1, <1>2, <1>3 DEF Advance, Go
<1>4. CASE slug # LastSlug
  <2>1. at' = "describe" /\ slug' = slug + 1
    BY <1>4 DEF Advance, Go
  <2>2. slug + 1 \in Slugs
    BY <1>1, <1>4 DEF Slugs
  <2>3. QED
    BY <2>1, <2>2, <1>2
<1>5. QED
  BY <1>3, <1>4

LEMMA LeaveAloneKeeps == SkillsInv /\ LeaveAlone => SkillsInv'
<1> SUFFICES ASSUME SkillsInv, LeaveAlone PROVE SkillsInv'
  OBVIOUS
<1>0. /\ at = "describe" /\ slug \in Slugs
      /\ UNCHANGED <<disk, wheel, options, shown, sidecar, staged, aside, history, faults>>
  BY DEF LeaveAlone, SkillsInv, TypeOK
<1>1. /\ at' \in {"done", "describe"} /\ slug' \in Slugs
      /\ at' = "describe" => slug' = slug + 1
      /\ \A s \in Slugs : s >= slug + 1 => s > slug /\ s # slug
  BY <1>0, AdvanceIs DEF LeaveAlone
<1>2. TypeOK'
  BY <1>0, <1>1 DEF SkillsInv, TypeOK, disk, options, history
<1>3. Planned' /\ BackupsAreFaults' /\ StagedKeeps'
  BY <1>0, <1>1 DEF SkillsInv, Planned, Applying, BackupsAreFaults, StagedKeeps, disk
<1>4. LinkReplacesNothing'
  <2>1. ASSUME link', NEW s \in Slugs, at' = "describe", s >= slug',
               shown'[s].status \in {"created", "updated"}
        PROVE  promised'[s] \subseteq Backed(s)'
    <3>1. s >= slug
      BY <1>0, <1>1, <2>1, SkillsAssumption DEF Slugs
    <3>2. promised[s] \subseteq Backed(s)
      BY <1>0, <2>1, <3>1 DEF SkillsInv, LinkReplacesNothing, options
    <3>3. QED
      BY <1>0, <3>2 DEF Backed, disk, history
  <2>2. QED
    BY <1>1, <2>1 DEF LinkReplacesNothing
<1>5. PromisedSurvive' /\ ForeignIsKept' /\ ForeignIsConflict'
  BY <1>0, <1>1 DEF SkillsInv, PromisedSurvive, ForeignIsKept, ForeignIsConflict, Applying,
         disk, history
<1>6. MetadataIsOlder'
  BY <1>0, <1>1 DEF SkillsInv, MetadataIsOlder, DescribedBefore, disk
<1>7. QED
  BY <1>2, <1>3, <1>4, <1>5, <1>6 DEF SkillsInv

LEMMA DescribeKeeps == SkillsInv /\ Describe => SkillsInv'
<1> SUFFICES ASSUME SkillsInv, Describe PROVE SkillsInv'
  OBVIOUS
<1>0. /\ at = "describe" /\ slug \in Slugs /\ at' \in {"copy", "away"}
      /\ shown[slug].status \in {"created", "updated"}
      /\ sidecar' = [version |-> code, recorded |-> wheel]
      /\ at' = "away" => link /\ staged' = Link
      /\ at' = "copy" => ~link
      /\ staged' \in {staged, Link}
      /\ UNCHANGED <<disk, wheel, options, shown, slug, aside, history, faults>>
  BY DEF Describe, Go, SkillsInv, TypeOK
<1>1. TypeOK'
  BY <1>0 DEF SkillsInv, TypeOK, Trees, disk, options, history
<1>2. Planned'
  BY <1>0 DEF SkillsInv, Planned, Applying, TypeOK
<1>3. BackupsAreFaults'
  BY <1>0 DEF SkillsInv, BackupsAreFaults, disk
<1>4. StagedKeeps'
  <2>1. ASSUME at' = "away"
        PROVE  promised'[slug] \subseteq Backed(slug)'
    <3>1. link /\ slug >= slug
      BY <1>0, <2>1, SkillsAssumption DEF Slugs
    <3>2. promised[slug] \subseteq Backed(slug)
      BY <1>0, <3>1 DEF SkillsInv, LinkReplacesNothing
    <3>3. QED
      BY <1>0, <3>2 DEF Backed, disk, history
  <2>2. QED
    BY <1>0, <2>1 DEF StagedKeeps
<1>5. LinkReplacesNothing'
  <2>1. ASSUME link', NEW s \in Slugs, s > slug,
               shown'[s].status \in {"created", "updated"}
        PROVE  promised'[s] \subseteq Backed(s)'
    <3>1. s >= slug
      BY <1>0, <2>1, SkillsAssumption DEF Slugs
    <3>2. promised[s] \subseteq Backed(s)
      BY <1>0, <2>1, <3>1 DEF SkillsInv, LinkReplacesNothing, options
    <3>3. QED
      BY <1>0, <3>2 DEF Backed, disk, history
  <2>2. QED
    BY <1>0, <2>1 DEF LinkReplacesNothing, options
<1>6. PromisedSurvive' /\ ForeignIsKept'
  BY <1>0 DEF SkillsInv, PromisedSurvive, ForeignIsKept, disk, history
<1>7. ForeignIsConflict'
  BY <1>0 DEF SkillsInv, ForeignIsConflict, Applying, history
<1>8. MetadataIsOlder'
  <2>1. wheel \in Nat
    BY SkillsAssumption DEF SkillsInv, TypeOK, Releases
  <2>2. DescribedBefore(staged)'
    BY <1>0, NoLocals DEF SkillsInv, MetadataIsOlder, DescribedBefore, Managed, IsCopy
  <2>3. /\ \A s \in Slugs : DescribedBefore(dest[s])'
        /\ \A s \in Slugs, n \in Numbers : DescribedBefore(backups[s][n])'
    BY <1>0 DEF SkillsInv, MetadataIsOlder, DescribedBefore, disk
  <2>4. sidecar'.recorded <= wheel'
    BY <1>0, <2>1
  <2>5. QED
    BY <2>2, <2>3, <2>4 DEF MetadataIsOlder
<1>9. QED
  BY <1>1, <1>2, <1>3, <1>4, <1>5, <1>6, <1>7, <1>8 DEF SkillsInv

LEMMA CopyKeeps == SkillsInv /\ Copy => SkillsInv'
<1> SUFFICES ASSUME SkillsInv, Copy PROVE SkillsInv'
  OBVIOUS
<1>0. /\ at = "copy" /\ slug \in Slugs /\ at' = "away"
      /\ staged' = [content |-> wheel, version |-> sidecar.version,
                    recorded |-> sidecar.recorded, local |-> LocalsOf(dest[slug])]
      /\ UNCHANGED <<disk, wheel, options, shown, slug, sidecar, aside, history, faults>>
  BY DEF Copy, Go, SkillsInv, TypeOK
<1>1. /\ wheel \in Releases /\ sidecar.version \in Releases \cup {0}
      /\ sidecar.recorded \in Releases \cup {0} /\ dest[slug] \in Trees
      /\ sidecar.recorded <= wheel
  BY <1>0 DEF SkillsInv, TypeOK, Planned, MetadataIsOlder
<1>2. LocalsOf(dest[slug]) \in SUBSET Locals
  BY <1>1, LocalsTyped
<1>3. /\ staged' \in Copies /\ staged' \in Trees
      /\ LocalsOf(staged') = LocalsOf(dest[slug])
      /\ staged'.content = wheel /\ staged'.recorded = sidecar.recorded
  BY <1>0, <1>1, <1>2, CopyIs
<1>4. TypeOK'
  BY <1>0, <1>3 DEF SkillsInv, TypeOK, disk, options, history
<1>5. Planned'
  BY <1>0, <1>3 DEF SkillsInv, Planned, Applying
<1>6. BackupsAreFaults'
  BY <1>0 DEF SkillsInv, BackupsAreFaults, disk
<1>7. StagedKeeps'
  <2>1. promised[slug] \subseteq LocalsOf(dest[slug]) \cup Backed(slug)
    BY <1>0, PromisedIs DEF SkillsInv
  <2>2. promised'[slug'] \subseteq LocalsOf(staged') \cup Backed(slug)
    BY <1>0, <1>3, <2>1 DEF history
  <2>3. Backed(slug)' = Backed(slug)
    BY <1>0 DEF Backed, disk
  <2>4. LocalsOf(staged)' = LocalsOf(staged')
    BY DEF LocalsOf, IsCopy
  <2>5. QED
    BY <1>0, <2>2, <2>3, <2>4 DEF StagedKeeps
<1>8. LinkReplacesNothing'
  BY <1>0 DEF SkillsInv, LinkReplacesNothing, options
<1>9. PromisedSurvive' /\ ForeignIsKept' /\ ForeignIsConflict'
  BY <1>0 DEF SkillsInv, PromisedSurvive, ForeignIsKept, ForeignIsConflict, Applying,
         disk, history
<1>10. MetadataIsOlder'
  <2>1. wheel \in Nat
    BY <1>1, SkillsAssumption DEF Releases
  <2>2. DescribedBefore(staged)'
    BY <1>0, <1>1, <1>3, <2>1 DEF DescribedBefore
  <2>3. /\ \A s \in Slugs : DescribedBefore(dest[s])'
        /\ \A s \in Slugs, n \in Numbers : DescribedBefore(backups[s][n])'
    BY <1>0 DEF SkillsInv, MetadataIsOlder, DescribedBefore, disk
  <2>4. QED
    BY <1>0, <2>2, <2>3 DEF MetadataIsOlder
<1>11. QED
  BY <1>4, <1>5, <1>6, <1>7, <1>8, <1>9, <1>10 DEF SkillsInv

LEMMA BackupUpdated ==
    ASSUME TypeOK, NEW k \in Numbers, NEW tree \in Trees,
           backups' = [backups EXCEPT ![slug][k] = tree]
    PROVE  /\ backups' \in [Slugs -> [Numbers -> Trees]]
           /\ \A s \in Slugs, n \in Numbers :
                 backups'[s][n] = IF s = slug /\ n = k THEN tree ELSE backups[s][n]
BY DEF TypeOK

LEMMA DestUpdated ==
    ASSUME TypeOK, NEW tree \in Trees, dest' = [dest EXCEPT ![slug] = tree]
    PROVE  /\ dest' \in [Slugs -> Trees]
           /\ \A s \in Slugs : dest'[s] = IF s = slug THEN tree ELSE dest[s]
BY DEF TypeOK

LEMMA MoveAwayKeeps == SkillsInv /\ MoveAway => SkillsInv'
<1> SUFFICES ASSUME SkillsInv, MoveAway PROVE SkillsInv'
  OBVIOUS
<1>0. /\ TypeOK /\ at = "away" /\ at' = "in" /\ slug \in Slugs
      /\ shown[slug].status \in {"created", "updated"}
      /\ dest[slug] \in Trees /\ staged \in Trees /\ slug \notin foreign
      /\ UNCHANGED <<wheel, options, shown, slug, sidecar, staged, history, faults>>
  BY DEF MoveAway, Go, SkillsInv, TypeOK, ForeignIsConflict, Applying
<1>1. CASE dest[slug] = NoTree
  <2>1. aside' = 0 /\ UNCHANGED disk
    BY <1>1 DEF MoveAway
  <2>2. TypeOK'
    BY <1>0, <2>1 DEF TypeOK, disk, options, history
  <2>3. Planned' /\ ForeignIsConflict'
    BY <1>0 DEF SkillsInv, Planned, Applying, ForeignIsConflict, history
  <2>4. BackupsAreFaults'
    BY <1>0, <2>1, SkillsAssumption DEF SkillsInv, BackupsAreFaults, disk, TypeOK
  <2>5. StagedKeeps'
    <3>1. 0 \notin Numbers
      BY SkillsAssumption DEF Numbers
    <3>2. BackedBeside(slug)' = Backed(slug)
      BY <1>0, <2>1, <3>1 DEF BackedBeside, Backed, disk
    <3>3. QED
      BY <1>0, <3>2 DEF SkillsInv, StagedKeeps, history
  <2>6. LinkReplacesNothing'
    BY <1>0, <2>1 DEF SkillsInv, LinkReplacesNothing, Backed, disk, options, history
  <2>7. PromisedSurvive' /\ ForeignIsKept'
    BY <1>0, <2>1 DEF SkillsInv, PromisedSurvive, ForeignIsKept, disk, history
  <2>8. MetadataIsOlder'
    BY <1>0, <2>1 DEF SkillsInv, MetadataIsOlder, DescribedBefore, disk
  <2>9. QED
    BY <2>2, <2>3, <2>4, <2>5, <2>6, <2>7, <2>8 DEF SkillsInv
<1>2. CASE dest[slug] # NoTree
  <2>1. /\ aside' = FreeBackup
        /\ backups' = [backups EXCEPT ![slug][FreeBackup] = dest[slug]]
        /\ dest' = [dest EXCEPT ![slug] = NoTree]
    BY <1>2 DEF MoveAway
  <2>2. /\ FreeBackup \in Numbers /\ FreeBackup <= faults + 1
        /\ backups[slug][FreeBackup] = NoTree
    BY <1>0, FreeBackupIs DEF SkillsInv
  <2>3. /\ backups' \in [Slugs -> [Numbers -> Trees]]
        /\ \A s \in Slugs, n \in Numbers :
              backups'[s][n] = IF s = slug /\ n = aside' THEN dest[slug] ELSE backups[s][n]
    BY <1>0, <2>1, <2>2, BackupUpdated
  <2>4. /\ dest' \in [Slugs -> Trees]
        /\ \A s \in Slugs : dest'[s] = IF s = slug THEN NoTree ELSE dest[s]
    BY <1>0, <2>1, DestUpdated DEF Trees
  <2>5. \A s \in Slugs : Backed(s) \subseteq Backed(s)'
    <3>1. \A s \in Slugs, n \in Numbers : LocalsOf(backups[s][n]) \subseteq LocalsOf(backups'[s][n])
      BY <2>1, <2>2, <2>3, NoLocals
    <3>2. QED
      BY <3>1 DEF Backed, LocalsOf, IsCopy
  <2>6. TypeOK'
    BY <1>0, <2>1, <2>2, <2>3, <2>4 DEF TypeOK, options, history
  <2>7. Planned' /\ ForeignIsConflict'
    BY <1>0 DEF SkillsInv, Planned, Applying, ForeignIsConflict, history
  <2>8. BackupsAreFaults'
    BY <1>0, <2>1, <2>2, <2>3 DEF SkillsInv, BackupsAreFaults
  <2>9. StagedKeeps'
    <3>1. Backed(slug) \subseteq BackedBeside(slug)'
      <4>1. ASSUME NEW n \in Numbers, NEW name \in LocalsOf(backups[slug][n])
            PROVE  n # aside' /\ name \in LocalsOf(backups'[slug][n])
        BY <1>0, <2>1, <2>2, <2>3, NoLocals
      <4>2. QED
        BY <1>0, <4>1 DEF Backed, BackedBeside, LocalsOf, IsCopy
    <3>2. QED
      BY <1>0, <3>1 DEF SkillsInv, StagedKeeps, LocalsOf, IsCopy, history
  <2>10. LinkReplacesNothing'
    BY <1>0, <2>5 DEF SkillsInv, LinkReplacesNothing, options, history
  <2>11. PromisedSurvive'
    <3>1. ASSUME NEW s \in Slugs
          PROVE  promised[s] \subseteq LocalsOf(dest'[s]) \cup Backed(s)'
      <4>1. promised[s] \subseteq LocalsOf(dest[s]) \cup Backed(s)
        BY PromisedIs DEF SkillsInv
      <4>2. CASE s # slug
        BY <2>4, <2>5, <4>1, <4>2
      <4>3. CASE s = slug
        <5>1. LocalsOf(dest[s]) = LocalsOf(backups'[s][aside'])
          BY <2>1, <2>2, <2>3, <4>3, <1>0
        <5>2. LocalsOf(backups'[s][aside']) \subseteq Backed(s)'
          BY <2>1, <2>2 DEF Backed, LocalsOf, IsCopy
        <5>3. QED
          BY <2>5, <4>1, <5>1, <5>2
      <4>4. QED
        BY <4>2, <4>3
    <3>2. QED
      BY <1>0, <3>1 DEF PromisedSurvive, Backed, LocalsOf, IsCopy, history
  <2>12. ForeignIsKept'
    BY <1>0, <2>4 DEF SkillsInv, TypeOK, ForeignIsKept, history
  <2>13. MetadataIsOlder'
    <3>1. /\ \A s \in Slugs : DescribedBefore(dest[s]) /\ \A n \in Numbers : DescribedBefore(backups[s][n])
          /\ DescribedBefore(staged)
      BY DEF SkillsInv, MetadataIsOlder
    <3>2. \A s \in Slugs : DescribedBefore(dest[s])'
      BY <1>0, <2>4, <3>1, NoLocals DEF DescribedBefore, Managed, IsCopy
    <3>3. \A s \in Slugs, n \in Numbers : DescribedBefore(backups[s][n])'
      BY <1>0, <2>3, <3>1 DEF DescribedBefore, Managed, IsCopy
    <3>4. DescribedBefore(staged)'
      BY <1>0, <3>1 DEF DescribedBefore
    <3>5. QED
      BY <1>0, <3>2, <3>3, <3>4 DEF MetadataIsOlder
  <2>14. QED
    BY <2>6, <2>7, <2>8, <2>9, <2>10, <2>11, <2>12, <2>13 DEF SkillsInv
<1>3. QED
  BY <1>1, <1>2

LEMMA MoveInKeeps == SkillsInv /\ MoveIn => SkillsInv'
<1> SUFFICES ASSUME SkillsInv, MoveIn PROVE SkillsInv'
  OBVIOUS
<1>0. /\ TypeOK /\ at = "in" /\ at' = "drop" /\ slug \in Slugs
      /\ staged \in Trees /\ slug \notin foreign /\ staged' = NoTree
      /\ dest[slug] = NoTree /\ dest' = [dest EXCEPT ![slug] = staged]
      /\ UNCHANGED <<backups, wheel, options, shown, slug, sidecar, aside, history, faults>>
  BY DEF MoveIn, Go, SkillsInv, TypeOK, ForeignIsConflict, Applying
<1>1. /\ dest' \in [Slugs -> Trees]
      /\ \A s \in Slugs : dest'[s] = IF s = slug THEN staged ELSE dest[s]
  BY <1>0, DestUpdated
<1>2. TypeOK'
  BY <1>0, <1>1 DEF TypeOK, Trees, options, history
<1>3. Planned' /\ ForeignIsConflict' /\ BackupsAreFaults'
  BY <1>0 DEF SkillsInv, Planned, Applying, ForeignIsConflict, BackupsAreFaults, history
<1>4. promised[slug] \subseteq LocalsOf(staged) \cup BackedBeside(slug)
  BY <1>0 DEF SkillsInv, StagedKeeps
<1>5. StagedKeeps'
  BY <1>0, <1>1, <1>4 DEF StagedKeeps, BackedBeside, LocalsOf, IsCopy, history
<1>6. LinkReplacesNothing'
  BY <1>0 DEF SkillsInv, LinkReplacesNothing, Backed, options, history
<1>7. PromisedSurvive'
  <2>1. ASSUME NEW s \in Slugs
        PROVE  promised[s] \subseteq LocalsOf(dest'[s]) \cup Backed(s)
    <3>1. CASE s # slug
      BY <1>1, <3>1, PromisedIs DEF SkillsInv
    <3>2. CASE s = slug
      <4>1. BackedBeside(slug) \subseteq Backed(slug)
        BY DEF BackedBeside, Backed
      <4>2. QED
        BY <1>0, <1>1, <1>4, <3>2, <4>1
    <3>3. QED
      BY <3>1, <3>2
  <2>2. QED
    BY <1>0, <2>1 DEF PromisedSurvive, Backed, LocalsOf, IsCopy, history
<1>8. ForeignIsKept'
  BY <1>0, <1>1 DEF SkillsInv, TypeOK, ForeignIsKept, history
<1>9. MetadataIsOlder'
  <2>1. /\ \A s \in Slugs : DescribedBefore(dest[s])
        /\ \A s \in Slugs, n \in Numbers : DescribedBefore(backups[s][n])
        /\ DescribedBefore(staged)
    BY DEF SkillsInv, MetadataIsOlder
  <2>2. \A s \in Slugs : DescribedBefore(dest[s])'
    BY <1>0, <1>1, <2>1 DEF DescribedBefore, Managed, IsCopy
  <2>3. DescribedBefore(staged)'
    BY <1>0, NoLocals DEF DescribedBefore, Managed, IsCopy
  <2>4. \A s \in Slugs, n \in Numbers : DescribedBefore(backups[s][n])'
    BY <1>0, <2>1 DEF DescribedBefore
  <2>5. QED
    BY <1>0, <2>2, <2>3, <2>4 DEF MetadataIsOlder
<1>10. QED
  BY <1>2, <1>3, <1>5, <1>6, <1>7, <1>8, <1>9 DEF SkillsInv

LEMMA MoveInFailsKeeps == SkillsInv /\ MoveInFails => SkillsInv'
<1> SUFFICES ASSUME SkillsInv, MoveInFails PROVE SkillsInv'
  OBVIOUS
<1>0. TypeOK /\ at = "in" /\ slug \in Slugs /\ Ends /\ Fault /\ UNCHANGED <<wheel, history>>
  BY DEF MoveInFails, SkillsInv, TypeOK
<1>1. CASE UNCHANGED disk
  BY <1>0, <1>1, EndsUntouched
<1>2. CASE ~UNCHANGED disk
  <2>1. /\ aside \in Numbers /\ dest[slug] = NoTree
        /\ dest' = [dest EXCEPT ![slug] = backups[slug][aside]]
        /\ backups' = [backups EXCEPT ![slug][aside] = NoTree]
    BY <1>2 DEF MoveInFails, SkillsInv, TypeOK
  <2>2. /\ backups' \in [Slugs -> [Numbers -> Trees]]
        /\ \A s \in Slugs, n \in Numbers :
              backups'[s][n] = IF s = slug /\ n = aside THEN NoTree ELSE backups[s][n]
    BY <1>0, <2>1, BackupUpdated DEF Trees
  <2>3. backups[slug][aside] \in Trees
    BY <1>0, <2>1 DEF TypeOK
  <2>4. /\ dest' \in [Slugs -> Trees]
        /\ \A s \in Slugs :
              dest'[s] = IF s = slug THEN backups[slug][aside] ELSE dest[s]
    BY <1>0, <2>1, <2>3, DestUpdated
  <2>5. faults \in Nat /\ faults' = faults + 1 /\ faults' \in 0..MaxFaults
    BY <1>0, SkillsAssumption DEF TypeOK, Fault
  <2>6. \A s \in Slugs, n \in Numbers : backups'[s][n] # NoTree => n <= faults'
    <3>1. ASSUME NEW s \in Slugs, NEW n \in Numbers, backups'[s][n] # NoTree
          PROVE  n <= faults'
      <4>1. ~(s = slug /\ n = aside) /\ backups[s][n] # NoTree
        BY <2>2, <3>1
      <4>2. n <= faults
        BY <4>1 DEF SkillsInv, BackupsAreFaults
      <4>3. n \in Nat
        BY SkillsAssumption DEF Numbers
      <4>4. QED
        BY <2>5, <4>2, <4>3
    <3>2. QED
      BY <3>1
  <2>7. PromisedSurvive'
    <3>1. ASSUME NEW s \in Slugs
          PROVE  promised[s] \subseteq LocalsOf(dest'[s]) \cup Backed(s)'
      <4>1. promised[s] \subseteq LocalsOf(dest[s]) \cup Backed(s)
        BY PromisedIs DEF SkillsInv
      <4>2. ASSUME NEW n \in Numbers
            PROVE  LocalsOf(backups[s][n]) \subseteq LocalsOf(dest'[s]) \cup Backed(s)'
        <5>1. CASE s = slug /\ n = aside
          BY <2>4, <5>1
        <5>2. CASE ~(s = slug /\ n = aside)
          <6>1. backups'[s][n] = backups[s][n]
            BY <2>2, <5>2
          <6>2. LocalsOf(backups'[s][n]) \subseteq Backed(s)'
            BY DEF Backed, LocalsOf, IsCopy
          <6>3. QED
            BY <6>1, <6>2
        <5>3. QED
          BY <5>1, <5>2
      <4>3. LocalsOf(dest[s]) \subseteq LocalsOf(dest'[s])
        BY <2>1, <2>4, NoLocals
      <4>4. QED
        BY <4>1, <4>2, <4>3 DEF Backed
    <3>2. QED
      BY <1>0, <3>1 DEF PromisedSurvive, Backed, LocalsOf, IsCopy, history
  <2>8. ForeignIsKept'
    <3>1. slug \notin foreign
      BY <2>1, TreesAssumption DEF SkillsInv, ForeignIsKept
    <3>2. QED
      BY <1>0, <2>4, <3>1 DEF SkillsInv, TypeOK, ForeignIsKept, history
  <2>9. /\ \A s \in Slugs : DescribedBefore(dest[s])'
        /\ \A s \in Slugs, n \in Numbers : DescribedBefore(backups[s][n])'
    <3>1. /\ \A s \in Slugs : DescribedBefore(dest[s])
          /\ \A s \in Slugs, n \in Numbers : DescribedBefore(backups[s][n])
          /\ at' = "idle"
      BY <1>0 DEF SkillsInv, MetadataIsOlder, Ends
    <3>2. \A s \in Slugs : DescribedBefore(dest[s])'
      BY <1>0, <2>1, <2>4, <3>1 DEF DescribedBefore, Managed, IsCopy
    <3>3. \A s \in Slugs, n \in Numbers : DescribedBefore(backups[s][n])'
      BY <1>0, <2>2, <3>1, NoLocals DEF DescribedBefore, Managed, IsCopy
    <3>4. QED
      BY <3>2, <3>3
  <2>10. QED
    BY <1>0, <2>2, <2>4, <2>5, <2>6, <2>7, <2>8, <2>9, EndsKeeps
       DEF SkillsInv, TypeOK, history
<1>3. QED
  BY <1>1, <1>2

LEMMA DropBackupKeeps == SkillsInv /\ DropBackup => SkillsInv'
<1> SUFFICES ASSUME SkillsInv, DropBackup PROVE SkillsInv'
  OBVIOUS
<1>0. /\ TypeOK /\ at = "drop" /\ slug \in Slugs
      /\ UNCHANGED <<dest, wheel, options, shown, sidecar, staged, aside, history>>
  BY DEF DropBackup, SkillsInv, TypeOK
<1>1. /\ at' \in {"done", "describe"} /\ slug' \in Slugs
      /\ at' = "describe" => slug' = slug + 1
      /\ \A s \in Slugs : s >= slug + 1 => s > slug /\ s # slug
  BY <1>0, AdvanceIs DEF DropBackup
<1>2. faults \in Nat /\ faults' \in 0..MaxFaults /\ faults <= faults'
  BY <1>0, SkillsAssumption DEF TypeOK, Fault, DropBackup
<1>3. /\ backups' \in [Slugs -> [Numbers -> Trees]]
      /\ \A s \in Slugs, n \in Numbers :
            \/ backups'[s][n] = backups[s][n] /\ (s = slug /\ n = aside => faults' = faults + 1)
            \/ backups'[s][n] = NoTree /\ s = slug /\ n = aside
  <2>1. CASE UNCHANGED backups /\ (aside = 0 \/ Fault)
    <3>1. aside \in Numbers => faults' = faults + 1
      BY <2>1, SkillsAssumption DEF Fault, Numbers
    <3>2. QED
      BY <1>0, <2>1, <3>1 DEF TypeOK
  <2>2. CASE aside # 0 /\ backups' = [backups EXCEPT ![slug][aside] = NoTree]
    <3>1. aside \in Numbers
      BY <1>0, <2>2 DEF TypeOK
    <3>2. QED
      BY <1>0, <2>2, <3>1, BackupUpdated DEF Trees
  <2>3. QED
    BY <2>1, <2>2 DEF DropBackup
<1>4. TypeOK'
  BY <1>0, <1>1, <1>2, <1>3 DEF TypeOK, options, history
<1>5. Planned' /\ ForeignIsConflict' /\ StagedKeeps'
  BY <1>0, <1>1 DEF SkillsInv, Planned, Applying, ForeignIsConflict, StagedKeeps, history
<1>6. BackupsAreFaults'
  <2>1. ASSUME NEW s \in Slugs, NEW n \in Numbers, backups'[s][n] # NoTree
        PROVE  n <= faults'
    <3>0. n \in Nat
      BY SkillsAssumption DEF Numbers
    <3>1. backups'[s][n] = backups[s][n] /\ (s = slug /\ n = aside => faults' = faults + 1)
      BY <1>3, <2>1
    <3>2. n <= faults \/ (s = slug /\ n = aside)
      BY <2>1, <3>1 DEF SkillsInv, BackupsAreFaults
    <3>3. aside <= faults + 1
      BY <1>0 DEF SkillsInv, BackupsAreFaults
    <3>4. QED
      BY <1>2, <3>0, <3>1, <3>2, <3>3
  <2>2. QED
    BY <1>1, <2>1 DEF BackupsAreFaults
<1>7. \A s \in Slugs : s # slug => Backed(s)' = Backed(s)
  <2>1. \A s \in Slugs, n \in Numbers : s # slug => backups'[s][n] = backups[s][n]
    BY <1>3
  <2>2. QED
    BY <2>1 DEF Backed, LocalsOf, IsCopy
<1>8. \A s \in Slugs : BackedBeside(s) \subseteq Backed(s)'
  <2>1. \A s \in Slugs, n \in Numbers \ {aside} : backups'[s][n] = backups[s][n]
    BY <1>3
  <2>2. QED
    BY <2>1 DEF BackedBeside, Backed, LocalsOf, IsCopy
<1>9. LinkReplacesNothing'
  <2>1. ASSUME link', NEW s \in Slugs, at' = "describe", s >= slug',
               shown'[s].status \in {"created", "updated"}
        PROVE  promised'[s] \subseteq Backed(s)'
    <3>1. s > slug /\ s # slug
      BY <1>1, <2>1
    <3>2. promised[s] \subseteq Backed(s)
      BY <1>0, <2>1, <3>1 DEF SkillsInv, LinkReplacesNothing, options
    <3>3. QED
      BY <1>0, <1>7, <3>1, <3>2 DEF history
  <2>2. QED
    BY <1>1, <2>1 DEF LinkReplacesNothing
<1>10. PromisedSurvive'
  <2>1. ASSUME NEW s \in Slugs
        PROVE  promised[s] \subseteq LocalsOf(dest[s]) \cup Backed(s)'
    <3>1. CASE s # slug
      BY <1>7, <3>1, PromisedIs DEF SkillsInv
    <3>2. CASE s = slug
      BY <1>0, <1>8, <3>2 DEF SkillsInv, StagedKeeps
    <3>3. QED
      BY <3>1, <3>2
  <2>2. QED
    BY <1>0, <2>1 DEF PromisedSurvive, Backed, LocalsOf, IsCopy, history
<1>11. ForeignIsKept'
  BY <1>0 DEF SkillsInv, ForeignIsKept, history
<1>12. MetadataIsOlder'
  <2>1. /\ \A s \in Slugs : DescribedBefore(dest[s])
        /\ \A s \in Slugs, n \in Numbers : DescribedBefore(backups[s][n])
        /\ DescribedBefore(staged)
    BY DEF SkillsInv, MetadataIsOlder
  <2>2. \A s \in Slugs, n \in Numbers : DescribedBefore(backups[s][n])'
    BY <1>0, <1>1, <1>3, <2>1, NoLocals DEF DescribedBefore, Managed, IsCopy
  <2>3. DescribedBefore(staged)' /\ \A s \in Slugs : DescribedBefore(dest[s])'
    BY <1>0, <1>1, <2>1 DEF DescribedBefore
  <2>4. QED
    BY <1>1, <2>2, <2>3 DEF MetadataIsOlder
<1>13. QED
  BY <1>4, <1>5, <1>6, <1>9, <1>10, <1>11, <1>12 DEF SkillsInv

LEMMA UserKeeps == SkillsInv /\ (UserAdds \/ UserReplaces) => SkillsInv'
<1> SUFFICES ASSUME SkillsInv, NEW t \in Slugs, NEW tree \in Trees,
                    \/ /\ \E name \in Locals :
                              /\ IsCopy(dest[t])
                              /\ tree = [dest[t] EXCEPT !.local = @ \cup {name}]
                       /\ UNCHANGED history
                    \/ /\ tree \in {NoTree, Foreign} /\ dest[t] # tree
                       /\ promised' = [promised EXCEPT ![t] = {}]
                       /\ foreign' = foreign \ {t},
                    dest' = [dest EXCEPT ![t] = tree],
                    UNCHANGED <<backups, wheel, memory, faults>>
             PROVE  SkillsInv'
  <2>1. ASSUME SkillsInv, UserReplaces
        PROVE  \E t \in Slugs : \E tree \in Trees :
                   /\ tree \in {NoTree, Foreign} /\ dest[t] # tree
                   /\ promised' = [promised EXCEPT ![t] = {}]
                   /\ foreign' = foreign \ {t}
                   /\ dest' = [dest EXCEPT ![t] = tree]
                   /\ UNCHANGED <<backups, wheel, memory, faults>>
    BY <2>1 DEF UserReplaces, Trees
  <2>2. ASSUME SkillsInv, UserAdds
        PROVE  \E t \in Slugs : \E tree \in Trees :
                   /\ \E name \in Locals :
                          /\ IsCopy(dest[t])
                          /\ tree = [dest[t] EXCEPT !.local = @ \cup {name}]
                   /\ UNCHANGED history
                   /\ dest' = [dest EXCEPT ![t] = tree]
                   /\ UNCHANGED <<backups, wheel, memory, faults>>
    <3>1. PICK t \in Slugs, name \in Locals :
                   /\ IsCopy(dest[t])
                   /\ dest' = [dest EXCEPT ![t].local = @ \cup {name}]
                   /\ UNCHANGED <<backups, wheel, memory, history, faults>>
      BY <2>2 DEF UserAdds
    <3>2. dest[t] \in Copies
      BY <3>1, <2>2, LocalsTyped DEF SkillsInv, TypeOK
    <3>3. [dest[t] EXCEPT !.local = @ \cup {name}] \in Trees
      BY <3>2 DEF Trees, Copies
    <3>4. dest' = [dest EXCEPT ![t] = [dest[t] EXCEPT !.local = @ \cup {name}]]
      BY <3>1
    <3>5. QED
      BY <3>1, <3>3, <3>4
  <2>3. QED
    BY <2>1, <2>2
<1>0. TypeOK /\ dest[t] \in Trees
  BY DEF SkillsInv, TypeOK
<1>1. /\ dest' \in [Slugs -> Trees]
      /\ \A s \in Slugs : dest'[s] = IF s = t THEN tree ELSE dest[s]
  BY <1>0 DEF TypeOK
<1>2. /\ promised' \in [Slugs -> SUBSET Locals] /\ foreign' \subseteq Slugs
      /\ foreign' \subseteq foreign \ {t}
      /\ \A s \in Slugs : promised'[s] \subseteq promised[s]
  <2>1. CASE UNCHANGED history /\ IsCopy(dest[t])
    <3>1. t \notin foreign
      BY <2>1 DEF SkillsInv, ForeignIsKept, IsCopy
    <3>2. QED
      BY <1>0, <2>1, <3>1 DEF TypeOK, history
  <2>2. CASE promised' = [promised EXCEPT ![t] = {}] /\ foreign' = foreign \ {t}
    BY <1>0, <2>2 DEF TypeOK
  <2>3. QED
    BY <2>1, <2>2
<1>3. \A s \in Slugs :
          \/ promised'[s] = {}
          \/ promised'[s] = promised[s] /\ LocalsOf(dest[s]) \subseteq LocalsOf(dest'[s])
  <2>1. CASE /\ UNCHANGED history
             /\ \E name \in Locals : /\ IsCopy(dest[t])
                                     /\ tree = [dest[t] EXCEPT !.local = @ \cup {name}]
    <3>1. PICK name \in Locals : /\ IsCopy(dest[t])
                                /\ tree = [dest[t] EXCEPT !.local = @ \cup {name}]
      BY <2>1
    <3>2. dest[t] \in Copies
      BY <1>0, <3>1, LocalsTyped
    <3>3. tree \in Copies /\ tree.local = dest[t].local \cup {name}
      BY <3>1, <3>2 DEF Copies
    <3>4. LocalsOf(dest[t]) \subseteq LocalsOf(tree)
      BY <3>1, <3>3, TreesAssumption DEF LocalsOf, IsCopy
    <3>5. QED
      BY <1>1, <2>1, <3>4 DEF history
  <2>2. CASE promised' = [promised EXCEPT ![t] = {}]
    BY <1>0, <1>1, <2>2 DEF TypeOK
  <2>3. QED
    BY <2>1, <2>2
<1>4. TypeOK'
  BY <1>0, <1>1, <1>2 DEF TypeOK, memory, options, staging
<1>5. Planned' /\ BackupsAreFaults' /\ ForeignIsConflict'
  BY <1>2 DEF SkillsInv, Planned, Applying, BackupsAreFaults, ForeignIsConflict,
              memory, staging
<1>6. StagedKeeps'
  BY <1>0, <1>3 DEF SkillsInv, StagedKeeps, Backed, BackedBeside, LocalsOf, IsCopy,
              memory, staging, TypeOK
<1>7. LinkReplacesNothing'
  BY <1>2 DEF SkillsInv, LinkReplacesNothing, Backed, memory, options, staging
<1>8. PromisedSurvive'
  BY <1>3, PromisedIs DEF SkillsInv, PromisedSurvive, Backed, LocalsOf, IsCopy
<1>9. ForeignIsKept'
  BY <1>0, <1>1, <1>2 DEF SkillsInv, ForeignIsKept
<1>10. MetadataIsOlder'
  <2>1. DescribedBefore(tree)
    <3>1. CASE tree \in {NoTree, Foreign}
      BY <3>1, NoLocals DEF DescribedBefore
    <3>2. CASE \E name \in Locals : /\ IsCopy(dest[t])
                                    /\ tree = [dest[t] EXCEPT !.local = @ \cup {name}]
      <4>1. dest[t] \in Copies /\ DescribedBefore(dest[t])
        BY <1>0, <3>2, LocalsTyped DEF SkillsInv, MetadataIsOlder
      <4>2. /\ tree.version = dest[t].version /\ tree.recorded = dest[t].recorded
            /\ tree.content = dest[t].content
        BY <3>2, <4>1 DEF Copies
      <4>3. QED
        BY <3>2, <4>1, <4>2 DEF DescribedBefore, Managed
    <3>3. QED
      BY <3>1, <3>2
  <2>2. \A s \in Slugs : DescribedBefore(dest[s])
    BY DEF SkillsInv, MetadataIsOlder
  <2>3. \A s \in Slugs : DescribedBefore(dest[s])'
    BY <1>1, <2>1, <2>2 DEF DescribedBefore, Managed, IsCopy, memory, options
  <2>4. /\ \A s \in Slugs, n \in Numbers : DescribedBefore(backups[s][n])'
        /\ DescribedBefore(staged)'
        /\ at' = "copy" => sidecar'.recorded <= wheel'
    BY DEF SkillsInv, MetadataIsOlder, DescribedBefore, memory, options, staging
  <2>5. QED
    BY <2>3, <2>4 DEF MetadataIsOlder
<1>11. QED
  BY <1>4, <1>5, <1>6, <1>7, <1>8, <1>9, <1>10 DEF SkillsInv

LEMMA ToolReplacedKeeps == SkillsInv /\ ToolReplaced => SkillsInv'
<1> SUFFICES ASSUME SkillsInv, ToolReplaced PROVE SkillsInv'
  OBVIOUS
<1>0. /\ TypeOK /\ wheel \in Nat /\ wheel' \in Nat /\ wheel' \in Releases
      /\ wheel' > wheel /\ UNCHANGED <<disk, memory, history, faults>>
  BY SkillsAssumption DEF SkillsInv, TypeOK, ToolReplaced, Releases
<1>1. TypeOK'
  BY <1>0 DEF TypeOK, disk, memory, options, staging, history
<1>2. Planned' /\ BackupsAreFaults' /\ StagedKeeps' /\ LinkReplacesNothing'
  BY <1>0 DEF SkillsInv, Planned, Applying, BackupsAreFaults, StagedKeeps,
     LinkReplacesNothing, Backed, BackedBeside, disk, memory, options, staging, history
<1>3. PromisedSurvive' /\ ForeignIsKept' /\ ForeignIsConflict'
  BY <1>0 DEF SkillsInv, PromisedSurvive, ForeignIsKept, ForeignIsConflict, Applying,
     disk, memory, staging, history
<1>4. ASSUME NEW tree \in Trees, DescribedBefore(tree), Managed(tree)
      PROVE  tree.content <= wheel'
  <2>1. tree.content \in Nat
    BY <1>4, LocalsTyped, SkillsAssumption DEF Managed, Copies, Releases
  <2>2. QED
    BY <1>0, <1>4, <2>1 DEF DescribedBefore
<1>5. /\ \A s \in Slugs : dest[s] \in Trees /\ DescribedBefore(dest[s])
      /\ \A s \in Slugs, n \in Numbers :
            backups[s][n] \in Trees /\ DescribedBefore(backups[s][n])
      /\ staged \in Trees /\ DescribedBefore(staged)
  BY DEF SkillsInv, TypeOK, MetadataIsOlder
<1>6. /\ \A s \in Slugs : DescribedBefore(dest[s])'
      /\ \A s \in Slugs, n \in Numbers : DescribedBefore(backups[s][n])'
      /\ DescribedBefore(staged)'
  BY <1>0, <1>4, <1>5 DEF DescribedBefore, Managed, IsCopy, disk, memory, staging, options
<1>7. at' = "copy" => sidecar'.recorded <= wheel'
  <2>1. sidecar.recorded \in Nat
    BY SkillsAssumption DEF SkillsInv, Planned, Releases
  <2>2. QED
    BY <1>0, <2>1 DEF SkillsInv, MetadataIsOlder, memory, staging
<1>8. QED
  BY <1>1, <1>2, <1>3, <1>6, <1>7 DEF SkillsInv, MetadataIsOlder

LEMMA EndKeeps == SkillsInv /\ (Decline \/ Report \/ Killed) => SkillsInv'
<1> SUFFICES ASSUME SkillsInv, Decline \/ Report \/ Killed PROVE SkillsInv'
  OBVIOUS
<1>1. /\ Ends /\ UNCHANGED <<disk, wheel, history>>
      /\ \/ at \notin {"in", "drop"} /\ UNCHANGED faults
         \/ Fault
  BY DEF Decline, Report, Killed
<1>2. QED
  BY <1>1, EndsUntouched

LEMMA SkillsInvNext == SkillsInv /\ [Next]_vars => SkillsInv'
<1> SUFFICES ASSUME SkillsInv, [Next]_vars PROVE SkillsInv'
  OBVIOUS
<1>1. CASE BeginInstall \/ AcceptOffer
  BY <1>1, BeginInstallKeeps
<1>2. CASE Preview \/ Offer
  BY <1>2, PreviewKeeps
<1>3. CASE Approve
  BY <1>3, ApproveKeeps
<1>4. CASE BeginUpgrade \/ ApplyUpgrade \/ VerifyInstallation
  BY <1>4, UpgradeKeeps
<1>5. CASE ValidateSource
  BY <1>5, ValidateSourceKeeps
<1>6. CASE LeaveAlone
  BY <1>6, LeaveAloneKeeps
<1>7. CASE Describe
  BY <1>7, DescribeKeeps
<1>8. CASE Copy
  BY <1>8, CopyKeeps
<1>9. CASE MoveAway
  BY <1>9, MoveAwayKeeps
<1>10. CASE MoveIn
  BY <1>10, MoveInKeeps
<1>11. CASE MoveInFails
  BY <1>11, MoveInFailsKeeps
<1>12. CASE DropBackup
  BY <1>12, DropBackupKeeps
<1>13. CASE UserAdds \/ UserReplaces
  BY <1>13, UserKeeps
<1>14. CASE ToolReplaced
  BY <1>14, ToolReplacedKeeps
<1>15. CASE Decline \/ Report \/ Killed
  BY <1>15, EndKeeps
<1>16. CASE UNCHANGED vars
  BY <1>16 DEF vars, disk, memory, options, staging, history, SkillsInv, TypeOK, Planned,
     Applying, BackupsAreFaults, PromisedSurvive, StagedKeeps, Backed, BackedBeside,
     LinkReplacesNothing, ForeignIsKept, ForeignIsConflict, MetadataIsOlder,
     DescribedBefore, Managed, IsCopy, LocalsOf
<1>17. QED
  BY <1>1, <1>2, <1>3, <1>4, <1>5, <1>6, <1>7, <1>8, <1>9, <1>10, <1>11, <1>12, <1>13,
     <1>14, <1>15, <1>16 DEF Next

LEMMA SkillsInvAlways == Spec => []SkillsInv
<1>1. QED
  BY SkillsInvInit, SkillsInvNext, PTL DEF Spec

-----------------------------------------------------------------------------
(* Skills: the theorems *)

\* Every variable stays in its set: a backup has a number, and there is a
\* number for every backup (_backup_path).
THEOREM SkillsTypeCorrect == Spec => []TypeOK
<1>1. SkillsInv => TypeOK
  BY DEF SkillsInv
<1>2. QED
  BY <1>1, SkillsInvAlways, PTL

\* A file of the user's that an approved preview said is preserved is in the
\* skill directory or in a backup beside it, whatever fails or is killed.
THEOREM PromisedSurviveAlways == Spec => []PromisedSurvive
<1>1. SkillsInv => PromisedSurvive
  BY DEF SkillsInv
<1>2. QED
  BY <1>1, SkillsInvAlways, PTL

\* A directory that was not Agent2Learn's at the approval is never replaced.
THEOREM ForeignIsKeptAlways == Spec => []ForeignIsKept
<1>1. SkillsInv => ForeignIsKept
  BY DEF SkillsInv
<1>2. QED
  BY <1>1, SkillsInvAlways, PTL

\* Metadata with the hash of the installed source describes its content: a
\* hash taken before the copy is never that of a later release.
THEOREM MetadataIsHonestAlways == Spec => []MetadataIsHonest
<1>1. SkillsInv => MetadataIsHonest
  <2>1. SUFFICES ASSUME SkillsInv, NEW s \in Slugs,
                        Managed(dest[s]), dest[s].recorded = wheel
                 PROVE  dest[s].content = wheel
    BY DEF MetadataIsHonest
  <2>2. dest[s] \in Copies
    BY <2>1, LocalsTyped DEF SkillsInv, TypeOK, Managed
  <2>3. dest[s].content \in Nat /\ wheel \in Nat
    BY <2>1, <2>2, SkillsAssumption DEF Copies, Releases, SkillsInv, TypeOK
  <2>4. wheel <= dest[s].content /\ dest[s].content <= wheel
    BY <2>1 DEF SkillsInv, MetadataIsOlder, DescribedBefore
  <2>5. QED
    BY <2>3, <2>4
<1>2. QED
  BY <1>1, SkillsInvAlways, PTL

-----------------------------------------------------------------------------
(* Onboarding: the inductive invariant *)

\* What is, or will be, read was selected.
Selected ==
    /\ saved.selected # Unset => saved.selected \subseteq allowed
    /\ chosen \subseteq allowed
    /\ sync # Idle => sync \subseteq allowed

\* The stages know what the ones before them settled: a term among those found
\* active, a selection, that its files are not done, a scope.
Resumable ==
    /\ stage \in {"switch", "courses", "metadata", "scope", "files"} => term \in ActiveTerms
    /\ stage \in {"metadata", "scope", "files"} => saved.selected # Unset
    /\ stage \in {"scope", "files"} => ~saved.file_complete
    /\ stage = "files" => saved.file_scope # Unset

OnboardingInv ==
    /\ OnboardingTypeOK
    /\ Selected /\ Resumable
    /\ CompleteIsDone /\ OnlySelected

-----------------------------------------------------------------------------
(* Onboarding: lemmas *)

LEMMA LargestExists ==
    ASSUME NEW N \in Nat, NEW S \in SUBSET (0..N), S # {}
    PROVE  Max(S) \in S
<1> DEFINE below == {N - x : x \in S}
<1>1. below \in SUBSET Nat /\ below # {}
  <2>1. \A x \in S : N - x \in Nat
    OBVIOUS
  <2>2. QED
    BY <2>1
<1>2. PICK m \in below : \A y \in below : m <= y
  <2> HIDE DEF below
  <2>1. QED
    BY <1>1, SmallestExists
<1>3. PICK x \in S : m = N - x
  BY <1>2
<1>4. \A y \in S : x >= y
  <2>1. ASSUME NEW y \in S
        PROVE  x >= y
    <3>1. N - y \in below
      OBVIOUS
    <3>2. N - x <= N - y
      BY <1>2, <1>3, <3>1
    <3>3. QED
      BY <3>2
  <2>2. QED
    BY <2>1
<1>5. QED
  BY <1>3, <1>4 DEF Max

LEMMA LatestTerm ==
    ASSUME OnboardingTypeOK, ActiveTerms # {}
    PROVE  /\ Max(ActiveTerms) \in ActiveTerms /\ Max(ActiveTerms) \in Terms
           /\ ActiveTerms \subseteq Terms
<1>1. ActiveTerms \subseteq Terms /\ Terms \subseteq 0..LastTerm
  BY CoursesAssumption DEF OnboardingTypeOK, ActiveTerms, Terms
<1>2. ActiveTerms \in SUBSET (0..LastTerm) /\ LastTerm \in Nat
  BY <1>1, CoursesAssumption
<1>3. Max(ActiveTerms) \in ActiveTerms
  BY <1>2, LargestExists
<1>4. QED
  BY <1>1, <1>3

LEMMA OnboardingInvInit == OnboardingInit => OnboardingInv
<1> SUFFICES ASSUME OnboardingInit PROVE OnboardingInv
  OBVIOUS
<1>1. OnboardingTypeOK
  <2>1. saved \in States
    BY DEF OnboardingInit, States
  <2>2. changes \in 0..MaxChanges
    BY CoursesAssumption DEF OnboardingInit
  <2>3. QED
    BY <2>1, <2>2 DEF OnboardingInit, OnboardingTypeOK, Stages
<1>2. Selected /\ Resumable
  BY DEF OnboardingInit, Selected, Resumable
<1>3. CompleteIsDone /\ OnlySelected
  BY DEF OnboardingInit, CompleteIsDone, OnlySelected
<1>4. QED
  BY <1>1, <1>2, <1>3 DEF OnboardingInv

\* The end of an init: what it saved is what is left.
LEMMA EndKeepsInit ==
    ASSUME OnboardingInv, End, OnboardingTypeOK', CompleteIsDone', OnlySelected',
           saved'.selected # Unset => saved'.selected \subseteq allowed', UNCHANGED sync,
           allowed \subseteq allowed'
    PROVE  OnboardingInv'
<1>1. Selected'
  BY DEF OnboardingInv, Selected, End
<1>2. Resumable'
  BY DEF Resumable, End
<1>3. QED
  BY <1>1, <1>2 DEF OnboardingInv

LEMMA StartKeeps == OnboardingInv /\ (Start \/ Stop) => OnboardingInv'
<1> SUFFICES ASSUME OnboardingInv, Start \/ Stop PROVE OnboardingInv'
  OBVIOUS
<1>1. OnboardingTypeOK'
  BY DEF OnboardingInv, OnboardingTypeOK, Start, Stop, End, Stages, run, work, Outside
<1>2. Selected' /\ Resumable'
  BY DEF OnboardingInv, Selected, Resumable, ActiveTerms, Start, Stop, End, run, work, Outside
<1>3. CompleteIsDone' /\ OnlySelected'
  BY DEF OnboardingInv, CompleteIsDone, OnlySelected, Start, Stop, work
<1>4. QED
  BY <1>1, <1>2, <1>3 DEF OnboardingInv

LEMMA SettleKeeps ==
    /\ OnboardingInv
    /\ \/ ConfirmVault \/ ConfigureSkills \/ ConfigureGrades
       \/ ConfigureProfile \/ ConfigureBackend \/ HaveSession
    => OnboardingInv'
<1> SUFFICES ASSUME OnboardingInv,
                    \/ UNCHANGED saved
                    \/ \E question \in Questions : Settle(question),
                    stage' \in {"skills", "grades", "profile", "backend", "session", "discovery"},
                    UNCHANGED <<run, work>>, Outside
             PROVE  OnboardingInv'
  BY DEF ConfirmVault, ConfigureSkills, ConfigureGrades, ConfigureProfile,
         ConfigureBackend, HaveSession, Questions
<1>1. /\ saved' \in States
      /\ saved'.term = saved.term /\ saved'.selected = saved.selected
      /\ saved'.metadata_complete = saved.metadata_complete
      /\ saved'.file_complete = saved.file_complete /\ saved'.file_scope = saved.file_scope
  <2>1. saved \in States
    BY DEF OnboardingInv, OnboardingTypeOK
  <2>2. CASE UNCHANGED saved
    BY <2>1, <2>2
  <2>3. ASSUME NEW question \in Questions, Settle(question)
        PROVE  saved' = [saved EXCEPT !.settled = saved.settled \cup {question}]
    BY <2>3 DEF Settle
  <2>4. QED
    BY <2>1, <2>2, <2>3 DEF States
<1>2. OnboardingTypeOK'
  BY <1>1 DEF OnboardingInv, OnboardingTypeOK, Stages, run, work, Outside
<1>3. Selected' /\ Resumable'
  BY <1>1 DEF OnboardingInv, Selected, Resumable, run, work, Outside
<1>4. CompleteIsDone' /\ OnlySelected'
  BY <1>1 DEF OnboardingInv, CompleteIsDone, OnlySelected, work
<1>5. QED
  BY <1>2, <1>3, <1>4 DEF OnboardingInv

LEMMA TermKeeps == OnboardingInv /\ (Discover \/ ChooseTerm) => OnboardingInv'
<1> SUFFICES ASSUME OnboardingInv, Discover \/ ChooseTerm PROVE OnboardingInv'
  OBVIOUS
<1>1. OnboardingTypeOK'
  <2>1. CASE Discover
    BY <2>1 DEF OnboardingInv, OnboardingTypeOK, Discover, Stages, work, Outside
  <2>2. CASE ChooseTerm
    <3>1. term' \in ActiveTerms /\ approved' \in BOOLEAN
      BY <2>2 DEF ChooseTerm
    <3>2. term' \in Terms
      BY <3>1, LatestTerm DEF OnboardingInv
    <3>3. QED
      BY <2>2, <3>1, <3>2 DEF OnboardingInv, OnboardingTypeOK, ChooseTerm, Stages, work, Outside
  <2>3. QED
    BY <2>1, <2>2
<1>2. Selected' /\ Resumable'
  BY DEF OnboardingInv, Selected, Resumable, ActiveTerms, Discover, ChooseTerm, work, Outside
<1>3. CompleteIsDone' /\ OnlySelected'
  BY DEF OnboardingInv, CompleteIsDone, OnlySelected, Discover, ChooseTerm, work
<1>4. QED
  BY <1>1, <1>2, <1>3 DEF OnboardingInv

LEMMA DeclineNewTermKeeps == OnboardingInv /\ DeclineNewTerm => OnboardingInv'
<1> SUFFICES ASSUME OnboardingInv, DeclineNewTerm PROVE OnboardingInv'
  OBVIOUS
<1>1. Max(ActiveTerms) \in Terms
  <2>1. ActiveTerms # {}
    BY DEF DeclineNewTerm, NewTerms
  <2>2. QED
    BY <2>1, LatestTerm DEF OnboardingInv
<1>2. /\ saved' \in States
      /\ saved'.term = saved.term /\ saved'.selected = saved.selected
      /\ saved'.metadata_complete = saved.metadata_complete
      /\ saved'.file_complete = saved.file_complete /\ saved'.file_scope = saved.file_scope
  BY <1>1 DEF OnboardingInv, OnboardingTypeOK, States, DeclineNewTerm
<1>3. OnboardingTypeOK'
  BY <1>2 DEF OnboardingInv, OnboardingTypeOK, DeclineNewTerm, End, Stages, work, Outside
<1>4. CompleteIsDone' /\ OnlySelected'
  BY <1>2 DEF OnboardingInv, CompleteIsDone, OnlySelected, DeclineNewTerm, work
<1>5. QED
  BY <1>2, <1>3, <1>4, EndKeepsInit DEF OnboardingInv, Selected, DeclineNewTerm, Outside, work

LEMMA SwitchTermKeeps == OnboardingInv /\ SwitchTerm => OnboardingInv'
<1> SUFFICES ASSUME OnboardingInv, SwitchTerm PROVE OnboardingInv'
  OBVIOUS
<1>0. saved \in States /\ term \in Terms \cup {Unset}
  BY DEF OnboardingInv, OnboardingTypeOK
<1>1. /\ saved' \in States
      /\ saved'.selected # Unset => saved' = saved
  BY <1>0 DEF SwitchTerm, Switched, States
<1>2. OnboardingTypeOK'
  BY <1>1 DEF OnboardingInv, OnboardingTypeOK, SwitchTerm, Stages, run, work, Outside
<1>3. Selected' /\ Resumable'
  BY <1>1 DEF OnboardingInv, Selected, Resumable, ActiveTerms, SwitchTerm, run, work, Outside
<1>4. CompleteIsDone' /\ OnlySelected'
  BY <1>1 DEF OnboardingInv, CompleteIsDone, OnlySelected, SwitchTerm, work
<1>5. QED
  BY <1>2, <1>3, <1>4 DEF OnboardingInv

LEMMA SelectCoursesKeeps == OnboardingInv /\ SelectCourses => OnboardingInv'
<1> SUFFICES ASSUME OnboardingInv, SelectCourses PROVE OnboardingInv'
  OBVIOUS
<1>0. /\ saved \in States /\ found \subseteq Courses /\ term \in Terms
      /\ stage = "courses" /\ stage' = "metadata"
      /\ UNCHANGED <<found, term, approved, listed, fetched, absent>> /\ Outside
  BY LatestTerm DEF OnboardingInv, OnboardingTypeOK, SelectCourses, Resumable
<1>1. CASE saved.term = term /\ saved.selected # Unset
  <2>1. /\ chosen' \subseteq saved.selected /\ saved.selected \subseteq Courses
        /\ UNCHANGED <<saved, allowed>>
    BY <1>0, <1>1 DEF SelectCourses, States
  <2>2. OnboardingTypeOK'
    BY <1>0, <2>1 DEF OnboardingInv, OnboardingTypeOK, Stages, Outside
  <2>3. Selected' /\ Resumable'
    BY <1>0, <1>1, <2>1 DEF OnboardingInv, Selected, Resumable, ActiveTerms, Outside
  <2>4. CompleteIsDone' /\ OnlySelected'
    BY <1>0, <2>1 DEF OnboardingInv, CompleteIsDone, OnlySelected
  <2>5. QED
    BY <2>2, <2>3, <2>4 DEF OnboardingInv
<1>2. CASE ~(saved.term = term /\ saved.selected # Unset)
  <2>1. PICK selection \in SUBSET OfTerm(found) :
            /\ chosen' = selection
            /\ allowed' = allowed \cup selection
            /\ saved' = [saved EXCEPT !.term = term, !.selected = selection,
                                      !.metadata_complete = FALSE,
                                      !.file_complete = FALSE]
    BY <1>2 DEF SelectCourses, Selections
  <2>2. /\ selection \subseteq Courses /\ selection # Unset
        /\ \A c \in selection : TermOf[c] = term
    BY <1>0, CoursesAssumption DEF OfTerm
  <2>3. /\ saved' \in States /\ saved'.term = term /\ saved'.selected = selection
        /\ saved'.metadata_complete = FALSE /\ saved'.file_complete = FALSE
    BY <1>0, <2>1, <2>2 DEF States
  <2>4. OnboardingTypeOK'
    BY <1>0, <2>1, <2>2, <2>3 DEF OnboardingInv, OnboardingTypeOK, Stages, Outside
  <2>5. Selected' /\ Resumable'
    BY <1>0, <2>1, <2>2, <2>3 DEF OnboardingInv, Selected, Resumable, ActiveTerms, Outside
  <2>6. CompleteIsDone' /\ OnlySelected'
    BY <1>0, <2>1, <2>2, <2>3 DEF OnboardingInv, CompleteIsDone, OnlySelected
  <2>7. QED
    BY <2>4, <2>5, <2>6 DEF OnboardingInv
<1>3. QED
  BY <1>1, <1>2

LEMMA SyncMetadataKeeps == OnboardingInv /\ SyncMetadata => OnboardingInv'
<1> SUFFICES ASSUME OnboardingInv, SyncMetadata PROVE OnboardingInv'
  OBVIOUS
<1>0. /\ saved \in States /\ stage = "metadata"
      /\ saved.selected # Unset /\ saved.selected \subseteq Courses
      /\ term \in ActiveTerms
      /\ UNCHANGED <<allowed, fetched>> /\ Outside
  BY DEF OnboardingInv, OnboardingTypeOK, SyncMetadata, Resumable, States
<1>1. Max(ActiveTerms) \in Terms
  BY <1>0, LatestTerm DEF OnboardingInv
<1>2. /\ saved' \in States
      /\ saved'.term = saved.term /\ saved'.selected = saved.selected
      /\ saved'.file_complete = saved.file_complete /\ saved'.file_scope = saved.file_scope
      /\ \/ UNCHANGED <<listed, absent>>
            /\ saved'.metadata_complete = saved.metadata_complete
         \/ listed' = listed \cup chosen /\ absent' = absent \cup Missed
  BY <1>0, <1>1 DEF SyncMetadata, States
<1>3. OnboardingTypeOK'
  <2>1. listed' \subseteq Courses /\ absent' \subseteq Courses
    BY <1>0, <1>2 DEF OnboardingInv, OnboardingTypeOK, Missed
  <2>2. /\ stage' \in Stages /\ found' \subseteq Courses /\ term' \in Terms \cup {Unset}
        /\ approved' \in BOOLEAN /\ chosen' \subseteq Courses
    BY DEF OnboardingInv, OnboardingTypeOK, SyncMetadata, End, run, Stages
  <2>3. QED
    BY <1>0, <1>2, <2>1, <2>2 DEF OnboardingInv, OnboardingTypeOK, Outside
<1>4. Selected' /\ Resumable'
  <2>1. chosen' \subseteq chosen /\ (chosen' = {} \/ chosen' = chosen)
    BY DEF SyncMetadata, End, run
  <2>2. Selected'
    BY <1>0, <1>2, <2>1 DEF OnboardingInv, Selected, Outside
  <2>3. Resumable'
    BY <1>0, <1>2 DEF SyncMetadata, Resumable, ActiveTerms, End, run
  <2>4. QED
    BY <2>2, <2>3
<1>5. CompleteIsDone'
  <2>1. ASSUME NEW c \in saved.selected
        PROVE  /\ TermOf[c] = saved.term
               /\ saved'.metadata_complete => c \in listed' \cup absent'
               /\ saved.file_complete => c \in absent' \/ <<c, saved.file_scope>> \in fetched
    BY <1>0, <1>2 DEF OnboardingInv, CompleteIsDone, Missed
  <2>2. QED
    BY <1>0, <1>2, <2>1 DEF CompleteIsDone
<1>6. OnlySelected'
  BY <1>0, <1>2 DEF OnboardingInv, OnlySelected, Selected
<1>7. QED
  BY <1>3, <1>4, <1>5, <1>6 DEF OnboardingInv

LEMMA ChooseScopeKeeps == OnboardingInv /\ ChooseScope => OnboardingInv'
<1> SUFFICES ASSUME OnboardingInv, ChooseScope PROVE OnboardingInv'
  OBVIOUS
<1>0. /\ saved \in States /\ stage = "scope" /\ stage' = "files"
      /\ saved.selected # Unset /\ ~saved.file_complete
      /\ UNCHANGED <<run, work>> /\ Outside
  BY DEF OnboardingInv, OnboardingTypeOK, ChooseScope, Resumable
<1>1. /\ saved' \in States /\ saved'.file_scope # Unset
      /\ saved'.term = saved.term /\ saved'.selected = saved.selected
      /\ saved'.metadata_complete = saved.metadata_complete
      /\ saved'.file_complete = saved.file_complete
  <2>1. Unset \notin Scopes
    BY CoursesAssumption DEF Scopes
  <2>2. QED
    BY <1>0, <2>1 DEF ChooseScope, States
<1>2. OnboardingTypeOK'
  BY <1>0, <1>1 DEF OnboardingInv, OnboardingTypeOK, Stages, run, work, Outside
<1>3. Selected' /\ Resumable'
  BY <1>0, <1>1 DEF OnboardingInv, Selected, Resumable, ActiveTerms, run, work, Outside
<1>4. CompleteIsDone' /\ OnlySelected'
  BY <1>0, <1>1 DEF OnboardingInv, CompleteIsDone, OnlySelected, work
<1>5. QED
  BY <1>2, <1>3, <1>4 DEF OnboardingInv

LEMMA SyncFilesKeeps == OnboardingInv /\ SyncFiles => OnboardingInv'
<1> SUFFICES ASSUME OnboardingInv, SyncFiles PROVE OnboardingInv'
  OBVIOUS
<1>0. /\ saved \in States /\ stage = "files" /\ End
      /\ saved.selected # Unset /\ saved.selected \subseteq Courses
      /\ saved.file_scope \in Scopes
      /\ fetched' = fetched \cup (chosen \X {saved.file_scope})
      /\ absent' = absent \cup (saved.selected \ chosen)
      /\ UNCHANGED <<allowed, listed>> /\ Outside
  BY DEF OnboardingInv, OnboardingTypeOK, SyncFiles, Resumable, States, Missed
<1>1. /\ saved' \in States /\ saved'.file_scope = saved.file_scope
      /\ saved'.term = saved.term /\ saved'.selected = saved.selected
      /\ saved'.metadata_complete = saved.metadata_complete
  BY <1>0 DEF SyncFiles, States
<1>2. OnboardingTypeOK'
  BY <1>0, <1>1 DEF OnboardingInv, OnboardingTypeOK, End, Stages, Outside
<1>3. CompleteIsDone'
  <2>1. ASSUME NEW c \in saved.selected
        PROVE  /\ TermOf[c] = saved.term
               /\ saved.metadata_complete => c \in listed \cup absent'
               /\ c \in absent' \/ <<c, saved.file_scope>> \in fetched'
    BY <1>0 DEF OnboardingInv, CompleteIsDone
  <2>2. QED
    BY <1>0, <1>1, <2>1 DEF CompleteIsDone
<1>4. OnlySelected'
  <2>1. \A f \in fetched' : f[1] \in allowed
    BY <1>0 DEF OnboardingInv, OnlySelected, Selected
  <2>2. QED
    BY <1>0, <2>1 DEF OnboardingInv, OnlySelected
<1>5. QED
  BY <1>0, <1>1, <1>2, <1>3, <1>4, EndKeepsInit DEF OnboardingInv, Selected, Outside

LEMMA OutsideKeeps == OnboardingInv /\ (SyncStarts \/ SyncLists \/ Enrol) => OnboardingInv'
<1> SUFFICES ASSUME OnboardingInv, SyncStarts \/ SyncLists \/ Enrol PROVE OnboardingInv'
  OBVIOUS
<1>1. /\ UNCHANGED <<stage, saved, run, allowed, fetched, absent>>
      /\ sync' \in {sync, Idle, saved.selected}
      /\ \/ UNCHANGED listed
         \/ sync # Idle /\ listed' = listed \cup (sync \cap enrolled)
  BY DEF SyncStarts, SyncLists, Enrol, Preferences, work
<1>2. sync' \in {sync, Idle} \/ (sync' = saved.selected /\ saved.selected # Unset)
  BY DEF SyncStarts, SyncLists, Enrol, Preferences
<1>3. OnboardingTypeOK'
  <2>1. sync' \in {Idle} \cup SUBSET Courses /\ listed' \subseteq Courses
    BY <1>1, <1>2 DEF OnboardingInv, OnboardingTypeOK, States
  <2>2. enrolled' \subseteq Courses /\ changes' \in 0..MaxChanges
    BY CoursesAssumption DEF OnboardingInv, OnboardingTypeOK, SyncStarts, SyncLists, Enrol
  <2>3. QED
    BY <1>1, <2>1, <2>2 DEF OnboardingInv, OnboardingTypeOK, run
<1>4. Selected' /\ Resumable'
  BY <1>1, <1>2 DEF OnboardingInv, Selected, Resumable, ActiveTerms, run
<1>5. CompleteIsDone' /\ OnlySelected'
  BY <1>1 DEF OnboardingInv, CompleteIsDone, OnlySelected, Selected
<1>6. QED
  BY <1>3, <1>4, <1>5 DEF OnboardingInv

LEMMA OnboardingInvNext ==
    OnboardingInv /\ [OnboardingNext]_onboardingVars => OnboardingInv'
<1> SUFFICES ASSUME OnboardingInv, [OnboardingNext]_onboardingVars PROVE OnboardingInv'
  OBVIOUS
<1>1. CASE Start \/ Stop
  BY <1>1, StartKeeps
<1>2. CASE ConfirmVault \/ ConfigureSkills \/ ConfigureGrades
           \/ ConfigureProfile \/ ConfigureBackend \/ HaveSession
  BY <1>2, SettleKeeps
<1>3. CASE Discover \/ ChooseTerm
  BY <1>3, TermKeeps
<1>4. CASE DeclineNewTerm
  BY <1>4, DeclineNewTermKeeps
<1>5. CASE SwitchTerm
  BY <1>5, SwitchTermKeeps
<1>6. CASE SelectCourses
  BY <1>6, SelectCoursesKeeps
<1>7. CASE SyncMetadata
  BY <1>7, SyncMetadataKeeps
<1>8. CASE ChooseScope
  BY <1>8, ChooseScopeKeeps
<1>9. CASE SyncFiles
  BY <1>9, SyncFilesKeeps
<1>10. CASE SyncStarts \/ SyncLists \/ Enrol
  BY <1>10, OutsideKeeps
<1>11. CASE UNCHANGED onboardingVars
  BY <1>11 DEF onboardingVars, work, OnboardingInv, OnboardingTypeOK, Selected, Resumable,
     ActiveTerms, CompleteIsDone, OnlySelected
<1>12. QED
  BY <1>1, <1>2, <1>3, <1>4, <1>5, <1>6, <1>7, <1>8, <1>9, <1>10, <1>11 DEF OnboardingNext

LEMMA OnboardingInvAlways == OnboardingSpec => []OnboardingInv
<1>1. QED
  BY OnboardingInvInit, OnboardingInvNext, PTL DEF OnboardingSpec

-----------------------------------------------------------------------------
(* Onboarding: the theorems *)

\* Every field of init.json has one of its values in every stage, and the
\* latest of the active terms exists wherever it is saved (_validate_init_state).
THEOREM OnboardingTypeCorrect == OnboardingSpec => []OnboardingTypeOK
<1>1. OnboardingInv => OnboardingTypeOK
  BY DEF OnboardingInv
<1>2. QED
  BY <1>1, OnboardingInvAlways, PTL

\* What init.json calls complete was done for every selected course that was
\* active, for any number of terms, changes of enrolment and interruptions.
THEOREM CompleteIsDoneAlways == OnboardingSpec => []CompleteIsDone
<1>1. OnboardingInv => CompleteIsDone
  BY DEF OnboardingInv
<1>2. QED
  BY <1>1, OnboardingInvAlways, PTL

\* Neither init nor a sync beside it reads a course nobody selected.
THEOREM OnlySelectedAlways == OnboardingSpec => []OnlySelected
<1>1. OnboardingInv => OnlySelected
  BY DEF OnboardingInv
<1>2. QED
  BY <1>1, OnboardingInvAlways, PTL
=============================================================================
