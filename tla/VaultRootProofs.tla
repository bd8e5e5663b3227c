--------------------------- MODULE VaultRootProofs ---------------------------
(***************************************************************************)
(* Proofs about VaultRoot, for any paths, any files of the state, any      *)
(* schemas and migrations between them, and any number of kills and        *)
(* failures.                                                               *)
(***************************************************************************)
EXTENDS VaultRoot, TLAPS

StateOf(n) == [version |-> version[n], files |-> files[n]]

\* Until a migration has made its backup there is none to put back.
NoBackupYet ==
    at \in {"asked", "claim", "ignore", "state", "check", "version", "rename"}
        => before = Empty

\* Only a state without files gets its first VERSION.
NewState ==
    at \in {"version", "rename"} => \A f \in Files : files[vault][f] = None

\* A migration leads to a newer version, and VERSION stays what it was until
\* every file has been published; a rollback may find it published.
Upward ==
    /\ at \in {"backup", "migrate", "publish"} =>
            version[vault] \in Schemas /\ version[vault] < engine
    /\ at \in {"publish", "restore"} => version[vault] \in Schemas

\* What is put back is of VERSION, and as honest as the vault was, unless VERSION
\* was published before the rollback began.
BeforeIsHonest ==
    /\ at \in {"migrate", "publish"} => before.version = version[vault]
    /\ at \in {"migrate", "publish", "published", "restore", "restored"} =>
            before.version \in Schemas
    /\ at \in {"migrate", "publish", "restore"} /\ vault \notin ahead =>
            before.version = version[vault] /\ Honest(before)
    /\ at \in {"migrate", "publish", "published", "restore", "restored"} =>
            whole[vault] \in backups[vault]

\* Staging touches nothing; what it made is in the version of the tool.
StagedIsNew ==
    /\ at = "migrate" => before = StateOf(vault)
    /\ at \in {"publish", "published"} =>
            /\ staged.version = engine
            /\ \A f \in Files : staged.files[f] \in {None, engine}

\* When VERSION has been replaced, so has every other file.
AllReplaced ==
    /\ at = "published" => StateOf(vault) = staged
    /\ at = "restored" => StateOf(vault) = before

\* The last state in a single version is the present one or in a backup.
WholeIsKept == \A n \in Names : whole[n] = StateOf(n) \/ whole[n] \in backups[n]
WholeIsOne ==
    \A n \in Names, f \in Files : whole[n].files[f] \in {None, whole[n].version}

Protocol ==
    /\ NoBackupYet /\ NewState /\ Upward
    /\ BeforeIsHonest /\ StagedIsNew /\ AllReplaced

Inv ==
    /\ TypeOK /\ Protocol
    /\ VersionIsHonest /\ FailedIsUnchanged
    /\ WholeIsKept /\ WholeIsOne

-----------------------------------------------------------------------------

LEMMA EmptyState == Empty \in States /\ None \in Versions /\ Schemas \subseteq Nat
  BY VaultAssumption DEF Empty, States, Versions

LEMMA TypeInductive == TypeOK /\ [Next]_vars => TypeOK'
<1> SUFFICES ASSUME TypeOK, [Next]_vars PROVE TypeOK'
  OBVIOUS
<1> USE EmptyState, VaultAssumption DEF TypeOK, observed
<1>1. CASE BeginInit
  BY <1>1 DEF BeginInit, state
<1>2. CASE Answer
  BY <1>2 DEF Answer, state, process
<1>3. CASE Claim
  BY <1>3 DEF Claim, state, process
<1>4. CASE Refused
  BY <1>4 DEF Refused, state, process
<1>5. CASE WriteIgnore
  BY <1>5 DEF WriteIgnore, state, process
<1>6. CASE MakeState
  BY <1>6 DEF MakeState, state, process
<1>7. CASE BeginCommand
  BY <1>7 DEF BeginCommand, state
<1>8. CASE Check
  BY <1>8 DEF Check, state, process
<1>9. CASE WriteVersion
  BY <1>9 DEF WriteVersion, process
<1>10. CASE RenameVersion
  BY <1>10 DEF RenameVersion, process, States, Versions
<1>11. CASE Backup
  BY <1>11 DEF Backup, state, Now, States
<1>12. CASE Migrate
  <2>1. staged' \in States
    BY <1>12 DEF Migrate, States, Versions
  <2>2. QED
    BY <2>1, <1>12 DEF Migrate, state
<1>13. CASE Synchronize
  <2>1. Source \in States
    BY DEF Source
  <2>2. files' \in [Names -> [Files -> Versions]]
    BY <2>1, <1>13 DEF Synchronize, States, Obsolete, Differing
  <2>3. QED
    BY <2>2, <1>13 DEF Synchronize, process
<1>14. CASE SynchronizeVersion
  BY <1>14 DEF SynchronizeVersion, Source, States, process
<1>15. CASE SynchronizeFails
  <2>1. ahead' \subseteq Names /\ at' \in {"restore", "idle"}
    BY <1>15 DEF SynchronizeFails
  <2>2. faults' \in 0..MaxFaults
    BY <1>15 DEF SynchronizeFails, Fault
  <2>3. QED
    BY <2>1, <2>2, <1>15 DEF SynchronizeFails, state, process
<1>16. CASE Save
  <2>1. PICK f \in Files : /\ files' = [files EXCEPT ![vault][f] = engine]
                           /\ whole' \in {whole, [whole EXCEPT ![vault] =
                                  [version |-> engine, files |-> files'[vault]]]}
    BY <1>16 DEF Save
  <2>2. files' \in [Names -> [Files -> Versions]]
    BY <2>1 DEF Versions
  <2>3. whole' \in [Names -> States]
    BY <2>1, <2>2 DEF States, Versions
  <2>4. QED
    BY <2>2, <2>3, <1>16 DEF Save, process
<1>17. CASE End
  BY <1>17 DEF End, state, process
<1>18. CASE Occupied
  BY <1>18 DEF Occupied, state, process
<1>19. CASE Killed
  BY <1>19 DEF Killed, Stays, Fault, state, process
<1>20. CASE Synchronized
  BY <1>20 DEF Synchronized, Stays, state, process
<1>21. CASE UNCHANGED vars
  BY <1>21 DEF vars, state, process
<1>22. QED
  BY <1>1, <1>2, <1>3, <1>4, <1>5, <1>6, <1>7, <1>8, <1>9, <1>10, <1>11, <1>12,
     <1>13, <1>14, <1>15, <1>16, <1>17, <1>18, <1>19, <1>20, <1>21 DEF Next

\* What Inv says of every path but its type.
Kept == VersionIsHonest /\ WholeIsKept /\ WholeIsOne

\* A step that leaves the disk and the command's choices as they are.
LEMMA QuietKeeps ==
    ASSUME Inv, UNCHANGED <<version, files, backups, process, observed>>
    PROVE  Kept'
  BY DEF Inv, Kept, VersionIsHonest, WholeIsKept, WholeIsOne, StateOf, process, observed

LEMMA Claiming ==
    ASSUME Inv, BeginInit \/ Answer \/ Claim \/ Refused \/ WriteIgnore
                    \/ MakeState \/ BeginCommand \/ End \/ Occupied \/ Killed
                    \/ UNCHANGED vars
    PROVE  Kept' /\ Protocol' /\ FailedIsUnchanged'
<1> USE DEF Inv, Protocol, NoBackupYet, NewState, Upward, BeforeIsHonest,
            StagedIsNew, AllReplaced, FailedIsUnchanged, Now, StateOf, process,
            state, observed
<1>1. CASE BeginInit \/ BeginCommand
  <2>1. Kept'
    BY <1>1 DEF BeginInit, BeginCommand, Kept, VersionIsHonest, WholeIsKept,
                WholeIsOne
  <2>2. QED
    BY <1>1, <2>1 DEF BeginInit, BeginCommand
<1>2. CASE Answer \/ Claim \/ Refused \/ WriteIgnore \/ MakeState
  BY <1>2, QuietKeeps DEF Answer, Claim, Refused, WriteIgnore, MakeState
<1>3. CASE End \/ Occupied \/ (Killed /\ at # "published") \/ UNCHANGED vars
  BY <1>3, QuietKeeps DEF End, Occupied, Killed, vars
<1>4. CASE Killed /\ at = "published"
  <2>1. /\ UNCHANGED <<version, files, backups, ahead>> /\ at' = "idle"
        /\ whole' = [whole EXCEPT ![vault] = StateOf(vault)]
    BY <1>4 DEF Killed, Stays
  <2>2. \A f \in Files : StateOf(vault).files[f] \in {None, StateOf(vault).version}
    BY <1>4
  <2>3. Kept'
    BY <2>1, <2>2 DEF Kept, TypeOK, VersionIsHonest, WholeIsKept, WholeIsOne
  <2>4. QED
    BY <2>1, <2>3
<1>5. QED
  BY <1>1, <1>2, <1>3, <1>4

LEMMA Checking ==
    ASSUME Inv, Check \/ WriteVersion \/ SynchronizeFails
    PROVE  Kept' /\ Protocol' /\ FailedIsUnchanged'
<1> USE DEF Inv, Protocol, NoBackupYet, NewState, Upward, BeforeIsHonest,
            StagedIsNew, AllReplaced, FailedIsUnchanged, Now, StateOf, process,
            state, observed
<1>1. CASE Check
  <2>1. Protocol' /\ FailedIsUnchanged'
    BY <1>1, VaultAssumption
       DEF Check, HasVersion, HasOtherState, TypeOK, Versions
  <2>2. QED
    BY <1>1, <2>1, QuietKeeps DEF Check
<1>2. CASE WriteVersion
  BY <1>2, QuietKeeps DEF WriteVersion
<1>3. CASE SynchronizeFails
  <2>1. Kept'
    BY <1>3 DEF SynchronizeFails, Kept, VersionIsHonest, WholeIsKept, WholeIsOne
  <2>2. Protocol' /\ FailedIsUnchanged'
    BY <1>3, VaultAssumption DEF SynchronizeFails, TypeOK, Versions
  <2>3. QED
    BY <2>1, <2>2
<1>4. QED
  BY <1>1, <1>2, <1>3

LEMMA Renaming ==
    ASSUME Inv, RenameVersion
    PROVE  Kept' /\ Protocol' /\ FailedIsUnchanged'
<1>1. Protocol' /\ FailedIsUnchanged'
  BY DEF RenameVersion, Protocol, NoBackupYet, NewState, Upward,
         BeforeIsHonest, StagedIsNew, AllReplaced, FailedIsUnchanged
<1>2. /\ \A f \in Files : files[vault][f] = None
      /\ version' = [version EXCEPT ![vault] = engine]
      /\ whole' = [whole EXCEPT ![vault] = [version |-> engine, files |-> files[vault]]]
      /\ files' = files /\ backups' = backups /\ ahead' = ahead
  BY DEF RenameVersion, Inv, Protocol, NewState
<1>3. Kept'
  BY <1>2 DEF Inv, Kept, TypeOK, VersionIsHonest, WholeIsKept, WholeIsOne,
              StateOf, States
<1>4. QED
  BY <1>1, <1>3

LEMMA Migrating ==
    ASSUME Inv, Backup \/ Migrate
    PROVE  Kept' /\ Protocol' /\ FailedIsUnchanged'
<1> USE DEF Inv, Protocol, NoBackupYet, NewState, Upward, BeforeIsHonest,
            StagedIsNew, AllReplaced, FailedIsUnchanged, Now, StateOf, process,
            state, observed
<1>1. CASE Backup
  <2>1. /\ version' = version /\ files' = files /\ whole' = whole /\ ahead' = ahead
        /\ backups' = [backups EXCEPT ![vault] = @ \cup {StateOf(vault)}]
        /\ before' = StateOf(vault)
    BY <1>1 DEF Backup
  <2>2. Kept' /\ whole[vault] \in backups'[vault]
    BY <2>1 DEF Kept, TypeOK, VersionIsHonest, WholeIsKept, WholeIsOne
  <2>3. vault \notin ahead => Honest(StateOf(vault))
    BY DEF VersionIsHonest, TypeOK, Honest
  <2>4. Protocol' /\ FailedIsUnchanged'
    BY <1>1, <2>1, <2>2, <2>3 DEF Backup
  <2>5. QED
    BY <2>2, <2>4
<1>2. CASE Migrate
  <2>1. Kept'
    BY <1>2 DEF Migrate, Kept, VersionIsHonest, WholeIsKept, WholeIsOne
  <2>2. Protocol' /\ FailedIsUnchanged'
    BY <1>2 DEF Migrate
  <2>3. QED
    BY <2>1, <2>2
<1>3. QED
  BY <1>1, <1>2

\* A file of the state is made what it is in the migrated state, or in the
\* backup: none, or not older than VERSION.
LEMMA Synchronizing ==
    ASSUME Inv, Synchronize
    PROVE  Kept' /\ Protocol' /\ FailedIsUnchanged'
<1>1. PICK f \in Files :
            /\ files' = [files EXCEPT ![vault][f] = Source.files[f]]
            /\ UNCHANGED <<root, version, debris, backups, at, process, observed, faults>>
  BY DEF Synchronize, Obsolete, Differing
<1>2. at \in {"publish", "restore"}
  BY DEF Synchronize
<1>3. vault \notin ahead /\ Source.files[f] # None => version[vault] <= Source.files[f]
  <2>1. CASE at = "publish"
    <3>1. Source = staged
      BY <2>1 DEF Source
    <3>2. staged.files[f] \in {None, engine}
      BY <2>1 DEF Inv, Protocol, StagedIsNew
    <3>3. version[vault] \in Nat /\ engine \in Nat /\ version[vault] < engine
      BY <2>1, VaultAssumption DEF Inv, Protocol, Upward, TypeOK
    <3>4. QED
      BY <3>1, <3>2, <3>3
  <2>2. CASE at = "restore"
    BY <2>2 DEF Inv, Protocol, BeforeIsHonest, Source, Honest
  <2>3. QED
    BY <1>2, <2>1, <2>2
<1>4. VersionIsHonest'
  <2> SUFFICES ASSUME NEW n \in Names \ ahead, NEW g \in Files, files'[n][g] # None
               PROVE  version[n] # None /\ version[n] <= files'[n][g]
    BY <1>1 DEF VersionIsHonest, observed
  <2>1. CASE n = vault /\ g = f
    <3>1. files'[n][g] = Source.files[f]
      BY <2>1, <1>1 DEF Inv, TypeOK
    <3>2. version[vault] # None
      BY <1>2, VaultAssumption DEF Inv, Protocol, Upward
    <3>3. QED
      BY <2>1, <3>1, <3>2, <1>3
  <2>2. CASE ~(n = vault /\ g = f)
    <3>1. files'[n][g] = files[n][g]
      BY <2>2, <1>1 DEF Inv, TypeOK
    <3>2. QED
      BY <3>1 DEF Inv, VersionIsHonest
  <2>3. QED
    BY <2>1, <2>2
<1>5. WholeIsKept' /\ WholeIsOne'
  <2>1. whole[vault] \in backups[vault]
    BY <1>2 DEF Inv, Protocol, BeforeIsHonest
  <2>2. \A n \in Names \ {vault} : files'[n] = files[n]
    BY <1>1 DEF Inv, TypeOK
  <2>3. QED
    BY <1>1, <2>1, <2>2 DEF Inv, WholeIsKept, WholeIsOne, StateOf, observed
<1>6. Protocol' /\ FailedIsUnchanged'
  BY <1>1, <1>2 DEF Inv, Protocol, NoBackupYet, NewState, Upward,
     BeforeIsHonest, StagedIsNew, AllReplaced, FailedIsUnchanged, process, observed
<1>7. QED
  BY <1>4, <1>5, <1>6 DEF Kept

\* VERSION is replaced when every file is what it should be.
LEMMA Published ==
    ASSUME Inv, SynchronizeVersion
    PROVE  Kept' /\ Protocol' /\ FailedIsUnchanged'
<1>1. /\ at \in {"publish", "restore"}
      /\ Obsolete = {} /\ Differing = {}
      /\ version' = [version EXCEPT ![vault] = Source.version]
      /\ at' \in {"published", "restored"} /\ (at' = "published" <=> at = "publish")
      /\ ahead' = IF Honest(Source) THEN ahead \ {vault} ELSE ahead
      /\ UNCHANGED <<root, debris, files, backups, process, whole, faults>>
  BY DEF SynchronizeVersion
<1>2. files[vault] = Source.files /\ Source \in States
  <2>1. \A f \in Files : files[vault][f] = Source.files[f]
    BY <1>1 DEF Obsolete, Differing
  <2>2. /\ files[vault] \in [Files -> Versions] /\ Source.files \in [Files -> Versions]
        /\ Source \in States
    BY DEF Inv, TypeOK, Source, States
  <2>3. QED
    BY <2>1, <2>2
<1>3. version'[vault] = Source.version /\ Source = StateOf(vault)'
  BY <1>1, <1>2 DEF Inv, TypeOK, StateOf, States, process
<1>4. \A n \in Names \ {vault} : version'[n] = version[n]
  BY <1>1 DEF Inv, TypeOK
<1>5. whole[vault] \in backups[vault]
  BY <1>1 DEF Inv, Protocol, BeforeIsHonest
<1>6. WholeIsKept' /\ WholeIsOne'
  BY <1>1, <1>4, <1>5 DEF Inv, WholeIsKept, WholeIsOne, StateOf, process
<1>7. at = "publish" => Source = staged /\ Honest(Source) /\ Source.version # None
  BY VaultAssumption DEF Source, Honest, Inv, Protocol, StagedIsNew, TypeOK
<1>8. VersionIsHonest'
  <2> SUFFICES ASSUME NEW n \in Names, n \notin ahead',
                      NEW f \in Files, files'[n][f] # None
               PROVE  version'[n] # None /\ version'[n] <= files'[n][f]
    BY DEF VersionIsHonest
  <2>1. CASE n # vault
    <3>1. n \notin ahead /\ files'[n][f] = files[n][f] /\ version'[n] = version[n]
      BY <2>1, <1>1, <1>4
    <3>2. QED
      BY <3>1 DEF Inv, VersionIsHonest
  <2>2. CASE n = vault
    <3>1. Honest(Source)
      BY <2>2, <1>1, <1>7 DEF Inv, Protocol, BeforeIsHonest, Source
    <3>2. Source.version # None
      BY <1>1, <1>7, VaultAssumption DEF Inv, Protocol, BeforeIsHonest, Source
    <3>3. QED
      BY <2>2, <1>1, <1>2, <1>3, <3>1, <3>2 DEF Honest
  <2>3. QED
    BY <2>1, <2>2
<1>9. Protocol' /\ FailedIsUnchanged'
  BY <1>1, <1>3, <1>5, <1>7 DEF Inv, Protocol, NoBackupYet, NewState, Upward, BeforeIsHonest,
     StagedIsNew, AllReplaced, FailedIsUnchanged, Source, process
<1>10. QED
  BY <1>6, <1>8, <1>9 DEF Kept

\* When the synchronization returns, the migrated state is in one version, or
\* the vault is what it was.
LEMMA Returning ==
    ASSUME Inv, Synchronized
    PROVE  Kept' /\ Protocol' /\ FailedIsUnchanged'
<1> USE DEF Inv, Protocol, NoBackupYet, NewState, Upward, BeforeIsHonest,
            StagedIsNew, AllReplaced, FailedIsUnchanged, Now, StateOf, process,
            state, observed
<1>1. CASE at = "published"
  <2>1. /\ UNCHANGED <<version, files, backups, ahead>> /\ at' = "open"
        /\ whole' = [whole EXCEPT ![vault] = StateOf(vault)]
    BY <1>1 DEF Synchronized, Stays
  <2>2. \A f \in Files : StateOf(vault).files[f] \in {None, StateOf(vault).version}
    BY <1>1
  <2>3. Kept'
    BY <2>1, <2>2 DEF Kept, TypeOK, VersionIsHonest, WholeIsKept, WholeIsOne
  <2>4. QED
    BY <2>1, <2>3
<1>2. CASE at = "restored"
  BY <1>2, QuietKeeps DEF Synchronized
<1>3. QED
  BY <1>1, <1>2 DEF Synchronized

\* A write of a vault that a newer tool has half migrated leaves it mixed, and
\* then its last whole state is in a backup.
LEMMA Saving ==
    ASSUME Inv, Save
    PROVE  Kept' /\ Protocol' /\ FailedIsUnchanged'
<1>1. PICK f \in Files :
        /\ files' = [files EXCEPT ![vault][f] = engine]
        /\ whole' = IF \A g \in Files : files'[vault][g] \in {None, engine}
                    THEN [whole EXCEPT ![vault] =
                             [version |-> engine, files |-> files'[vault]]]
                    ELSE whole
  BY DEF Save
<1>2. /\ at = "open" /\ version[vault] = engine
      /\ UNCHANGED <<root, version, debris, backups, at, process, ahead, faults>>
  BY DEF Save
<1>3. \A n \in Names, g \in Files :
        files'[n][g] = IF n = vault /\ g = f THEN engine ELSE files[n][g]
  BY <1>1 DEF Inv, TypeOK
<1>4. engine \in Nat /\ engine # None
  BY VaultAssumption DEF Inv, TypeOK
<1>5. VersionIsHonest'
  BY <1>2, <1>3, <1>4 DEF Inv, VersionIsHonest
<1>6. \A n \in Names \ {vault} : files'[n] = files[n]
  BY <1>1 DEF Inv, TypeOK
<1>7. WholeIsKept' /\ WholeIsOne'
  <2>1. CASE \A g \in Files : files'[vault][g] \in {None, engine}
    <3>1. whole' = [whole EXCEPT ![vault] =
                       [version |-> engine, files |-> files'[vault]]]
      BY <1>1, <2>1
    <3>2. whole'[vault] = [version |-> engine, files |-> files'[vault]]
      BY <3>1 DEF Inv, TypeOK
    <3>3. \A n \in Names \ {vault} : whole'[n] = whole[n]
      BY <3>1 DEF Inv, TypeOK
    <3>4. WholeIsKept'
      BY <1>2, <1>6, <3>2, <3>3 DEF Inv, WholeIsKept, StateOf
    <3>5. \A g \in Files : whole'[vault].files[g] \in {None, whole'[vault].version}
      BY <2>1, <3>2
    <3>6. WholeIsOne'
      BY <3>3, <3>5 DEF Inv, WholeIsOne
    <3>7. QED
      BY <3>4, <3>6
  <2>2. CASE ~\A g \in Files : files'[vault][g] \in {None, engine}
    <3>1. PICK g \in Files : files[vault][g] \notin {None, engine}
      BY <2>2, <1>3 DEF Inv, TypeOK
    <3>2. whole[vault] # StateOf(vault)
      BY <1>2, <3>1 DEF Inv, TypeOK, WholeIsOne, StateOf
    <3>3. whole[vault] \in backups[vault] /\ whole' = whole
      BY <1>1, <2>2, <3>2 DEF Inv, TypeOK, WholeIsKept
    <3>4. QED
      BY <1>2, <1>6, <3>3 DEF Inv, WholeIsKept, WholeIsOne, StateOf
  <2>3. QED
    BY <2>1, <2>2
<1>8. Protocol' /\ FailedIsUnchanged'
  BY <1>2 DEF Protocol, NoBackupYet, NewState, Upward, BeforeIsHonest,
              StagedIsNew, AllReplaced, FailedIsUnchanged
<1>9. QED
  BY <1>5, <1>7, <1>8 DEF Kept

LEMMA InvInductive == Inv /\ [Next]_vars => Inv'
<1> SUFFICES ASSUME Inv, [Next]_vars PROVE Inv'
  OBVIOUS
<1>1. TypeOK'
  BY TypeInductive DEF Inv
<1>2. Kept' /\ Protocol' /\ FailedIsUnchanged'
  BY Claiming, Checking, Renaming, Migrating, Synchronizing, Published, Returning,
     Saving
     DEF Next
<1>3. QED
  BY <1>1, <1>2 DEF Inv, Kept

LEMMA InvInitially == Init => Inv
<1> SUFFICES ASSUME Init PROVE Inv
  OBVIOUS
<1>1. TypeOK
  BY EmptyState, VaultAssumption DEF Init, TypeOK, States, Empty
<1>2. Protocol /\ FailedIsUnchanged
  BY DEF Init, Protocol, NoBackupYet, NewState, Upward, BeforeIsHonest,
         StagedIsNew, AllReplaced, FailedIsUnchanged
<1>3. VersionIsHonest /\ WholeIsKept /\ WholeIsOne
  BY DEF Init, VersionIsHonest, WholeIsKept, WholeIsOne, StateOf, Empty
<1>4. QED
  BY <1>1, <1>2, <1>3 DEF Inv

LEMMA InvAlways == Spec => []Inv
  BY InvInitially, InvInductive, PTL DEF Spec

-----------------------------------------------------------------------------

\* Paths, versions, files and backups are what the claim, check_schema and its
\* migrations may leave them.
THEOREM TypeCorrect == Spec => []TypeOK
<1>1. Inv => TypeOK
  BY DEF Inv
<1>2. QED
  BY <1>1, InvAlways, PTL

\* However many migrations are killed, fail or are rolled back, VERSION claims
\* more than the oldest file only in a vault whose rollback began after VERSION
\* had been replaced (_install_migrated_state), and there no longer than until
\* a rollback to an honest state or another migration has come to its end.
THEOREM VersionIsHonestAlways == Spec => []VersionIsHonest
<1>1. Inv => VersionIsHonest
  BY DEF Inv
<1>2. QED
  BY <1>1, InvAlways, PTL

\* A vault in two versions at once has its last whole state in a backup
\* (_backup_state, before anything is staged).
THEOREM OriginalIsKeptAlways == Spec => []OriginalIsKept
<1>1. Inv => OriginalIsKept
  <2> SUFFICES ASSUME Inv, NEW n \in Names, NEW f \in Files,
                      files[n][f] \notin {None, version[n]}
               PROVE  whole[n] \in backups[n]
    BY DEF OriginalIsKept
  <2>1. whole[n] # StateOf(n)
    BY DEF Inv, WholeIsOne, StateOf
  <2>2. QED
    BY <2>1 DEF Inv, WholeIsKept
<1>2. QED
  BY <1>1, InvAlways, PTL

\* A migration that fails and is rolled back leaves every file as it was
\* (_install_migrated_state).
THEOREM FailedIsUnchangedAlways == Spec => []FailedIsUnchanged
<1>1. Inv => FailedIsUnchanged
  BY DEF Inv
<1>2. QED
  BY <1>1, InvAlways, PTL
=============================================================================
