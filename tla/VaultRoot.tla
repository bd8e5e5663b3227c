------------------------------ MODULE VaultRoot ------------------------------
(* How a directory becomes a vault and stays one that the running tool can  *)
(* read: the claim of `a2l init` (cli.py: _preview_vault; vault.py: claim)  *)
(* and the check of the vault's schema, with its backup, migration and      *)
(* rollback (vault.py: check_schema), made before every use of the state.   *)
(*                                                                          *)
(* A file of .a2l is the schema version it is written in.  The registered   *)
(* migrations are external (the registry is empty in this release): one may *)
(* raise, add files and remove files, and what it writes is in the next     *)
(* version, whatever of it was already.  Every step on the disk is an       *)
(* action, and the command may be killed between two of them; one command   *)
(* runs at a time.                                                          *)
EXTENDS Integers

CONSTANTS
    Names,      \* 1..n: the requested path, and the -2, -3... beside it
    Files,      \* the files of .a2l other than VERSION
    Schemas,    \* 0..n, SCHEMA_VERSION of the tools that are used
    Registered, \* MIGRATIONS: the versions there is a migration from
    None,       \* no file, no VERSION
    MaxFaults   \* bound: kills and failing file operations

ASSUME VaultAssumption ==
    /\ Names \subseteq Nat /\ Schemas \subseteq Nat
    /\ Registered \subseteq Schemas
    /\ None \notin Schemas
    /\ MaxFaults \in Nat

VARIABLES
    root,    \* what is at a path
    version, \* .a2l/VERSION
    debris,  \* whether a temporary file of VERSION was left in .a2l
    files,   \* the other files of .a2l
    backups, \* the .a2l-backup-v* beside it
    at,      \* what the command does next
    engine,  \* its SCHEMA_VERSION
    vault,   \* the path it works on
    before,  \* the backup of its migration
    staged,  \* the state its migration made
    whole,   \* the last state of a vault that was in one version and stayed
    ahead,   \* the vaults a rollback has found under a VERSION already new
    faults

state == <<version, debris, files>>
process == <<engine, vault, before, staged>>
observed == <<whole, ahead>>
vars == <<root, state, backups, at, process, observed, faults>>

Versions == Schemas \cup {None}
States == [version : Versions, files : [Files -> Versions]]
Empty == [version |-> None, files |-> [f \in Files |-> None]]

TypeOK ==
    /\ root \in [Names -> {"free", "other", "bare", "ignored", "vault"}]
    /\ version \in [Names -> Versions]
    /\ debris \in [Names -> BOOLEAN]
    /\ files \in [Names -> [Files -> Versions]]
    /\ backups \in [Names -> SUBSET States]
    /\ at \in {"idle", "asked", "claim", "ignore", "state", "check", "version",
               "rename", "backup", "migrate", "publish", "published", "restore",
               "restored", "open", "failed"}
    /\ engine \in Schemas
    /\ vault \in Names
    /\ before \in States /\ staged \in States
    /\ whole \in [Names -> States]
    /\ ahead \subseteq Names
    /\ faults \in 0..MaxFaults

\* Paths are free or taken by something else.
Init ==
    /\ root \in [Names -> {"free", "other"}]
    /\ version = [n \in Names |-> None]
    /\ debris = [n \in Names |-> FALSE]
    /\ files = [n \in Names |-> Empty.files]
    /\ backups = [n \in Names |-> {}]
    /\ at = "idle"
    /\ engine \in Schemas
    /\ vault \in Names
    /\ before = Empty /\ staged = Empty
    /\ whole = [n \in Names |-> Empty]
    /\ ahead = {}
    /\ faults = 0

Fault == faults < MaxFaults /\ faults' = faults + 1
Now == [version |-> version[vault], files |-> files[vault]]

-----------------------------------------------------------------------------
(* The claim *)

IsVault(n) == root[n] = "vault"

\* _preview_vault: the first path that is a vault or has nothing at it.
Candidate(n) ==
    /\ IsVault(n) \/ root[n] = "free"
    /\ \A m \in Names : m < n => root[m] \in {"other", "bare", "ignored"}

BeginInit ==
    /\ at = "idle" /\ at' = "asked"
    /\ engine' \in Schemas
    /\ \E n \in Names : Candidate(n) /\ vault' = n
    /\ before' = Empty /\ staged' = Empty
    /\ UNCHANGED <<root, state, backups, observed, faults>>

\* The student confirms the path, or does not.
Answer ==
    /\ at = "asked" /\ at' \in {"claim", "idle"}
    /\ UNCHANGED <<root, state, backups, process, observed, faults>>

\* Vault.claim(candidate, allow_suffix=False): a path that was taken since the
\* student confirmed it is refused.
Claim ==
    /\ at = "claim"
    /\ \/ IsVault(vault) /\ at' = "check" /\ UNCHANGED root
       \/ root[vault] = "free" /\ at' = "ignore" /\ root' = [root EXCEPT ![vault] = "bare"]
       \/ ~IsVault(vault) /\ root[vault] # "free" /\ at' = "idle" /\ UNCHANGED root
    /\ UNCHANGED <<state, backups, process, observed, faults>>

\* The path is inside the tool's own checkout, or inside a Git worktree and the
\* student does not type the phrase.
Refused ==
    /\ at = "claim" /\ at' = "idle"
    /\ UNCHANGED <<root, state, backups, process, observed, faults>>

\* _write_vault_gitignore.
WriteIgnore ==
    /\ at = "ignore" /\ at' = "state"
    /\ root' = [root EXCEPT ![vault] = "ignored"]
    /\ UNCHANGED <<state, backups, process, observed, faults>>

MakeState ==
    /\ at = "state" /\ at' = "check"
    /\ root' = [root EXCEPT ![vault] = "vault"]
    /\ UNCHANGED <<state, backups, process, observed, faults>>

-----------------------------------------------------------------------------
(* check_schema *)

\* Any other command on a vault.
BeginCommand ==
    /\ at = "idle" /\ at' = "check"
    /\ engine' \in Schemas
    /\ \E n \in Names : IsVault(n) /\ vault' = n
    /\ before' = Empty /\ staged' = Empty
    /\ UNCHANGED <<root, state, backups, observed, faults>>

HasVersion == version[vault] # None
HasOtherState == debris[vault] \/ \E f \in Files : files[vault][f] # None

\* A state without VERSION must be empty; a newer one is refused.
Check ==
    /\ at = "check"
    /\ \/ /\ ~HasVersion
          /\ at' = IF HasOtherState THEN "failed" ELSE "version"
       \/ /\ HasVersion
          /\ \/ version[vault] = engine /\ at' = "open"
             \/ version[vault] > engine /\ at' = "failed"
             \/ version[vault] < engine /\ at' = "backup"
    /\ UNCHANGED <<root, state, backups, process, observed, faults>>

\* atomic_write_text(VERSION): a temporary file in .a2l, then a rename.
WriteVersion ==
    /\ at = "version" /\ at' = "rename"
    /\ debris' = [debris EXCEPT ![vault] = TRUE]
    /\ UNCHANGED <<root, version, files, backups, process, observed, faults>>

RenameVersion ==
    /\ at = "rename" /\ at' = "open"
    /\ debris' = [debris EXCEPT ![vault] = FALSE]
    /\ version' = [version EXCEPT ![vault] = engine]
    /\ whole' = [whole EXCEPT ![vault] = [version |-> engine, files |-> files[vault]]]
    /\ UNCHANGED <<root, files, backups, process, ahead, faults>>

\* A backup that is kept from an earlier attempt instead.
BackupOnce ==
    /\ at = "backup" /\ at' = "migrate"
    /\ before' = Now
    /\ backups' = [backups EXCEPT ![vault] = {Now}]
    /\ UNCHANGED <<root, state, engine, vault, staged, observed, faults>>

\* _backup_state: under a name of its own; never removed once it is complete.
Backup ==
    /\ at = "backup" /\ at' = "migrate"
    /\ before' = Now
    /\ backups' = [backups EXCEPT ![vault] = @ \cup {Now}]
    /\ UNCHANGED <<root, state, engine, vault, staged, observed, faults>>

\* _copy_tree to a staging directory and the migrations there: one may be
\* missing, or raise.
Migrate ==
    /\ at = "migrate"
    /\ \/ /\ version[vault]..(engine - 1) \subseteq Registered
          /\ \E made \in SUBSET Files :
                staged' = [version |-> engine,
                           files |-> [f \in Files |-> IF f \in made THEN engine ELSE None]]
          /\ at' = "publish"
       \/ at' = "failed" /\ UNCHANGED staged
    /\ UNCHANGED <<root, state, backups, engine, vault, before, observed, faults>>

\* _install_migrated_state: the staged state is published, or the backup put
\* back.
Source == IF at = "restore" THEN before ELSE staged

\* What the source does not have forgotten.
NothingObsolete == {}

Obsolete == {f \in Files : files[vault][f] # None /\ Source.files[f] = None}
Differing == {f \in Files : Source.files[f] \notin {None, files[vault][f]}}

\* _synchronize_state removes what is obsolete, then writes what differs.
Synchronize ==
    /\ at \in {"publish", "restore"}
    /\ \E f \in IF Obsolete # {} THEN Obsolete ELSE Differing :
            files' = [files EXCEPT ![vault][f] = Source.files[f]]
    /\ UNCHANGED <<root, version, debris, backups, at, process, observed, faults>>

\* VERSION before the files.
SynchronizeVersionFirst ==
    /\ at \in {"publish", "restore"}
    /\ version[vault] # Source.version
    /\ version' = [version EXCEPT ![vault] = Source.version]
    /\ UNCHANGED <<root, debris, files, backups, at, process, observed, faults>>

\* No file is older than VERSION says.
Honest(s) == \A f \in Files : s.files[f] # None => s.version <= s.files[f]

\* _synchronize_state replaces VERSION after every other file; it has not yet
\* returned.
SynchronizeVersion ==
    /\ at \in {"publish", "restore"}
    /\ Obsolete = {} /\ Differing = {}
    /\ version' = [version EXCEPT ![vault] = Source.version]
    /\ at' = IF at = "publish" THEN "published" ELSE "restored"
    /\ ahead' = IF Honest(Source) THEN ahead \ {vault} ELSE ahead
    /\ UNCHANGED <<root, debris, files, backups, process, whole, faults>>

Stays == whole' = [whole EXCEPT ![vault] = staged]

\* It returns: the migration stands, or its failure is reported.
Synchronized ==
    /\ \/ at = "published" /\ at' = "open" /\ Stays
       \/ at = "restored" /\ at' = "failed" /\ UNCHANGED whole
    /\ UNCHANGED <<root, state, backups, process, ahead, faults>>

\* A file operation fails, or Ctrl-C arrives: the backup is put back, or, when
\* it was that which failed, nothing more is done.  The directory is flushed to
\* disk after each replacement, VERSION's too: when that is what fails, the
\* rollback begins under a VERSION that is already new.
SynchronizeFails ==
    /\ Fault
    /\ \/ /\ at \in {"publish", "published"} /\ at' = "restore"
          /\ ahead' = IF at = "published" THEN ahead \cup {vault} ELSE ahead
       \/ /\ at \in {"restore", "restored"} /\ at' = "idle"
          /\ UNCHANGED ahead
    /\ UNCHANGED <<root, state, backups, process, whole>>

-----------------------------------------------------------------------------

\* The command writes a file of the state, after another check of the schema
\* that finds nothing to do.
Save ==
    /\ at = "open" /\ version[vault] = engine
    /\ \E f \in Files :
            /\ files' = [files EXCEPT ![vault][f] = engine]
            /\ whole' = IF \A g \in Files : files'[vault][g] \in {None, engine}
                        THEN [whole EXCEPT ![vault] =
                                 [version |-> engine, files |-> files'[vault]]]
                        ELSE whole
    /\ UNCHANGED <<root, version, debris, backups, at, process, ahead, faults>>

End ==
    /\ at \in {"open", "failed"} /\ at' = "idle"
    /\ UNCHANGED <<root, state, backups, process, observed, faults>>

\* Something else takes a path.
Occupied ==
    /\ \E n \in Names : root[n] = "free" /\ root' = [root EXCEPT ![n] = "other"]
    /\ UNCHANGED <<state, backups, at, process, observed, faults>>

Killed ==
    /\ at # "idle" /\ at' = "idle"
    /\ Fault
    /\ IF at = "published" THEN Stays ELSE UNCHANGED whole
    /\ UNCHANGED <<root, state, backups, process, ahead>>

Next ==
    \/ BeginInit \/ Answer \/ Claim \/ Refused \/ WriteIgnore \/ MakeState
    \/ BeginCommand \/ Check \/ WriteVersion \/ RenameVersion
    \/ Backup \/ Migrate \/ Synchronize \/ SynchronizeVersion \/ Synchronized
    \/ SynchronizeFails
    \/ Save \/ End \/ Occupied \/ Killed

Spec == Init /\ [][Next]_vars

-----------------------------------------------------------------------------
(* Properties *)

\* VERSION never claims a version that a file has not been brought to, however
\* many migrations were killed or failed (_synchronize_state, check_schema),
\* but where VERSION itself had been replaced when the migration failed, and
\* until the rollback, or a later migration, has come to its end.
VersionIsHonest ==
    \A n \in Names \ ahead, f \in Files :
        files[n][f] # None => version[n] # None /\ version[n] <= files[n][f]

\* A vault that is partly in one version and partly in another has its last
\* state in a single version among its backups (_backup_state).
OriginalIsKept ==
    \A n \in Names :
        (\E f \in Files : files[n][f] \notin {None, version[n]})
            => whole[n] \in backups[n]

\* A check that failed without being killed, and put back what it could not
\* publish, leaves the state as it was (_install_migrated_state).
FailedIsUnchanged ==
    at = "failed" /\ before # Empty => Now = before
=============================================================================
