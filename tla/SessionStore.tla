---------------------------- MODULE SessionStore ----------------------------
(* Where the session of a sign-in is kept (session.py): the operating       *)
(* system's keyring first, a protected file when the keyring does not work. *)
(*                                                                          *)
(* A session is a number, in the order of the sign-ins; which cookies it    *)
(* projects is left out here.  The keyring is external.  It may fail or run *)
(* into the timeout of its helper process at any call, and a set or a       *)
(* delete that failed may have been done all the same.  Each of its calls,  *)
(* and each step on the file, is an action: the command may be killed       *)
(* between them.                                                            *)
EXTENDS Naturals

CONSTANTS
    MaxSessions,  \* bound: sign-ins whose session reaches the store
    NoSession     \* an empty store

ASSUME SessionsAssumption == MaxSessions \in Nat /\ NoSession \notin Nat

VARIABLES
    keyring,  \* the session in the keyring
    file,     \* the session in session.json
    step,     \* what store or clear does next
    value,    \* the session being stored, or stored last
    replaced, \* the sessions up to this one were replaced or cleared
    refused   \* the copies whose last removal did not happen

storeVars == <<keyring, file, step, value, replaced, refused>>

Sessions == 1..MaxSessions
Stores == {"keyring", "file"}

StoreTypeOK ==
    /\ keyring \in Sessions \cup {NoSession}
    /\ file \in Sessions \cup {NoSession}
    /\ step \in {"idle", "set", "unlink", "forget", "write", "delete", "remove"}
    /\ value \in 0..MaxSessions
    /\ replaced \in 0..MaxSessions
    /\ refused \subseteq Stores

StoreInit ==
    /\ keyring = NoSession
    /\ file = NoSession
    /\ step = "idle"
    /\ value = 0
    /\ replaced = 0
    /\ refused = {}

-----------------------------------------------------------------------------
(* store *)

\* store(value) is called with a verified session.
BeginStore(s) ==
    /\ step = "idle"
    /\ step' = "set"
    /\ value' = s
    /\ UNCHANGED <<keyring, file, replaced, refused>>

\* set succeeded.
KeyringAccepts ==
    /\ step = "set"
    /\ keyring' = value
    /\ refused' = refused \ {"keyring"}
    /\ step' = "unlink"
    /\ UNCHANGED <<file, value, replaced>>

\* The fallback without removing the older keyring value first.
WriteAtOnce ==
    /\ step = "set"
    /\ keyring' \in {keyring, value}
    /\ step' = "write"
    /\ UNCHANGED <<file, value, replaced, refused>>

\* set failed, or was not answered in time: what it did is not known.
KeyringRefuses ==
    /\ step = "set"
    /\ keyring' \in {keyring, value}
    /\ step' = "forget"
    /\ UNCHANGED <<file, value, replaced, refused>>

Unlinked == file' = NoSession /\ refused' = refused \ {"file"}

UnlinkFails ==
    /\ file # NoSession
    /\ refused' = refused \cup {"file"}
    /\ UNCHANGED file

\* _remove_file_quietly: an older file that cannot be unlinked stays.
UnlinkOlder ==
    /\ step = "unlink"
    /\ Unlinked \/ UnlinkFails
    /\ replaced' = value - 1
    /\ step' = "idle"
    /\ UNCHANGED <<keyring, value>>

\* _delete_keyring_quietly: done, not done, or done without a report of it.
Deletion ==
    \/ keyring' = NoSession /\ refused' = refused \ {"keyring"}
    \/ UNCHANGED keyring /\ refused' = refused \cup {"keyring"}

ForgetOlder ==
    /\ step = "forget"
    /\ Deletion
    /\ step' = "write"
    /\ UNCHANGED <<file, value, replaced>>

\* atomic_write_text(session.json), or the OSError of a full disk.
WriteFile ==
    /\ step = "write"
    /\ \/ file' = value /\ replaced' = value - 1 /\ refused' = refused \ {"file"}
       \/ UNCHANGED <<file, replaced, refused>>
    /\ step' = "idle"
    /\ UNCHANGED <<keyring, value>>

-----------------------------------------------------------------------------
(* clear *)

BeginClear ==
    /\ step = "idle"
    /\ step' = "delete"
    /\ UNCHANGED <<keyring, file, value, replaced, refused>>

DeleteItem ==
    /\ step = "delete"
    /\ Deletion
    /\ step' = "remove"
    /\ UNCHANGED <<file, value, replaced>>

\* _remove_file: a file that cannot be unlinked is an error, and nothing is
\* reported cleared.
RemoveFile ==
    /\ step = "remove"
    /\ \/ Unlinked /\ replaced' = value
       \/ UnlinkFails /\ UNCHANGED replaced
    /\ step' = "idle"
    /\ UNCHANGED <<keyring, value>>

-----------------------------------------------------------------------------

\* load: the keyring's value when it answers with one, else the file's.
LoadsFrom(copy) ==
    CASE copy = "keyring" -> keyring
      [] copy = "file"    -> file

Loads == {LoadsFrom(copy) : copy \in {"keyring", "file"}}

\* The command is killed between two steps.
KilledInStore ==
    /\ step # "idle"
    /\ step' = "idle"
    /\ UNCHANGED <<keyring, file, value, replaced, refused>>

StoreStep ==
    \/ KeyringAccepts \/ KeyringRefuses \/ UnlinkOlder \/ ForgetOlder \/ WriteFile
    \/ BeginClear \/ DeleteItem \/ RemoveFile
    \/ KilledInStore

-----------------------------------------------------------------------------
(* Properties *)

Older(s) == s # NoSession /\ s <= replaced

\* A load never returns a session older than the one that was last reported
\* stored, nor one that was reported cleared, unless the removal of that very
\* copy was refused: sign-ins that were killed half-way, keyrings that fail
\* and recover, and full disks do not bring one back (store, load, clear).
LoadIsNewest ==
    step = "idle" =>
        \A copy \in Stores : Older(LoadsFrom(copy)) => copy \in refused
=============================================================================
