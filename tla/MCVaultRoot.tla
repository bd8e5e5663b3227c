---------------------------- MODULE MCVaultRoot ----------------------------
(* Two paths, two files of the state, and tools of two schemas, between     *)
(* which there is a migration.                                              *)
EXTENDS VaultRoot

CONSTANTS manifest, log

MCNames == 1..2
MCFiles == {manifest, log}
MCSchemas == 0..1
MCRegistered == {0}
=============================================================================
