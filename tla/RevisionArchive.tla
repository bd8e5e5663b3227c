--------------------------- MODULE RevisionArchive ---------------------------
(***************************************************************************)
(* What a captured source promises, without files, journals or crashes: a  *)
(* revision is accepted, a newer source may be proposed and then accepted, *)
(* and an accepted source may give way only once it is in the archive.     *)
(* The twin is made from the source and may be made again at any time.     *)
(* GeneratedRevision and SourceInstall implement it.                       *)
(***************************************************************************)
CONSTANTS Sources, Twins, None

Revision == [source : Sources, twin : Twins]

VARIABLES
    accepted,   \* the revision the manifest records, or None
    proposed,   \* the source the program has committed itself to, or None
    archive,    \* the sources of the archived revisions
    held        \* accepted sources the student has not discarded

avars == <<accepted, proposed, archive, held>>

AInit ==
    /\ accepted = None
    /\ proposed = None
    /\ archive = {}
    /\ held = {}

\* The accepted source can give way to s without being lost.
MayGiveWay(s) ==
    accepted # None /\ accepted.source \in held =>
        accepted.source \in {s} \cup archive

\* What is accepted or about to be is archived.
Archive(s) ==
    /\ s = proposed \/ (accepted # None /\ s = accepted.source)
    /\ archive' = archive \cup {s}
    /\ UNCHANGED <<accepted, proposed, held>>

Propose(s) ==
    /\ proposed = None
    /\ MayGiveWay(s)
    /\ proposed' = s
    /\ UNCHANGED <<accepted, archive, held>>

\* What Propose found is looked at again: the student may have put an accepted
\* source back.
Accept(t) ==
    /\ proposed # None
    /\ MayGiveWay(proposed)
    /\ accepted' = [source |-> proposed, twin |-> t]
    /\ proposed' = None
    /\ held' \in {held, held \cup {proposed}}
    /\ UNCHANGED archive

\* A proposal that turns out to be stale or damaged is dropped.
Withdraw ==
    /\ proposed # None
    /\ proposed' = None
    /\ UNCHANGED <<accepted, archive, held>>

\* A new twin for the accepted source needs no proposal.
Retwin(t) ==
    /\ accepted # None
    /\ accepted' = [accepted EXCEPT !.twin = t]
    /\ held' \in {held, held \cup {accepted.source}}
    /\ UNCHANGED <<proposed, archive>>

\* The student overwrites or deletes the last copy of an accepted source.
Discard ==
    /\ held' \subseteq held
    /\ UNCHANGED <<accepted, proposed, archive>>

ANext ==
    \/ \E s \in Sources : Archive(s) \/ Propose(s)
    \/ Withdraw
    \/ \E t \in Twins : Accept(t) \/ Retwin(t)
    \/ Discard

ASpec == AInit /\ [][ANext]_avars

\* No sequence of proposals loses an accepted source: what was accepted and
\* not discarded is accepted still or archived.
HeldIsKept ==
    held \subseteq archive \cup (IF accepted = None THEN {}
                                ELSE {accepted.source})
=============================================================================
