----------------------------- MODULE Submission -----------------------------
(***************************************************************************)
(* Uploading a finished file to a LEARN Dropbox: submit.prepare,           *)
(* submit.confirm_and_upload and their caller cli.submit, in terminals     *)
(* that share one vault and submit the same file name to the same folder,  *)
(* while the student may also upload through the browser.                  *)
(*                                                                         *)
(* Simplifications:                                                        *)
(*  - SHA-256 of a content is the content itself; SizeOf is its size.      *)
(*  - Time is the age of a staged file and what is left of a confirmation, *)
(*    both saturating, since only "at least TTL" is ever asked of them.    *)
(*  - LEARN lists uploads in the order it stored them, and dates them by a *)
(*    clock that may disagree with the local one.                          *)
(*  - The build's capability and the acknowledgement are given: without    *)
(*    them every command stops before its first step.                      *)
(***************************************************************************)
EXTENDS Naturals, Sequences, FiniteSets

CONSTANTS
    Terminals,     \* processes that submit
    Contents,      \* what the student's file may hold
    SizeOf,        \* their sizes
    NoFile,        \* the content of a file that does not exist
    Browser,       \* the student, uploading by hand
    TTL,           \* CONFIRMATION_TTL_SECONDS
    MaxPreviews,   \* bound on the previews of each terminal
    MaxUploads,    \* bound on uploads by hand
    MaxFaults,     \* bound on kills, interrupts and failed writes
    MaxEdits       \* bound on edits of the file

Preview == UNION {{t} \X (1 .. MaxPreviews[t]) : t \in Terminals}
Copy == [content : Contents, age : 0 .. TTL + 1]
PCs == {"idle", "refuse or stage", "staged", "prompt", "validate", "post",
        "reply", "read back", "verified", "record", "unknown", "discard"}

ASSUME ContentsAssumption == NoFile \notin Contents
ASSUME SizesAssumption == SizeOf \in [Contents -> Nat]
ASSUME BrowserAssumption == Browser \notin Preview
ASSUME BoundsAssumption == /\ TTL \in Nat \ {0}
                           /\ MaxPreviews \in [Terminals -> Nat]
                           /\ MaxUploads \in Nat /\ MaxFaults \in Nat
                           /\ MaxEdits \in Nat

VARIABLES
    \* On disk.
    original,    \* the file the student selected
    staging,     \* the private copy made for each preview, and its age
    receipts,    \* what .a2l/submissions/ says of a preview
    \* In LEARN.
    learn,       \* the uploads, in the order they were stored
    \* In the memory of each terminal.
    pc,          \* where it is
    made,        \* how many previews it has made
    left,        \* what is left of the present preview's five minutes
    consumed,    \* has its confirmation been used?
    reply,       \* the class of the status of the POST
    \* Observed only.
    previewed,   \* what each preview showed
    confirmed,   \* how often it was confirmed
    posts,       \* how many POSTs it made
    killed,      \* previews whose process was killed after the POST
    unwritten,   \* previews whose receipt was interrupted or not writable
    faults, edits, uploads

disk == <<original, staging, receipts>>
memory == <<made, left, consumed, reply>>
observed == <<previewed, confirmed, posts, killed, unwritten>>
bounds == <<faults, edits, uploads>>
vars == <<disk, learn, pc, memory, observed, bounds>>

Goto(t, label) == pc' = [pc EXCEPT ![t] = label]

Forget(t) ==
    /\ left' = [left EXCEPT ![t] = 0]
    /\ consumed' = [consumed EXCEPT ![t] = FALSE]
    /\ reply' = [reply EXCEPT ![t] = "unknown"]

Present(t) == <<t, made[t]>>
-----------------------------------------------------------------------------
Init ==
    /\ original \in Contents
    /\ staging = [p \in Preview |-> NoFile]
    /\ receipts = {}
    /\ learn = <<>>
    /\ pc = [t \in Terminals |-> "idle"]
    /\ made = [t \in Terminals |-> 0]
    /\ left = [t \in Terminals |-> 0]
    /\ consumed = [t \in Terminals |-> FALSE]
    /\ reply = [t \in Terminals |-> "unknown"]
    /\ previewed = [p \in Preview |-> NoFile]
    /\ confirmed = [p \in Preview |-> 0]
    /\ posts = [p \in Preview |-> 0]
    /\ killed = {}
    /\ unwritten = {}
    /\ faults = 0
    /\ edits = 0
    /\ uploads = 0
-----------------------------------------------------------------------------
(* Preparing a preview *)

\* Mutant of Cleaned: only the copies of the same process are looked at.
CleanedOwn(t) == [p \in Preview |-> IF /\ staging[p] # NoFile
                                       /\ staging[p].age >= TTL
                                       /\ p = Present(t)
                                    THEN NoFile ELSE staging[p]]

\* cleanup_staging: whatever has not been written for five minutes goes, be it
\* an orphan or the file of another terminal's preview.
Cleaned(t) == [p \in Preview |-> IF /\ staging[p] # NoFile
                                    /\ staging[p].age >= TTL
                                 THEN NoFile ELSE staging[p]]

Prepare(t) ==
    /\ pc[t] = "idle"
    /\ staging' = Cleaned(t)
    /\ Goto(t, "refuse or stage")
    /\ UNCHANGED <<original, receipts, learn, memory, observed, bounds>>

\* No such file, a link, an ambiguous or group folder, an old LEARN version.
RefusePrepare(t) ==
    /\ pc[t] = "refuse or stage"
    /\ Goto(t, "idle")
    /\ UNCHANGED <<disk, learn, memory, observed, bounds>>

\* _stage hashes the bytes while it copies them; without the file nothing is
\* staged.
Stage(t) ==
    /\ pc[t] = "refuse or stage"
    /\ original # NoFile
    /\ made[t] < MaxPreviews[t]
    /\ made' = [made EXCEPT ![t] = @ + 1]
    /\ staging' = [staging EXCEPT ![Present(t)'] =
                        [content |-> original, age |-> 0]]
    /\ previewed' = [previewed EXCEPT ![Present(t)'] = original]
    /\ Goto(t, "staged")
    /\ UNCHANGED <<original, receipts, learn, left, consumed, reply,
                   confirmed, posts, killed, unwritten, bounds>>

\* The five minutes of the preview start after the copy is on the disk.
Show(t) ==
    /\ pc[t] = "staged"
    /\ left' = [left EXCEPT ![t] = TTL]
    /\ Goto(t, "prompt")
    /\ UNCHANGED <<disk, learn, made, consumed, reply, observed, bounds>>
-----------------------------------------------------------------------------
(* One confirmation *)

\* The content of the copy.
Copied(p) == IF staging[p] = NoFile THEN NoFile ELSE staging[p].content

Discarded(t) == [staging EXCEPT ![Present(t)] = NoFile]

\* Any refusal uses the code up: no terminal, a code used before, five
\* minutes gone, another phrase.
RefuseConfirm(t) ==
    /\ pc[t] = "prompt"
    /\ consumed' = [consumed EXCEPT ![t] = TRUE]
    /\ staging' = Discarded(t)
    /\ UNCHANGED <<original, receipts, learn, pc, made, left, reply,
                   observed, bounds>>

\* Mutant of MayConfirm: a code may be used again.
MayConfirmAgain(t) == left[t] > 0

MayConfirm(t) == ~consumed[t] /\ left[t] > 0

Confirm(t) ==
    /\ pc[t] = "prompt"
    /\ MayConfirm(t)
    /\ consumed' = [consumed EXCEPT ![t] = TRUE]
    /\ confirmed' = [confirmed EXCEPT ![Present(t)] = @ + 1]
    /\ Goto(t, "validate")
    /\ UNCHANGED <<disk, learn, made, left, reply, previewed, posts, killed,
                   unwritten, bounds>>

\* discard_preview, on every way out of the command.
Leave(t) ==
    /\ pc[t] = "prompt"
    /\ staging' = Discarded(t)
    /\ Forget(t)
    /\ Goto(t, "idle")
    /\ UNCHANGED <<original, receipts, learn, made, observed, bounds>>
-----------------------------------------------------------------------------
(* One POST *)

\* _validate_staged: the copy is gone or changed.
Invalid(t) ==
    /\ pc[t] = "validate"
    /\ Copied(Present(t)) # previewed[Present(t)]
    /\ Goto(t, "discard")
    /\ UNCHANGED <<disk, learn, memory, observed, bounds>>

Valid(t) ==
    /\ pc[t] = "validate"
    /\ Copied(Present(t)) = previewed[Present(t)]
    /\ Goto(t, "post")
    /\ UNCHANGED <<disk, learn, memory, observed, bounds>>

Upload(content, by) == [content |-> content, by |-> by]

Posted(t) == posts' = [posts EXCEPT ![Present(t)] = @ + 1]

\* Mutant of Body: the file is read again where the student selected it.
BodyOfOriginal(t) == original

\* SubmissionBody streams the copy.
Body(t) == Copied(Present(t))

\* LEARN stores the file and says so; or says anything else, or nothing, and
\* may have stored it.
Post(t) ==
    /\ pc[t] = "post"
    /\ Body(t) # NoFile
    /\ Posted(t)
    /\ \E status \in {"2xx", "other"} :
        /\ reply' = [reply EXCEPT ![t] = status]
        /\ \/ learn' = Append(learn, Upload(Body(t), Present(t)))
           \/ status = "other" /\ UNCHANGED learn
    /\ Goto(t, "reply")
    /\ UNCHANGED <<disk, made, left, consumed, previewed,
                   confirmed, killed, unwritten, bounds>>

\* Mutant of Unsent: nothing was sent, so nothing is recorded.
UnsentUnrecorded(t) ==
    /\ pc[t] = "post"
    /\ Body(t) = NoFile
    /\ Posted(t)
    /\ Goto(t, "discard")
    /\ UNCHANGED <<disk, learn, memory, previewed, confirmed, killed,
                   unwritten, bounds>>

\* The copy vanished after it was validated: the POST breaks off.
Unsent(t) ==
    /\ pc[t] = "post"
    /\ Body(t) = NoFile
    /\ Posted(t)
    /\ Goto(t, "unknown")
    /\ UNCHANGED <<disk, learn, memory, previewed, confirmed, killed,
                   unwritten, bounds>>

\* Mutant of Accepted: the status is left to the read-back.
AcceptedAnyway(t) == TRUE

Accepted(t) == reply[t] = "2xx"

CheckReply(t) ==
    /\ pc[t] = "reply"
    /\ Goto(t, IF Accepted(t) THEN "read back" ELSE "unknown")
    /\ UNCHANGED <<disk, learn, memory, observed, bounds>>
-----------------------------------------------------------------------------
(* The read-back and the receipt *)

\* The listed uploads that look younger than the confirmation.  LEARN dates
\* them by a clock of its own, so that may be more or fewer than there are.
Fresh(listed) == {{i \in listed : i > k} : k \in 0 .. Len(learn)}

\* _verify: exactly one fresh upload of that name, of the previewed size.
Matches(t, fresh) ==
    \E i \in fresh :
        /\ fresh = {i}
        /\ SizeOf[learn[i].content] = SizeOf[previewed[Present(t)]]

\* The list may not be complete yet, or not come at all.
ReadBack(t) ==
    /\ pc[t] = "read back"
    /\ \E listed \in SUBSET DOMAIN learn : \E fresh \in Fresh(listed) :
        Goto(t, IF Matches(t, fresh) THEN "verified" ELSE "unknown")
    /\ UNCHANGED <<disk, learn, memory, observed, bounds>>

Receipt(p, status) == [preview |-> p, status |-> status]

\* An uncertain outcome is recorded before the copy is discarded, a verified
\* one after it.
RecordUnknown(t) ==
    /\ pc[t] = "unknown"
    /\ receipts' = receipts \cup {Receipt(Present(t), "verification_unknown")}
    /\ Goto(t, "discard")
    /\ UNCHANGED <<original, staging, learn, memory, observed, bounds>>

Discard(t) ==
    /\ pc[t] \in {"discard", "verified"}
    /\ staging' = Discarded(t)
    /\ Goto(t, IF pc[t] = "verified" THEN "record" ELSE "prompt")
    /\ UNCHANGED <<original, receipts, learn, memory, observed, bounds>>

RecordVerified(t) ==
    /\ pc[t] = "record"
    /\ receipts' = receipts \cup {Receipt(Present(t), "verified")}
    /\ Goto(t, "prompt")
    /\ UNCHANGED <<original, staging, learn, memory, observed, bounds>>
-----------------------------------------------------------------------------
(* Faults, the student and the clock *)

Fault == faults < MaxFaults /\ faults' = faults + 1

\* The process is killed: its copy stays where it is.
Kill(t) ==
    /\ pc[t] # "idle"
    /\ Fault
    /\ killed' = IF pc[t] \in {"reply", "read back", "verified", "record",
                               "unknown"}
                 THEN killed \cup {Present(t)} ELSE killed
    /\ Forget(t)
    /\ Goto(t, "idle")
    /\ UNCHANGED <<disk, learn, made, previewed, confirmed, posts, unwritten,
                   edits, uploads>>

\* Ctrl-C while staging: the part is removed.
InterruptStage(t) ==
    /\ pc[t] = "staged"
    /\ Fault
    /\ staging' = Discarded(t)
    /\ Goto(t, "idle")
    /\ UNCHANGED <<original, receipts, learn, memory, observed, edits,
                   uploads>>

\* Ctrl-C, or an error, before the POST and after it.
InterruptUpload(t) ==
    /\ pc[t] \in {"validate", "reply", "read back"}
    /\ Fault
    /\ Goto(t, IF pc[t] = "validate" THEN "discard" ELSE "unknown")
    /\ UNCHANGED <<disk, learn, memory, observed, edits, uploads>>

\* Ctrl-C or a full disk while the receipt is written.
NoReceipt(t) ==
    /\ pc[t] \in {"unknown", "record"}
    /\ Fault
    /\ unwritten' = unwritten \cup {Present(t)}
    /\ Goto(t, IF pc[t] = "unknown" THEN "discard" ELSE "prompt")
    /\ UNCHANGED <<disk, learn, memory, previewed, confirmed, posts, killed,
                   edits, uploads>>

\* Saturating clocks.
Tick ==
    /\ staging' = [p \in Preview |->
                        IF staging[p] = NoFile \/ staging[p].age > TTL
                        THEN staging[p]
                        ELSE [staging[p] EXCEPT !.age = @ + 1]]
    /\ left' = [t \in Terminals |-> IF left[t] = 0 THEN 0 ELSE left[t] - 1]
    /\ UNCHANGED <<original, receipts, learn, pc, made, consumed,
                   reply, observed, bounds>>

\* The student goes on working on the file, or removes it.
Edit(c) ==
    /\ edits < MaxEdits
    /\ edits' = edits + 1
    /\ c # original
    /\ original' = c
    /\ UNCHANGED <<staging, receipts, learn, pc, memory, observed, faults,
                   uploads>>

\* The student uploads a file of the same name by hand.
UploadByHand(c) ==
    /\ uploads < MaxUploads
    /\ uploads' = uploads + 1
    /\ learn' = Append(learn, Upload(c, Browser))
    /\ UNCHANGED <<disk, pc, memory, observed, faults, edits>>
-----------------------------------------------------------------------------
Step(t) ==
    \/ RefusePrepare(t) \/ Stage(t) \/ Show(t) \/ Leave(t)
    \/ Invalid(t) \/ Valid(t) \/ Post(t) \/ Unsent(t) \/ CheckReply(t)
    \/ ReadBack(t) \/ RecordUnknown(t) \/ Discard(t) \/ RecordVerified(t)

Terminal(t) ==
    \/ Prepare(t) \/ Step(t) \/ RefuseConfirm(t) \/ Confirm(t)
    \/ Kill(t) \/ InterruptStage(t) \/ InterruptUpload(t) \/ NoReceipt(t)

Next == \/ \E t \in Terminals : Terminal(t)
        \/ \E c \in Contents \cup {NoFile} : Edit(c)
        \/ \E c \in Contents : UploadByHand(c)
        \/ Tick

Spec == Init /\ [][Next]_vars

\* Time passes, a command is not stopped half-way, nobody sits at a prompt for
\* ever, and every terminal prepares a submission again and again.
Fairness == /\ WF_vars(Tick)
            /\ \A t \in Terminals : WF_vars(Step(t)) /\ WF_vars(Prepare(t))

FairSpec == Spec /\ Fairness
-----------------------------------------------------------------------------
(* What a submission promises *)

TypeOK ==
    /\ original \in Contents \cup {NoFile}
    /\ staging \in [Preview -> Copy \cup {NoFile}]
    /\ receipts \subseteq
            [preview : Preview, status : {"verified", "verification_unknown"}]
    /\ learn \in Seq([content : Contents, by : Preview \cup {Browser}])
    /\ pc \in [Terminals -> PCs]
    /\ made \in [Terminals -> Nat]
    /\ \A t \in Terminals : made[t] <= MaxPreviews[t]
    /\ left \in [Terminals -> 0 .. TTL]
    /\ consumed \in [Terminals -> BOOLEAN]
    /\ reply \in [Terminals -> {"2xx", "other", "unknown"}]
    /\ previewed \in [Preview -> Contents \cup {NoFile}]
    /\ confirmed \in [Preview -> Nat]
    /\ posts \in [Preview -> Nat]
    /\ killed \subseteq Preview
    /\ unwritten \subseteq Preview
    /\ faults \in 0 .. MaxFaults
    /\ edits \in 0 .. MaxEdits
    /\ uploads \in 0 .. MaxUploads

\* "The preview and POST must describe the same immutable bytes" (design
\* document, line 1129): whatever is edited, cleaned up or uploaded meanwhile,
\* LEARN never gets other bytes from a terminal than its preview showed.
SentAsPreviewed ==
    \A i \in DOMAIN learn :
        learn[i].by # Browser => learn[i].content = previewed[learn[i].by]

\* "one confirmation authorises at most one POST, and the code is consumed
\* whether that POST succeeds or fails" (submit.py, lines 13-15).
OnePostPerPreview ==
    \A p \in Preview : posts[p] <= confirmed[p] /\ confirmed[p] <= 1

\* A receipt says "verified" only of an upload that LEARN has: not of one it
\* refused while the student uploaded a like-named file by hand, nor by a clock
\* that makes an older upload look fresh.
VerifiedIsStored ==
    \A p \in Preview :
        Receipt(p, "verified") \in receipts =>
            \E i \in DOMAIN learn : learn[i].by = p

Over(p) == pc[p[1]] \in {"idle", "prompt"} \/ made[p[1]] # p[2]

Recorded(p) == \E r \in receipts : r.preview = p

\* "uncertainty" leaves a receipt (design document, lines 1148-1150): when the
\* command is over and was not killed, an attempt whose receipt could be
\* written has exactly one, be the POST refused, broken off or interrupted.
AttemptIsRecorded ==
    \A p \in Preview :
        /\ Over(p) /\ posts[p] > 0 /\ p \notin killed \cup unwritten =>
                Recorded(p)
        /\ Cardinality({r \in receipts : r.preview = p}) <= 1

\* A private copy does not stay: not after a refusal, not after a kill, as long
\* as submissions are prepared in the vault.
CopiesAreRemoved ==
    \A p \in Preview : staging[p] # NoFile ~> staging[p] = NoFile
=============================================================================
