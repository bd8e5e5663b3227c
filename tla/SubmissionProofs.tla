-------------------------- MODULE SubmissionProofs --------------------------
(***************************************************************************)
(* Proofs about Submission, for any terminals, contents and time limit and *)
(* any number of previews, faults, edits and uploads by hand.              *)
(***************************************************************************)
EXTENDS Submission, FiniteSetTheorems, TLAPS

\* After the POST, before its outcome is recorded.
Uncertain == {"reply", "read back", "verified", "record", "unknown"}

\* Past the choice between refusing and staging there is a present preview.
Begun == \A t \in Terminals :
            pc[t] \notin {"idle", "refuse or stage"} => made[t] >= 1

TypedMemory ==
    /\ pc \in [Terminals -> PCs]
    /\ made \in [Terminals -> Nat]
    /\ \A t \in Terminals : made[t] <= MaxPreviews[t]
    /\ left \in [Terminals -> 0 .. TTL]
    /\ consumed \in [Terminals -> BOOLEAN]
    /\ reply \in [Terminals -> {"2xx", "other", "unknown"}]
    /\ Begun

TypedDisk ==
    /\ original \in Contents \cup {NoFile}
    /\ staging \in [Preview -> Copy \cup {NoFile}]
    /\ receipts \subseteq
            [preview : Preview, status : {"verified", "verification_unknown"}]

TypedLearn == learn \in Seq([content : Contents, by : Preview \cup {Browser}])

TypedGhosts ==
    /\ previewed \in [Preview -> Contents \cup {NoFile}]
    /\ confirmed \in [Preview -> Nat]
    /\ posts \in [Preview -> Nat]
    /\ killed \subseteq Preview
    /\ unwritten \subseteq Preview

Counted ==
    /\ faults \in 0 .. MaxFaults
    /\ edits \in 0 .. MaxEdits
    /\ uploads \in 0 .. MaxUploads

Typed == TypedMemory /\ TypedDisk /\ TypedLearn /\ TypedGhosts /\ Counted

\* Nothing has happened yet to the previews still to be made.
Untouched ==
    \A p \in Preview :
        p[2] > made[p[1]] => confirmed[p] = 0 /\ posts[p] = 0

\* A copy, however old, is what its preview showed.
CopiesAsPreviewed ==
    \A p \in Preview :
        staging[p] # NoFile => staging[p].content = previewed[p]

\* An upload by a terminal comes from a POST, with the previewed bytes.
UploadsAsPreviewed ==
    \A i \in DOMAIN learn :
        learn[i].by # Browser =>
            /\ learn[i].content = previewed[learn[i].by]
            /\ posts[learn[i].by] >= 1

\* Where each terminal stands with its one confirmation and its one POST.
CodeUsed(t) ==
    /\ pc[t] \in {"staged", "prompt"} /\ ~consumed[t] =>
            confirmed[Present(t)] = 0
    /\ pc[t] \in {"validate", "post"} =>
            confirmed[Present(t)] = 1 /\ posts[Present(t)] = 0
    /\ pc[t] \in {"validate", "post", "discard"} \cup Uncertain =>
            consumed[t]
    /\ pc[t] \in Uncertain => posts[Present(t)] = 1

CodesUsed == \A t \in Terminals : CodeUsed(t)

\* A 2xx, then a read-back, vouches for a stored upload.
Stored(p) == \E i \in DOMAIN learn : learn[i].by = p

Vouch(t) ==
    (pc[t] = "reply" /\ Accepted(t))
        \/ pc[t] \in {"read back", "verified", "record"} =>
            Stored(Present(t))

Vouched == \A t \in Terminals : Vouch(t)

\* A receipt comes from a POST whose outcome is no longer open; there is one.
ReceiptsOfPosts ==
    /\ \A r \in receipts : posts[r.preview] >= 1
    /\ \A t \in Terminals : pc[t] \in Uncertain => ~Recorded(Present(t))
    /\ \A r, s \in receipts : r.preview = s.preview => r = s

Open(p) == p = Present(p[1]) /\ pc[p[1]] \in Uncertain

\* A POST is recorded, still open, or one whose record was made impossible.
PostsAccounted ==
    \A p \in Preview :
        posts[p] >= 1 => Recorded(p) \/ Open(p) \/ p \in killed \cup unwritten

IInv ==
    /\ Typed
    /\ Untouched
    /\ CopiesAsPreviewed /\ UploadsAsPreviewed
    /\ OnePostPerPreview /\ CodesUsed
    /\ Vouched /\ VerifiedIsStored
    /\ ReceiptsOfPosts /\ PostsAccounted
-----------------------------------------------------------------------------
LEMMA PreviewShape ==
    /\ \A t \in Terminals, n \in Nat :
            <<t, n>> \in Preview <=> n \in 1 .. MaxPreviews[t]
    /\ \A p \in Preview :
            /\ p[1] \in Terminals
            /\ p[2] \in Nat
            /\ p = <<p[1], p[2]>>
<1>1. \A t \in Terminals, n \in Nat :
            <<t, n>> \in Preview <=> n \in 1 .. MaxPreviews[t]
  BY DEF Preview
<1>2. ASSUME NEW p \in Preview
      PROVE  p[1] \in Terminals /\ p[2] \in Nat /\ p = <<p[1], p[2]>>
  <2>1. PICK t \in Terminals : p \in {t} \X (1 .. MaxPreviews[t])
    BY DEF Preview
  <2>2. QED
    BY <2>1, BoundsAssumption
<1>3. QED
  BY <1>1, <1>2

LEMMA PresentIsPreview ==
    ASSUME TypedMemory, NEW t \in Terminals, made[t] >= 1
    PROVE  Present(t) \in Preview
  BY PreviewShape DEF TypedMemory, Present

LEMMA Timed == TTL \in Nat /\ TTL \in 0 .. TTL /\ 0 \in 0 .. TTL
  BY BoundsAssumption

LEMMA TimePasses ==
    ASSUME NEW x \in 0 .. TTL
    PROVE  (IF x = 0 THEN 0 ELSE x - 1) \in 0 .. TTL
  BY Timed

LEMMA OneMore ==
    ASSUME NEW n \in Nat, NEW m \in Nat, n < m
    PROVE  n + 1 \in Nat /\ n + 1 <= m /\ n + 1 >= 1
  OBVIOUS

LEMMA MemoryTypedNext ==
    ASSUME TypedMemory, [Next]_vars
    PROVE  TypedMemory'
<1> USE DEF TypedMemory, Begun, PCs, Goto
<1>1. CASE UNCHANGED <<pc, memory>>
  BY <1>1 DEF memory
<1>2. ASSUME NEW t \in Terminals, Terminal(t)
      PROVE  TypedMemory'
  <2>1. CASE Stage(t)
    <3>1. /\ pc' = [pc EXCEPT ![t] = "staged"]
          /\ made' = [made EXCEPT ![t] = @ + 1]
          /\ made[t] < MaxPreviews[t]
          /\ UNCHANGED <<left, consumed, reply>>
      BY <2>1 DEF Stage
    <3>2. made[t] + 1 \in Nat /\ made[t] + 1 <= MaxPreviews[t] /\ made[t] + 1 >= 1
      BY <3>1, OneMore, BoundsAssumption
    <3>3. QED
      BY <3>1, <3>2
  <2>2. CASE Show(t)
    BY <2>2, Timed DEF Show
  <2>3. CASE Leave(t) \/ Kill(t)
    <3>1. /\ pc' = [pc EXCEPT ![t] = "idle"]
          /\ made' = made
          /\ left' = [left EXCEPT ![t] = 0]
          /\ consumed' = [consumed EXCEPT ![t] = FALSE]
          /\ reply' = [reply EXCEPT ![t] = "unknown"]
      BY <2>3 DEF Leave, Kill, Forget
    <3>2. QED
      BY <3>1, Timed
  <2>4. CASE RefuseConfirm(t)
    BY <2>4 DEF RefuseConfirm
  <2>5. CASE Confirm(t)
    BY <2>5 DEF Confirm
  <2>6. CASE Post(t)
    BY <2>6 DEF Post
  <2>7. CASE Prepare(t) \/ RefusePrepare(t) \/ Invalid(t) \/ Valid(t)
            \/ Unsent(t) \/ CheckReply(t) \/ ReadBack(t)
    BY <2>7
      DEF Prepare, RefusePrepare, Invalid, Valid, Unsent, CheckReply,
          ReadBack, memory
  <2>8. CASE RecordUnknown(t) \/ Discard(t) \/ RecordVerified(t)
            \/ InterruptStage(t) \/ InterruptUpload(t) \/ NoReceipt(t)
    BY <2>8
      DEF RecordUnknown, Discard, RecordVerified, InterruptStage,
          InterruptUpload, NoReceipt, memory
  <2>9. QED
    BY <1>2, <2>1, <2>2, <2>3, <2>4, <2>5, <2>6, <2>7, <2>8 DEF Terminal, Step
<1>3. ASSUME NEW c \in Contents \cup {NoFile}, Edit(c)
      PROVE  TypedMemory'
  <2>1. UNCHANGED <<pc, memory>>
    BY <1>3 DEF Edit, memory
  <2>2. QED
    BY <1>1, <2>1
<1>4. ASSUME NEW c \in Contents, UploadByHand(c)
      PROVE  TypedMemory'
  <2>1. UNCHANGED <<pc, memory>>
    BY <1>4 DEF UploadByHand, memory
  <2>2. QED
    BY <1>1, <2>1
<1>5. CASE Tick
  <2>1. /\ left' = [t \in Terminals |-> IF left[t] = 0 THEN 0 ELSE left[t] - 1]
        /\ UNCHANGED <<pc, made, consumed, reply>>
    BY <1>5 DEF Tick
  <2>2. left' \in [Terminals -> 0 .. TTL]
    <3>1. \A t \in Terminals :
                (IF left[t] = 0 THEN 0 ELSE left[t] - 1) \in 0 .. TTL
      BY TimePasses
    <3>2. QED
      BY <2>1, <3>1
  <2>3. QED
    BY <2>1, <2>2
<1>6. QED
  <2>1. CASE UNCHANGED vars
    BY <1>1, <2>1 DEF vars, disk, memory, observed, bounds
  <2>2. QED
    BY <1>2, <1>3, <1>4, <1>5, <2>1 DEF Next

LEMMA Aging == 0 \in 0 .. TTL + 1
  BY BoundsAssumption

LEMMA Older ==
    ASSUME NEW x \in 0 .. TTL + 1, ~(x > TTL)
    PROVE  x + 1 \in 0 .. TTL + 1
  BY BoundsAssumption

LEMMA DiskTypedNext ==
    ASSUME TypedMemory, TypedDisk, TypedGhosts, [Next]_vars
    PROVE  TypedDisk'
<1> USE DEF TypedDisk
<1>1. CASE UNCHANGED disk
  BY <1>1 DEF disk
<1>2. ASSUME NEW t \in Terminals, Terminal(t)
      PROVE  TypedDisk'
  <2>1. pc[t] \notin {"idle", "refuse or stage"} => Present(t) \in Preview
    BY PresentIsPreview DEF TypedMemory, Begun
  <2>2. CASE Prepare(t)
    <3>1. staging' = Cleaned(t) /\ UNCHANGED <<original, receipts>>
      BY <2>2 DEF Prepare
    <3>2. QED
      BY <3>1 DEF Cleaned
  <2>3. CASE Stage(t)
    <3>1. /\ UNCHANGED <<original, receipts>>
          /\ original # NoFile
          /\ staging' = [staging EXCEPT ![Present(t)'] =
                                [content |-> original, age |-> 0]]
      BY <2>3 DEF Stage
    <3>2. [content |-> original, age |-> 0] \in Copy
      BY <3>1, Aging DEF Copy
    <3>3. QED
      BY <3>1, <3>2
  <2>4. CASE Leave(t) \/ RefuseConfirm(t) \/ Discard(t) \/ InterruptStage(t)
    <3>1. staging' = Discarded(t) /\ UNCHANGED <<original, receipts>>
      BY <2>4 DEF Leave, RefuseConfirm, Discard, InterruptStage
    <3>2. QED
      BY <3>1 DEF Discarded
  <2>5. CASE RecordUnknown(t) \/ RecordVerified(t)
    <3>1. PICK s \in {"verified", "verification_unknown"} :
                /\ receipts' = receipts \cup {Receipt(Present(t), s)}
                /\ UNCHANGED <<original, staging>>
      BY <2>5 DEF RecordUnknown, RecordVerified
    <3>2. Present(t) \in Preview
      BY <2>5, <2>1 DEF RecordUnknown, RecordVerified
    <3>3. Receipt(Present(t), s) \in
                [preview : Preview,
                 status : {"verified", "verification_unknown"}]
      BY <3>2 DEF Receipt
    <3>4. QED
      BY <3>1, <3>3
  <2>6. CASE RefusePrepare(t) \/ Show(t) \/ Invalid(t) \/ Valid(t) \/ Post(t)
            \/ Unsent(t) \/ CheckReply(t) \/ ReadBack(t) \/ Confirm(t)
            \/ Kill(t) \/ InterruptUpload(t) \/ NoReceipt(t)
    <3>1. UNCHANGED disk
      BY <2>6
        DEF RefusePrepare, Show, Invalid, Valid, Post, Unsent, CheckReply,
            ReadBack, Confirm, Kill, InterruptUpload, NoReceipt, disk
    <3>2. QED
      BY <1>1, <3>1
  <2>7. QED
    BY <1>2, <2>2, <2>3, <2>4, <2>5, <2>6 DEF Terminal, Step
<1>3. ASSUME NEW c \in Contents \cup {NoFile}, Edit(c)
      PROVE  TypedDisk'
  BY <1>3 DEF Edit, memory, observed, Edit
<1>4. ASSUME NEW c \in Contents, UploadByHand(c)
      PROVE  TypedDisk'
  <2>1. UNCHANGED disk
    BY <1>4 DEF UploadByHand, disk
  <2>2. QED
    BY <1>1, <2>1
<1>5. CASE Tick
  <2>1. ASSUME NEW p \in Preview
        PROVE  staging'[p] \in Copy \cup {NoFile}
    <3>1. CASE staging[p] = NoFile \/ staging[p].age > TTL
      BY <1>5, <3>1 DEF Tick
    <3>2. CASE staging[p] # NoFile /\ ~(staging[p].age > TTL)
      <4>1. /\ staging[p] \in Copy
            /\ staging'[p] = [staging[p] EXCEPT !.age = @ + 1]
        BY <1>5, <3>2 DEF Tick
      <4>2. staging[p].age + 1 \in 0 .. TTL + 1
        BY <3>2, <4>1, Older DEF Copy
      <4>3. QED
        BY <4>1, <4>2 DEF Copy
    <3>3. QED
      BY <3>1, <3>2
  <2>2. /\ staging' = [p \in Preview |-> staging'[p]]
        /\ UNCHANGED <<original, receipts>>
    BY <1>5 DEF Tick
  <2>3. QED
    BY <2>1, <2>2
<1>6. QED
  <2>1. CASE UNCHANGED vars
    BY <1>1, <2>1 DEF vars, disk, memory, observed, bounds
  <2>2. QED
    BY <1>2, <1>3, <1>4, <1>5, <2>1 DEF Next

LEMMA AppendTyped ==
    ASSUME NEW S, NEW s \in Seq(S), NEW x \in S
    PROVE  Append(s, x) \in Seq(S)
  OBVIOUS

LEMMA LearnTypedNext ==
    ASSUME TypedMemory, TypedDisk, TypedLearn, [Next]_vars
    PROVE  TypedLearn'
<1> USE DEF TypedLearn
<1>1. CASE UNCHANGED learn
  BY <1>1
<1>2. ASSUME NEW t \in Terminals, Terminal(t)
      PROVE  TypedLearn'
  <2>1. pc[t] \notin {"idle", "refuse or stage"} => Present(t) \in Preview
    BY PresentIsPreview DEF TypedMemory, Begun
  <2>2. CASE Post(t)
    <3>1. Body(t) # NoFile /\ pc[t] = "post"
      BY <2>2 DEF Post
    <3>2. Body(t) \in Contents
      BY <2>1, <3>1 DEF Body, Copied, Copy, TypedDisk
    <3>3. Upload(Body(t), Present(t)) \in
                [content : Contents, by : Preview \cup {Browser}]
      BY <2>1, <3>1, <3>2 DEF Upload
    <3>4. learn' = Append(learn, Upload(Body(t), Present(t)))
          \/ UNCHANGED learn
      BY <2>2 DEF Post
    <3>5. QED
      BY <3>3, <3>4, AppendTyped
  <2>3. CASE Prepare(t) \/ RefusePrepare(t) \/ Stage(t) \/ Show(t) \/ Leave(t)
            \/ Invalid(t) \/ Valid(t) \/ Unsent(t) \/ CheckReply(t)
            \/ ReadBack(t) \/ RecordUnknown(t) \/ Discard(t)
            \/ RecordVerified(t) \/ RefuseConfirm(t) \/ Confirm(t) \/ Kill(t)
            \/ InterruptStage(t) \/ InterruptUpload(t) \/ NoReceipt(t)
    <3>1. UNCHANGED learn
      BY <2>3
        DEF Prepare, RefusePrepare, Stage, Show, Leave, Invalid, Valid,
            Unsent, CheckReply, ReadBack, RecordUnknown, Discard,
            RecordVerified, RefuseConfirm, Confirm, Kill, InterruptStage,
            InterruptUpload, NoReceipt
    <3>2. QED
      BY <1>1, <3>1
  <2>4. QED
    BY <1>2, <2>2, <2>3 DEF Terminal, Step
<1>3. ASSUME NEW c \in Contents \cup {NoFile}, Edit(c)
      PROVE  TypedLearn'
  <2>1. UNCHANGED learn
    BY <1>3 DEF Edit
  <2>2. QED
    BY <1>1, <2>1
<1>4. ASSUME NEW c \in Contents, UploadByHand(c)
      PROVE  TypedLearn'
  BY <1>4 DEF UploadByHand, disk, memory, observed, Upload
<1>5. CASE Tick
  <2>1. UNCHANGED learn
    BY <1>5 DEF Tick
  <2>2. QED
    BY <1>1, <2>1
<1>6. QED
  <2>1. CASE UNCHANGED vars
    BY <1>1, <2>1 DEF vars, disk, memory, observed, bounds
  <2>2. QED
    BY <1>2, <1>3, <1>4, <1>5, <2>1 DEF Next

LEMMA GhostsTypedNext ==
    ASSUME TypedMemory, TypedDisk, TypedGhosts, [Next]_vars
    PROVE  TypedGhosts'
<1> USE DEF TypedGhosts
<1>1. CASE UNCHANGED observed
  BY <1>1 DEF observed
<1>2. ASSUME NEW t \in Terminals, Terminal(t)
      PROVE  TypedGhosts'
  <2>1. pc[t] \notin {"idle", "refuse or stage"} => Present(t) \in Preview
    BY PresentIsPreview DEF TypedMemory, Begun
  <2>2. CASE Stage(t)
    BY <2>2, <2>1 DEF Stage, TypedDisk, observed
  <2>3. CASE Confirm(t)
    BY <2>3, <2>1 DEF Confirm
  <2>4. CASE Post(t) \/ Unsent(t)
    <3>1. /\ Present(t) \in Preview
          /\ posts' = [posts EXCEPT ![Present(t)] = @ + 1]
          /\ UNCHANGED <<previewed, confirmed, killed, unwritten>>
      BY <2>4, <2>1 DEF Post, Unsent, Posted
    <3>2. posts[Present(t)] + 1 \in Nat
      BY <3>1
    <3>3. QED
      BY <3>1, <3>2
  <2>5. CASE Kill(t)
    BY <2>5, <2>1 DEF Kill
  <2>6. CASE NoReceipt(t)
    BY <2>6, <2>1 DEF NoReceipt
  <2>7. CASE Prepare(t) \/ RefusePrepare(t) \/ Show(t) \/ Leave(t)
            \/ Invalid(t) \/ Valid(t) \/ CheckReply(t) \/ ReadBack(t)
            \/ RecordUnknown(t) \/ Discard(t) \/ RecordVerified(t)
            \/ RefuseConfirm(t) \/ InterruptStage(t) \/ InterruptUpload(t)
    <3>1. UNCHANGED observed
      BY <2>7
        DEF Prepare, RefusePrepare, Show, Leave, Invalid, Valid, CheckReply,
            ReadBack, RecordUnknown, Discard, RecordVerified, RefuseConfirm,
            InterruptStage, InterruptUpload, observed
    <3>2. QED
      BY <1>1, <3>1
  <2>8. QED
    BY <1>2, <2>2, <2>3, <2>4, <2>5, <2>6, <2>7 DEF Terminal, Step
<1>3. ASSUME NEW c \in Contents \cup {NoFile}, Edit(c)
      PROVE  TypedGhosts'
  <2>1. UNCHANGED observed
    BY <1>3 DEF Edit, observed
  <2>2. QED
    BY <1>1, <2>1
<1>4. ASSUME NEW c \in Contents, UploadByHand(c)
      PROVE  TypedGhosts'
  <2>1. UNCHANGED observed
    BY <1>4 DEF UploadByHand, observed
  <2>2. QED
    BY <1>1, <2>1
<1>5. CASE Tick
  <2>1. UNCHANGED observed
    BY <1>5 DEF Tick, observed
  <2>2. QED
    BY <1>1, <2>1
<1>6. QED
  <2>1. CASE UNCHANGED vars
    BY <1>1, <2>1 DEF vars, disk, memory, observed, bounds
  <2>2. QED
    BY <1>2, <1>3, <1>4, <1>5, <2>1 DEF Next

LEMMA CountedNext ==
    ASSUME Counted, [Next]_vars
    PROVE  Counted'
<1> USE DEF Counted
<1>1. CASE UNCHANGED bounds
  BY <1>1 DEF bounds
<1>2. ASSUME NEW t \in Terminals, Terminal(t)
      PROVE  Counted'
  <2>1. CASE Kill(t) \/ InterruptStage(t) \/ InterruptUpload(t)
            \/ NoReceipt(t)
    <3>1. faults < MaxFaults /\ faults' = faults + 1
          /\ UNCHANGED <<edits, uploads>>
      BY <2>1 DEF Kill, InterruptStage, InterruptUpload, NoReceipt, Fault
    <3>2. QED
      BY <3>1, BoundsAssumption
  <2>2. CASE Prepare(t) \/ RefusePrepare(t) \/ Stage(t) \/ Show(t) \/ Leave(t)
            \/ Invalid(t) \/ Valid(t) \/ Post(t) \/ Unsent(t) \/ CheckReply(t)
            \/ ReadBack(t) \/ RecordUnknown(t) \/ Discard(t)
            \/ RecordVerified(t) \/ RefuseConfirm(t) \/ Confirm(t)
    <3>1. UNCHANGED bounds
      BY <2>2
        DEF Prepare, RefusePrepare, Stage, Show, Leave, Invalid, Valid, Post,
            Unsent, CheckReply, ReadBack, RecordUnknown, Discard,
            RecordVerified, RefuseConfirm, Confirm, bounds
    <3>2. QED
      BY <1>1, <3>1
  <2>3. QED
    BY <1>2, <2>1, <2>2 DEF Terminal, Step
<1>3. ASSUME NEW c \in Contents \cup {NoFile}, Edit(c)
      PROVE  Counted'
  BY <1>3, BoundsAssumption DEF Edit, memory, observed
<1>4. ASSUME NEW c \in Contents, UploadByHand(c)
      PROVE  Counted'
  BY <1>4, BoundsAssumption DEF UploadByHand, disk, memory, observed
<1>5. CASE Tick
  <2>1. UNCHANGED bounds
    BY <1>5 DEF Tick, bounds
  <2>2. QED
    BY <1>1, <2>1
<1>6. QED
  <2>1. CASE UNCHANGED vars
    BY <1>1, <2>1 DEF vars, disk, memory, observed, bounds
  <2>2. QED
    BY <1>2, <1>3, <1>4, <1>5, <2>1 DEF Next

LEMMA TypedParts == Typed <=> TypeOK /\ Begun
  BY DEF Typed, TypeOK, TypedMemory, TypedDisk, TypedLearn, TypedGhosts,
     Counted

LEMMA TypedInit == Init => Typed
<1> SUFFICES ASSUME Init PROVE Typed
  OBVIOUS
<1>1. TypedMemory
  <2>1. \A t \in Terminals : 0 <= MaxPreviews[t]
    BY BoundsAssumption
  <2>2. QED
    BY <2>1, Timed DEF Init, TypedMemory, Begun, PCs
<1>2. TypedDisk /\ TypedLearn /\ TypedGhosts
  BY DEF Init, TypedDisk, TypedLearn, TypedGhosts
<1>3. Counted
  BY BoundsAssumption DEF Init, Counted
<1>4. QED
  BY <1>1, <1>2, <1>3 DEF Typed

LEMMA TypedNext ==
    ASSUME Typed, [Next]_vars
    PROVE  Typed'
  BY MemoryTypedNext, DiskTypedNext, LearnTypedNext, GhostsTypedNext,
     CountedNext DEF Typed

\* Every reachable state of terminals, copies, receipts and LEARN is well typed.
THEOREM TypeCorrect == Spec => []TypeOK
<1>1. Spec => []Typed
  BY TypedInit, TypedNext, PTL DEF Spec
<1>2. Typed => TypeOK
  BY TypedParts
<1>3. QED
  BY <1>1, <1>2, PTL
-----------------------------------------------------------------------------
(* One confirmation, one POST *)

LEMMA Distinct ==
    \A s, t \in Terminals : s # t => Present(s) # Present(t)
  BY DEF Present

LEMMA CodeUnmoved ==
    ASSUME NEW s \in Terminals, CodeUsed(s),
           UNCHANGED <<pc[s], consumed[s], made[s], confirmed[Present(s)],
                       posts[Present(s)]>>
    PROVE  CodeUsed(s)'
  BY DEF CodeUsed, Present, Uncertain

LEMMA NextIsUntouched ==
    ASSUME TypedMemory, Untouched, NEW t \in Terminals,
           made[t] < MaxPreviews[t], made' = [made EXCEPT ![t] = @ + 1]
    PROVE  /\ Present(t)' \in Preview
           /\ Present(t)'[1] = t /\ Present(t)'[2] = made[t] + 1
           /\ confirmed[Present(t)'] = 0 /\ posts[Present(t)'] = 0
<1>1. made[t] + 1 \in 1 .. MaxPreviews[t] /\ made[t] + 1 > made[t]
  <2>1. made[t] \in Nat /\ MaxPreviews[t] \in Nat
    BY BoundsAssumption DEF TypedMemory
  <2>2. \A n, m \in Nat : n < m => n + 1 \in 1 .. m /\ n + 1 > n
    OBVIOUS
  <2>3. QED
    BY <2>1, <2>2
<1>2. Present(t)' = <<t, made[t] + 1>>
  BY DEF Present, TypedMemory
<1>3. <<t, made[t] + 1>> \in Preview
  BY <1>1, PreviewShape
<1>4. QED
  BY <1>1, <1>2, <1>3 DEF Untouched

LEMMA NothingPosted ==
    ASSUME TypedGhosts, OnePostPerPreview, NEW p \in Preview,
           confirmed[p] = 0
    PROVE  posts[p] = 0
  BY DEF TypedGhosts, OnePostPerPreview

LEMMA CodesNext ==
    ASSUME Typed, Untouched, OnePostPerPreview, CodesUsed, [Next]_vars
    PROVE  CodesUsed'
<1>1. CASE UNCHANGED <<pc, memory, observed>>
  BY <1>1 DEF CodesUsed, CodeUsed, Present, memory, observed
<1>2. ASSUME NEW t \in Terminals, Terminal(t)
      PROVE  CodesUsed'
  <2>1. pc[t] \notin {"idle", "refuse or stage"} => Present(t) \in Preview
    BY PresentIsPreview DEF Typed, TypedMemory, Begun
  <2>2. CASE Stage(t)
    <3>1. /\ pc' = [pc EXCEPT ![t] = "staged"]
          /\ made' = [made EXCEPT ![t] = @ + 1]
          /\ UNCHANGED <<consumed, confirmed, posts>>
          /\ made[t] < MaxPreviews[t]
      BY <2>2 DEF Stage, Goto
    <3>2. confirmed[Present(t)'] = 0
      BY <3>1, Typed, NextIsUntouched DEF Typed
    <3>3. CodeUsed(t)'
      BY <3>1, <3>2, Typed DEF CodeUsed, Typed, TypedMemory, Uncertain
    <3>4. ASSUME NEW s \in Terminals, s # t
          PROVE  CodeUsed(s)'
      <4>1. Present(s)' = Present(s) /\ Present(s) # Present(t)
        BY <3>1, <3>4, Distinct DEF Present, Typed, TypedMemory
      <4>2. UNCHANGED <<pc[s], consumed[s], made[s], confirmed[Present(s)],
                        posts[Present(s)]>>
        BY <3>1, <3>4, <4>1 DEF Typed, TypedMemory, TypedGhosts
      <4>3. QED
        BY <4>2, CodeUnmoved DEF CodesUsed
    <3>5. QED
      BY <3>3, <3>4 DEF CodesUsed
  <2>3. CASE Confirm(t)
    <3>1. /\ pc' = [pc EXCEPT ![t] = "validate"]
          /\ consumed' = [consumed EXCEPT ![t] = TRUE]
          /\ confirmed' = [confirmed EXCEPT ![Present(t)] = @ + 1]
          /\ UNCHANGED <<made, posts>>
          /\ pc[t] = "prompt" /\ ~consumed[t]
      BY <2>3 DEF Confirm, MayConfirm, Goto
    <3>2. Present(t) \in Preview /\ confirmed[Present(t)] = 0
      BY <2>1, <3>1 DEF CodesUsed, CodeUsed
    <3>3. confirmed'[Present(t)] = 1 /\ posts'[Present(t)] = 0
      BY <3>1, <3>2, NothingPosted DEF Typed, TypedGhosts
    <3>4. CodeUsed(t)'
      BY <3>1, <3>3 DEF CodeUsed, Typed, TypedMemory, Present, Uncertain
    <3>5. ASSUME NEW s \in Terminals, s # t
          PROVE  CodeUsed(s)'
      <4>1. Present(s)' = Present(s) /\ Present(s) # Present(t)
        BY <3>1, <3>5, Distinct DEF Present, Typed, TypedMemory
      <4>2. UNCHANGED <<pc[s], consumed[s], made[s], confirmed[Present(s)],
                        posts[Present(s)]>>
        BY <3>1, <3>5, <4>1 DEF Typed, TypedMemory, TypedGhosts
      <4>3. QED
        BY <4>2, CodeUnmoved DEF CodesUsed
    <3>6. QED
      BY <3>4, <3>5 DEF CodesUsed
  <2>4. CASE Post(t) \/ Unsent(t)
    <3>1. PICK label \in {"reply", "unknown"} :
                pc' = [pc EXCEPT ![t] = label]
      BY <2>4 DEF Post, Unsent, Goto
    <3>2. /\ posts' = [posts EXCEPT ![Present(t)] = @ + 1]
          /\ UNCHANGED <<made, consumed, confirmed>>
          /\ pc[t] = "post"
      BY <2>4 DEF Post, Unsent, Posted, memory
    <3>3. CodeUsed(t)'
      <4>1. Present(t)' = Present(t) /\ Present(t) \in Preview
        BY <2>1, <3>2 DEF Present
      <4>2. posts[Present(t)] = 0
        BY <3>2 DEF CodesUsed, CodeUsed
      <4>3. posts'[Present(t)] = 1
        BY <3>2, <4>1, <4>2 DEF Typed, TypedGhosts
      <4>4. QED
        BY <3>1, <3>2, <4>1, <4>3
           DEF CodesUsed, CodeUsed, Typed, TypedMemory, Uncertain
    <3>4. ASSUME NEW s \in Terminals, s # t
          PROVE  CodeUsed(s)'
      <4>1. Present(s)' = Present(s) /\ Present(s) # Present(t)
        BY <3>1, <3>2, <3>4, Distinct DEF Present, Typed, TypedMemory
      <4>2. UNCHANGED <<pc[s], consumed[s], made[s], confirmed[Present(s)],
                        posts[Present(s)]>>
        BY <3>1, <3>2, <3>4, <4>1 DEF Typed, TypedMemory, TypedGhosts
      <4>3. QED
        BY <4>2, CodeUnmoved DEF CodesUsed
    <3>5. QED
      BY <3>3, <3>4 DEF CodesUsed
  <2>5. CASE Prepare(t) \/ RefusePrepare(t) \/ Show(t) \/ Leave(t)
            \/ Invalid(t) \/ Valid(t) \/ CheckReply(t) \/ ReadBack(t)
            \/ RecordUnknown(t) \/ Discard(t) \/ RecordVerified(t)
            \/ RefuseConfirm(t) \/ InterruptStage(t) \/ InterruptUpload(t)
            \/ NoReceipt(t) \/ Kill(t)
    <3>1. UNCHANGED <<made, confirmed, posts>>
      BY <2>5
        DEF Prepare, RefusePrepare, Show, Leave, Invalid, Valid, CheckReply,
            ReadBack, RecordUnknown, Discard, RecordVerified, RefuseConfirm,
            InterruptStage, InterruptUpload, NoReceipt, Kill, Forget, memory,
            observed
    <3>2. \A s \in Terminals \ {t} : UNCHANGED <<pc[s], consumed[s]>>
      BY <2>5
        DEF Prepare, RefusePrepare, Show, Leave, Invalid, Valid, CheckReply,
            ReadBack, RecordUnknown, Discard, RecordVerified, RefuseConfirm,
            InterruptStage, InterruptUpload, NoReceipt, Kill, Forget, memory,
            observed, Goto, Typed, TypedMemory
    <3>3. CodeUsed(t)'
      <4>1. CASE Prepare(t) \/ RefusePrepare(t) \/ Leave(t) \/ Kill(t)
                 \/ InterruptStage(t)
        BY <4>1 DEF Prepare, RefusePrepare, Leave, Kill, InterruptStage, Goto,
           CodeUsed, Uncertain, Typed, TypedMemory
      <4>2. CASE Show(t) \/ RefuseConfirm(t)
        BY <3>1, <4>2 DEF Show, RefuseConfirm, Goto, CodesUsed, CodeUsed,
           Present, Uncertain, Typed, TypedMemory
      <4>3. CASE Invalid(t) \/ Valid(t) \/ InterruptUpload(t)
        BY <3>1, <4>3 DEF Invalid, Valid, InterruptUpload, Goto, CodesUsed,
           CodeUsed, Present, Uncertain, Typed, TypedMemory, memory
      <4>4. CASE CheckReply(t) \/ ReadBack(t) \/ RecordUnknown(t)
                 \/ Discard(t) \/ RecordVerified(t) \/ NoReceipt(t)
        BY <3>1, <4>4 DEF CheckReply, ReadBack, RecordUnknown, Discard,
           RecordVerified, NoReceipt, Goto, CodesUsed, CodeUsed, Present,
           Uncertain, Typed, TypedMemory, memory
      <4>5. QED
        BY <2>5, <4>1, <4>2, <4>3, <4>4
    <3>4. ASSUME NEW s \in Terminals, s # t
          PROVE  CodeUsed(s)'
      BY <3>1, <3>2, <3>4, CodeUnmoved DEF CodesUsed, Present
    <3>5. QED
      BY <3>3, <3>4 DEF CodesUsed
  <2>6. QED
    BY <1>2, <2>2, <2>3, <2>4, <2>5 DEF Terminal, Step
<1>3. ASSUME NEW c \in Contents \cup {NoFile}, Edit(c)
      PROVE  CodesUsed'
  <2>1. UNCHANGED <<pc, memory, observed>>
    BY <1>3 DEF Edit, memory, observed
  <2>2. QED
    BY <1>1, <2>1
<1>4. ASSUME NEW c \in Contents, UploadByHand(c)
      PROVE  CodesUsed'
  <2>1. UNCHANGED <<pc, memory, observed>>
    BY <1>4 DEF UploadByHand, disk, memory, observed
  <2>2. QED
    BY <1>1, <2>1
<1>5. CASE Tick
  <2>1. UNCHANGED <<pc, made, consumed, confirmed, posts>>
    BY <1>5 DEF Tick, observed
  <2>2. QED
    BY <2>1 DEF CodesUsed, CodeUsed, Present
<1>6. QED
  <2>1. CASE UNCHANGED vars
    BY <1>1, <2>1 DEF vars, disk, memory, observed, bounds
  <2>2. QED
    BY <1>2, <1>3, <1>4, <1>5, <2>1 DEF Next

LEMMA MadeIsTouched ==
    ASSUME Typed, NEW t \in Terminals
    PROVE  ~(Present(t)[2] > made[Present(t)[1]])
  BY DEF Present, Typed, TypedMemory

LEMMA OneLess ==
    ASSUME NEW n \in Nat, NEW m \in Nat, NEW k \in {n, n + 1}, m > k
    PROVE  m > n
  OBVIOUS

LEMMA UntouchedNext ==
    ASSUME Typed, Untouched, CodesUsed, [Next]_vars
    PROVE  Untouched'
<1>1. CASE UNCHANGED <<made, confirmed, posts>>
  BY <1>1 DEF Untouched
<1>2. ASSUME NEW t \in Terminals, Terminal(t)
      PROVE  Untouched'
  <2>1. pc[t] \notin {"idle", "refuse or stage"} => Present(t) \in Preview
    BY PresentIsPreview DEF Typed, TypedMemory, Begun
  <2>2. CASE Stage(t)
    <3>1. /\ made' = [made EXCEPT ![t] = @ + 1]
          /\ made[t] < MaxPreviews[t]
          /\ UNCHANGED <<confirmed, posts, learn, receipts, killed, unwritten>>
          /\ previewed' = [previewed EXCEPT ![Present(t)'] = original]
          /\ staging' = [staging EXCEPT ![Present(t)'] =
                                [content |-> original, age |-> 0]]
      BY <2>2 DEF Stage
    <3>2. /\ Present(t)' \in Preview
          /\ Present(t)'[1] = t /\ Present(t)'[2] = made[t] + 1
          /\ confirmed[Present(t)'] = 0 /\ posts[Present(t)'] = 0
      BY <3>1, NextIsUntouched DEF Typed
    <3>3. ASSUME NEW p \in Preview, p[2] > made'[p[1]]
          PROVE  p[2] > made[p[1]]
      <4>1. p[2] \in Nat /\ p[1] \in Terminals
        BY PreviewShape
      <4>2. made[p[1]] \in Nat /\ made'[p[1]] \in {made[p[1]], made[p[1]] + 1}
        BY <3>1, <4>1 DEF Typed, TypedMemory
      <4>3. QED
        BY <3>3, <4>1, <4>2, OneLess
    <3>4. QED
      BY <3>1, <3>3 DEF Untouched
  <2>3. CASE Confirm(t)
    <3>1. /\ Present(t) \in Preview
          /\ confirmed' = [confirmed EXCEPT ![Present(t)] = @ + 1]
          /\ UNCHANGED <<made, posts>>
          /\ pc[t] = "prompt" /\ ~consumed[t]
      BY <2>3, <2>1 DEF Confirm, MayConfirm
    <3>2. confirmed[Present(t)] = 0
      BY <3>1 DEF CodesUsed, CodeUsed
    <3>3. confirmed'[Present(t)] = 1
      BY <3>1, <3>2 DEF Typed, TypedGhosts
    <3>4. QED
      BY <3>1, MadeIsTouched DEF Untouched, Typed, TypedGhosts
  <2>4. CASE Post(t) \/ Unsent(t)
    <3>1. /\ Present(t) \in Preview
          /\ posts' = [posts EXCEPT ![Present(t)] = @ + 1]
          /\ UNCHANGED <<made, confirmed>>
          /\ pc[t] = "post"
      BY <2>4, <2>1 DEF Post, Unsent, Posted, memory
    <3>2. posts[Present(t)] = 0 /\ confirmed[Present(t)] = 1
      BY <3>1 DEF CodesUsed, CodeUsed
    <3>3. posts'[Present(t)] = 1
      BY <3>1, <3>2 DEF Typed, TypedGhosts
    <3>4. QED
      BY <3>1, MadeIsTouched DEF Untouched, Typed, TypedGhosts
  <2>5. CASE Prepare(t) \/ RefusePrepare(t) \/ Show(t) \/ Leave(t)
            \/ Invalid(t) \/ Valid(t) \/ CheckReply(t) \/ ReadBack(t)
            \/ RecordUnknown(t) \/ Discard(t) \/ RecordVerified(t)
            \/ RefuseConfirm(t) \/ Kill(t) \/ InterruptStage(t)
            \/ InterruptUpload(t) \/ NoReceipt(t)
    <3>1. UNCHANGED <<made, confirmed, posts>>
      BY <2>5
        DEF Prepare, RefusePrepare, Show, Leave, Invalid, Valid, CheckReply,
            ReadBack, RecordUnknown, Discard, RecordVerified, RefuseConfirm,
            Kill, InterruptStage, InterruptUpload, NoReceipt, memory,
            observed, Forget
    <3>2. QED
      BY <1>1, <3>1
  <2>6. QED
    BY <1>2, <2>2, <2>3, <2>4, <2>5 DEF Terminal, Step
<1>3. ASSUME NEW c \in Contents \cup {NoFile}, Edit(c)
      PROVE  Untouched'
  <2>1. UNCHANGED <<made, confirmed, posts>>
    BY <1>3 DEF Edit, memory, observed
  <2>2. QED
    BY <1>1, <2>1
<1>4. ASSUME NEW c \in Contents, UploadByHand(c)
      PROVE  Untouched'
  <2>1. UNCHANGED <<made, confirmed, posts>>
    BY <1>4 DEF UploadByHand, disk, memory, observed
  <2>2. QED
    BY <1>1, <2>1
<1>5. CASE Tick
  <2>1. UNCHANGED <<made, confirmed, posts>>
    BY <1>5 DEF Tick, observed, bounds
  <2>2. QED
    BY <1>1, <2>1
<1>6. QED
  <2>1. CASE UNCHANGED vars
    BY <1>1, <2>1 DEF vars, disk, memory, observed, bounds
  <2>2. QED
    BY <1>2, <1>3, <1>4, <1>5, <2>1 DEF Next

LEMMA OnePostNext ==
    ASSUME Typed, OnePostPerPreview, CodesUsed, [Next]_vars
    PROVE  OnePostPerPreview'
<1>1. CASE UNCHANGED <<confirmed, posts>>
  BY <1>1 DEF OnePostPerPreview
<1>2. ASSUME NEW t \in Terminals, Terminal(t)
      PROVE  OnePostPerPreview'
  <2>1. pc[t] \notin {"idle", "refuse or stage"} => Present(t) \in Preview
    BY PresentIsPreview DEF Typed, TypedMemory, Begun
  <2>2. CASE Confirm(t)
    <3>1. /\ Present(t) \in Preview
          /\ confirmed' = [confirmed EXCEPT ![Present(t)] = @ + 1]
          /\ UNCHANGED <<made, posts>>
          /\ pc[t] = "prompt" /\ ~consumed[t]
      BY <2>2, <2>1 DEF Confirm, MayConfirm
    <3>2. confirmed[Present(t)] = 0
      BY <3>1 DEF CodesUsed, CodeUsed
    <3>3. confirmed'[Present(t)] = 1
      BY <3>1, <3>2 DEF Typed, TypedGhosts
    <3>4. posts[Present(t)] = 0
      BY <3>1, <3>2, NothingPosted DEF Typed
    <3>5. QED
      BY <3>1, <3>3, <3>4 DEF OnePostPerPreview, Typed, TypedGhosts
  <2>3. CASE Post(t) \/ Unsent(t)
    <3>1. /\ Present(t) \in Preview
          /\ posts' = [posts EXCEPT ![Present(t)] = @ + 1]
          /\ UNCHANGED <<made, confirmed>>
          /\ pc[t] = "post"
      BY <2>3, <2>1 DEF Post, Unsent, Posted, memory
    <3>2. posts[Present(t)] = 0 /\ confirmed[Present(t)] = 1
      BY <3>1 DEF CodesUsed, CodeUsed
    <3>3. posts'[Present(t)] = 1
      BY <3>1, <3>2 DEF Typed, TypedGhosts
    <3>4. QED
      BY <3>1, <3>2, <3>3 DEF OnePostPerPreview, Typed, TypedGhosts
  <2>4. CASE Prepare(t) \/ RefusePrepare(t) \/ Stage(t) \/ Show(t) \/ Leave(t)
            \/ Invalid(t) \/ Valid(t) \/ CheckReply(t) \/ ReadBack(t)
            \/ RecordUnknown(t) \/ Discard(t) \/ RecordVerified(t)
            \/ RefuseConfirm(t) \/ Kill(t) \/ InterruptStage(t)
            \/ InterruptUpload(t) \/ NoReceipt(t)
    <3>1. UNCHANGED <<confirmed, posts>>
      BY <2>4
        DEF Prepare, RefusePrepare, Stage, Show, Leave, Invalid, Valid,
            CheckReply, ReadBack, RecordUnknown, Discard, RecordVerified,
            RefuseConfirm, Kill, InterruptStage, InterruptUpload, NoReceipt,
            observed
    <3>2. QED
      BY <1>1, <3>1
  <2>5. QED
    BY <1>2, <2>2, <2>3, <2>4 DEF Terminal, Step
<1>3. ASSUME NEW c \in Contents \cup {NoFile}, Edit(c)
      PROVE  OnePostPerPreview'
  <2>1. UNCHANGED <<confirmed, posts>>
    BY <1>3 DEF Edit, memory, observed
  <2>2. QED
    BY <1>1, <2>1
<1>4. ASSUME NEW c \in Contents, UploadByHand(c)
      PROVE  OnePostPerPreview'
  <2>1. UNCHANGED <<confirmed, posts>>
    BY <1>4 DEF UploadByHand, disk, memory, observed
  <2>2. QED
    BY <1>1, <2>1
<1>5. CASE Tick
  <2>1. UNCHANGED <<confirmed, posts>>
    BY <1>5 DEF Tick, observed, bounds
  <2>2. QED
    BY <1>1, <2>1
<1>6. QED
  <2>1. CASE UNCHANGED vars
    BY <1>1, <2>1 DEF vars, disk, memory, observed, bounds
  <2>2. QED
    BY <1>2, <1>3, <1>4, <1>5, <2>1 DEF Next

-----------------------------------------------------------------------------
(* What is sent is what was previewed *)

LEMMA CopiesNext ==
    ASSUME Typed, Untouched, CopiesAsPreviewed, [Next]_vars
    PROVE  CopiesAsPreviewed'
<1>1. CASE UNCHANGED <<staging, previewed>>
  BY <1>1 DEF CopiesAsPreviewed
<1>2. ASSUME NEW t \in Terminals, Terminal(t)
      PROVE  CopiesAsPreviewed'
  <2>1. pc[t] \notin {"idle", "refuse or stage"} => Present(t) \in Preview
    BY PresentIsPreview DEF Typed, TypedMemory, Begun
  <2>2. CASE Prepare(t)
    BY <2>2, <2>1
      DEF Prepare, Cleaned, observed, CopiesAsPreviewed, Typed, TypedDisk
  <2>3. CASE Stage(t)
    <3>1. /\ made' = [made EXCEPT ![t] = @ + 1]
          /\ made[t] < MaxPreviews[t]
          /\ UNCHANGED <<confirmed, posts, learn, receipts, killed, unwritten>>
          /\ previewed' = [previewed EXCEPT ![Present(t)'] = original]
          /\ staging' = [staging EXCEPT ![Present(t)'] =
                                [content |-> original, age |-> 0]]
      BY <2>3 DEF Stage
    <3>2. /\ Present(t)' \in Preview
          /\ Present(t)'[1] = t /\ Present(t)'[2] = made[t] + 1
          /\ confirmed[Present(t)'] = 0 /\ posts[Present(t)'] = 0
      BY <3>1, NextIsUntouched DEF Typed
    <3>3. QED
      BY <3>1, <3>2 DEF CopiesAsPreviewed, Typed, TypedDisk, TypedGhosts
  <2>4. CASE Leave(t) \/ RefuseConfirm(t) \/ Discard(t) \/ InterruptStage(t)
    BY <2>4, <2>1
      DEF Leave, RefuseConfirm, Discard, InterruptStage, Discarded, observed,
          CopiesAsPreviewed, Typed, TypedDisk
  <2>5. CASE RefusePrepare(t) \/ Show(t) \/ Invalid(t) \/ Valid(t) \/ Post(t)
            \/ Unsent(t) \/ CheckReply(t) \/ ReadBack(t) \/ RecordUnknown(t)
            \/ RecordVerified(t) \/ Confirm(t) \/ Kill(t)
            \/ InterruptUpload(t) \/ NoReceipt(t)
    <3>1. UNCHANGED <<staging, previewed>>
      BY <2>5
        DEF RefusePrepare, Show, Invalid, Valid, Post, Unsent, CheckReply,
            ReadBack, RecordUnknown, RecordVerified, Confirm, Kill,
            InterruptUpload, NoReceipt, disk, observed
    <3>2. QED
      BY <1>1, <3>1
  <2>6. QED
    BY <1>2, <2>2, <2>3, <2>4, <2>5 DEF Terminal, Step
<1>3. ASSUME NEW c \in Contents \cup {NoFile}, Edit(c)
      PROVE  CopiesAsPreviewed'
  <2>1. UNCHANGED <<staging, previewed>>
    BY <1>3 DEF Edit, memory, observed
  <2>2. QED
    BY <1>1, <2>1
<1>4. ASSUME NEW c \in Contents, UploadByHand(c)
      PROVE  CopiesAsPreviewed'
  <2>1. UNCHANGED <<staging, previewed>>
    BY <1>4 DEF UploadByHand, disk, memory, observed
  <2>2. QED
    BY <1>1, <2>1
<1>5. CASE Tick
  <2>1. ASSUME NEW p \in Preview, staging'[p] # NoFile
        PROVE  staging[p] # NoFile /\ staging'[p].content = staging[p].content
    BY <1>5, <2>1 DEF Tick, Copy, Typed, TypedDisk
  <2>2. QED
    BY <1>5, <2>1 DEF Tick, observed, CopiesAsPreviewed
<1>6. QED
  <2>1. CASE UNCHANGED vars
    BY <1>1, <2>1 DEF vars, disk, memory, observed, bounds
  <2>2. QED
    BY <1>2, <1>3, <1>4, <1>5, <2>1 DEF Next

LEMMA Appended ==
    ASSUME NEW S, NEW s \in Seq(S), NEW x, NEW i \in DOMAIN Append(s, x)
    PROVE  \/ i \in DOMAIN s /\ Append(s, x)[i] = s[i]
           \/ Append(s, x)[i] = x
  OBVIOUS

LEMMA UploadTyped ==
    ASSUME Typed, NEW i \in DOMAIN learn
    PROVE  learn[i].content \in Contents /\ learn[i].by \in Preview \cup {Browser}
<1>1. learn[i] \in [content : Contents, by : Preview \cup {Browser}]
  <2>1. \A S : \A s \in Seq(S) : \A k \in DOMAIN s : s[k] \in S
    OBVIOUS
  <2>2. QED
    BY <2>1 DEF Typed, TypedLearn
<1>2. QED
  BY <1>1

LEMMA UploadsNext ==
    ASSUME Typed, Untouched, CodesUsed, CopiesAsPreviewed, UploadsAsPreviewed, [Next]_vars
    PROVE  UploadsAsPreviewed'
<1>1. CASE UNCHANGED <<learn, previewed, posts>>
  BY <1>1 DEF UploadsAsPreviewed
<1>2. ASSUME NEW t \in Terminals, Terminal(t)
      PROVE  UploadsAsPreviewed'
  <2>1. pc[t] \notin {"idle", "refuse or stage"} => Present(t) \in Preview
    BY PresentIsPreview DEF Typed, TypedMemory, Begun
  <2>2. CASE Stage(t)
    <3>1. /\ made' = [made EXCEPT ![t] = @ + 1]
          /\ made[t] < MaxPreviews[t]
          /\ UNCHANGED <<confirmed, posts, learn, receipts, killed, unwritten>>
          /\ previewed' = [previewed EXCEPT ![Present(t)'] = original]
          /\ staging' = [staging EXCEPT ![Present(t)'] =
                                [content |-> original, age |-> 0]]
      BY <2>2 DEF Stage
    <3>2. /\ Present(t)' \in Preview
          /\ Present(t)'[1] = t /\ Present(t)'[2] = made[t] + 1
          /\ confirmed[Present(t)'] = 0 /\ posts[Present(t)'] = 0
      BY <3>1, NextIsUntouched DEF Typed
    <3>3. ASSUME NEW i \in DOMAIN learn, learn[i].by # Browser
          PROVE  learn[i].by \in Preview /\ learn[i].by # Present(t)'
      <4>1. learn[i].by \in Preview
        BY <3>3, UploadTyped
      <4>2. posts[learn[i].by] >= 1
        BY <3>3 DEF UploadsAsPreviewed
      <4>3. QED
        BY <3>2, <4>1, <4>2
    <3>4. QED
      BY <3>1, <3>3 DEF UploadsAsPreviewed, Typed, TypedGhosts
  <2>3. CASE Post(t)
    <3>1. /\ Present(t) \in Preview
          /\ posts' = [posts EXCEPT ![Present(t)] = @ + 1]
          /\ UNCHANGED <<made, confirmed>>
          /\ pc[t] = "post"
      BY <2>3, <2>1 DEF Post, Unsent, Posted, memory
    <3>2. posts[Present(t)] = 0 /\ confirmed[Present(t)] = 1
      BY <3>1 DEF CodesUsed, CodeUsed
    <3>3. posts'[Present(t)] = 1
      BY <3>1, <3>2 DEF Typed, TypedGhosts
    <3>4. Body(t) = previewed[Present(t)]
      BY <2>3, <3>1 DEF Post, Body, Copied, CopiesAsPreviewed
    <3>5. /\ learn' = Append(learn, Upload(Body(t), Present(t)))
             \/ UNCHANGED learn
          /\ previewed' = previewed
      BY <2>3 DEF Post
    <3>6. ASSUME NEW i \in DOMAIN learn, learn[i].by # Browser
          PROVE  /\ learn[i].content = previewed[learn[i].by]
                 /\ posts'[learn[i].by] >= 1
      BY <3>1, <3>3, <3>6 DEF UploadsAsPreviewed, Typed, TypedLearn, TypedGhosts
    <3>7. CASE UNCHANGED learn
      BY <3>5, <3>6, <3>7 DEF UploadsAsPreviewed
    <3>8. CASE learn' = Append(learn, Upload(Body(t), Present(t)))
      <4>1. ASSUME NEW i \in DOMAIN learn'
            PROVE  \/ i \in DOMAIN learn /\ learn'[i] = learn[i]
                   \/ learn'[i] = Upload(Body(t), Present(t))
        BY <3>8, Appended DEF Typed, TypedLearn
      <4>2. QED
        BY <3>3, <3>4, <3>5, <3>6, <4>1 DEF UploadsAsPreviewed, Upload
    <3>9. QED
      BY <3>5, <3>7, <3>8
  <2>4. CASE Unsent(t)
    <3>1. /\ Present(t) \in Preview
          /\ posts' = [posts EXCEPT ![Present(t)] = @ + 1]
          /\ UNCHANGED <<made, confirmed>>
          /\ pc[t] = "post"
      BY <2>4, <2>1 DEF Post, Unsent, Posted, memory
    <3>2. posts[Present(t)] = 0 /\ confirmed[Present(t)] = 1
      BY <3>1 DEF CodesUsed, CodeUsed
    <3>3. posts'[Present(t)] = 1
      BY <3>1, <3>2 DEF Typed, TypedGhosts
    <3>4. UNCHANGED <<learn, previewed>>
      BY <2>4 DEF Unsent
    <3>5. QED
      BY <3>1, <3>3, <3>4
         DEF UploadsAsPreviewed, Typed, TypedLearn, TypedGhosts
  <2>5. CASE Prepare(t) \/ RefusePrepare(t) \/ Show(t) \/ Leave(t)
            \/ Invalid(t) \/ Valid(t) \/ CheckReply(t) \/ ReadBack(t)
            \/ RecordUnknown(t) \/ Discard(t) \/ RecordVerified(t)
            \/ RefuseConfirm(t) \/ Confirm(t) \/ Kill(t) \/ InterruptStage(t)
            \/ InterruptUpload(t) \/ NoReceipt(t)
    <3>1. UNCHANGED <<learn, previewed, posts>>
      BY <2>5
        DEF Prepare, RefusePrepare, Show, Leave, Invalid, Valid, CheckReply,
            ReadBack, RecordUnknown, Discard, RecordVerified, RefuseConfirm,
            Confirm, Kill, InterruptStage, InterruptUpload, NoReceipt, disk,
            observed
    <3>2. QED
      BY <1>1, <3>1
  <2>6. QED
    BY <1>2, <2>2, <2>3, <2>4, <2>5 DEF Terminal, Step
<1>3. ASSUME NEW c \in Contents \cup {NoFile}, Edit(c)
      PROVE  UploadsAsPreviewed'
  <2>1. UNCHANGED <<learn, previewed, posts>>
    BY <1>3 DEF Edit, memory, observed
  <2>2. QED
    BY <1>1, <2>1
<1>4. ASSUME NEW c \in Contents, UploadByHand(c)
      PROVE  UploadsAsPreviewed'
  <2>1. /\ learn' = Append(learn, Upload(c, Browser))
        /\ UNCHANGED <<previewed, posts>>
    BY <1>4 DEF UploadByHand, observed
  <2>2. ASSUME NEW i \in DOMAIN learn'
        PROVE  \/ i \in DOMAIN learn /\ learn'[i] = learn[i]
               \/ learn'[i] = Upload(c, Browser)
    BY <2>1, Appended DEF Typed, TypedLearn
  <2>3. QED
    BY <2>1, <2>2 DEF UploadsAsPreviewed, Upload
<1>5. CASE Tick
  <2>1. UNCHANGED <<learn, previewed, posts>>
    BY <1>5 DEF Tick, observed, bounds
  <2>2. QED
    BY <1>1, <2>1
<1>6. QED
  <2>1. CASE UNCHANGED vars
    BY <1>1, <2>1 DEF vars, disk, memory, observed, bounds
  <2>2. QED
    BY <1>2, <1>3, <1>4, <1>5, <2>1 DEF Next

-----------------------------------------------------------------------------
(* Receipts *)

LEMMA StoredStays ==
    ASSUME Typed, [Next]_vars, NEW p, Stored(p)
    PROVE  Stored(p)'
<1>1. PICK i \in DOMAIN learn : learn[i].by = p
  BY DEF Stored
<1>2. \/ UNCHANGED learn
      \/ \E x : learn' = Append(learn, x)
  BY DEF Next, Terminal, Step, vars, Prepare, RefusePrepare, Stage, Show, Leave,
     Invalid, Valid, Post, Unsent, CheckReply, ReadBack, RecordUnknown,
     Discard, RecordVerified, RefuseConfirm, Confirm, Kill, InterruptStage,
     InterruptUpload, NoReceipt, Edit, UploadByHand, Tick
<1>3. \A S : \A s \in Seq(S) : \A x : \A k \in DOMAIN s :
            k \in DOMAIN Append(s, x) /\ Append(s, x)[k] = s[k]
  OBVIOUS
<1>4. i \in DOMAIN learn' /\ learn'[i] = learn[i]
  BY <1>2, <1>3 DEF Typed, TypedLearn
<1>5. QED
  BY <1>1, <1>4 DEF Stored

LEMMA VouchUnmoved ==
    ASSUME Typed, [Next]_vars, NEW s \in Terminals, Vouch(s),
           UNCHANGED <<pc[s], made[s], reply[s]>>
    PROVE  Vouch(s)'
<1>1. Present(s)' = Present(s) /\ Accepted(s)' = Accepted(s)
  BY DEF Present, Accepted
<1>2. QED
  BY <1>1, StoredStays DEF Vouch

LEMMA LastOfAppend ==
    ASSUME NEW S, NEW s \in Seq(S), NEW x
    PROVE  \E k \in DOMAIN Append(s, x) : Append(s, x)[k] = x
<1>1. Len(s) + 1 \in DOMAIN Append(s, x) /\ Append(s, x)[Len(s) + 1] = x
  OBVIOUS
<1>2. QED
  BY <1>1

LEMMA VouchedNext ==
    ASSUME Typed, Vouched, [Next]_vars
    PROVE  Vouched'
<1>1. CASE UNCHANGED <<pc, memory, learn>>
  BY <1>1 DEF Vouched, Vouch, Accepted, Present, Stored, memory
<1>2. ASSUME NEW t \in Terminals, Terminal(t)
      PROVE  Vouched'
  <2>1. pc[t] \notin {"idle", "refuse or stage"} => Present(t) \in Preview
    BY PresentIsPreview DEF Typed, TypedMemory, Begun
  <2>2. CASE Post(t)
    <3>1. /\ pc' = [pc EXCEPT ![t] = "reply"]
          /\ made' = made
      BY <2>2 DEF Post, Goto
    <3>2. PICK status \in {"2xx", "other"} :
                /\ reply' = [reply EXCEPT ![t] = status]
                /\ \/ learn' = Append(learn, Upload(Body(t), Present(t)))
                   \/ status = "other"
      BY <2>2 DEF Post
    <3>3. ASSUME status = "other"
          PROVE  Vouch(t)'
      <4>1. ~Accepted(t)' /\ pc'[t] = "reply"
        BY <3>1, <3>2, <3>3 DEF Accepted, Typed, TypedMemory
      <4>2. QED
        BY <4>1 DEF Vouch
    <3>4. ASSUME learn' = Append(learn, Upload(Body(t), Present(t)))
          PROVE  Vouch(t)'
      <4>1. Stored(Present(t))'
        <5>1. Present(t)' = Present(t)
          BY <3>1 DEF Present
        <5>2. \A S : \A s \in Seq(S) : \A x :
                    \E k \in DOMAIN Append(s, x) : Append(s, x)[k] = x
          BY LastOfAppend
        <5>3. PICK k \in DOMAIN learn' : learn'[k] = Upload(Body(t), Present(t))
          BY <3>4, <5>2 DEF Typed, TypedLearn
        <5>4. QED
          BY <5>1, <5>3 DEF Stored, Upload
      <4>2. QED
        BY <4>1 DEF Vouch
    <3>5. Vouch(t)'
      BY <3>2, <3>3, <3>4
    <3>6. ASSUME NEW s \in Terminals, s # t
          PROVE  Vouch(s)'
      <4>1. UNCHANGED <<pc[s], made[s], reply[s]>>
        BY <3>1, <3>2, <3>6 DEF Typed, TypedMemory
      <4>2. QED
        BY <4>1, VouchUnmoved DEF Vouched
    <3>7. QED
      BY <3>5, <3>6 DEF Vouched
  <2>3. CASE Prepare(t) \/ RefusePrepare(t) \/ Stage(t) \/ Show(t) \/ Leave(t)
            \/ Invalid(t) \/ Valid(t) \/ Unsent(t) \/ CheckReply(t)
            \/ ReadBack(t) \/ RecordUnknown(t) \/ Discard(t)
            \/ RecordVerified(t) \/ RefuseConfirm(t) \/ Confirm(t) \/ Kill(t)
            \/ InterruptStage(t) \/ InterruptUpload(t) \/ NoReceipt(t)
    <3>1. \A s \in Terminals \ {t} : UNCHANGED <<pc[s], made[s], reply[s]>>
      BY <2>3
        DEF Prepare, RefusePrepare, Stage, Show, Leave, Invalid, Valid, Unsent,
            CheckReply, ReadBack, RecordUnknown, Discard, RecordVerified,
            RefuseConfirm, Confirm, Kill, InterruptStage, InterruptUpload,
            NoReceipt,
            Forget, memory, Goto, Typed, TypedMemory
    <3>2. Vouch(t)'
      <4>1. CASE Prepare(t) \/ RefusePrepare(t) \/ Stage(t) \/ Show(t)
                 \/ Leave(t) \/ Invalid(t) \/ Valid(t) \/ Unsent(t)
                 \/ RecordUnknown(t) \/ RecordVerified(t) \/ RefuseConfirm(t) \/ Confirm(t)
                 \/ Kill(t) \/ InterruptStage(t) \/ InterruptUpload(t) \/ NoReceipt(t)
        <5>1. pc'[t] \notin {"reply", "read back", "verified", "record"}
          BY <4>1
            DEF Prepare, RefusePrepare, Stage, Show, Leave, Invalid, Valid, Unsent,
                RecordUnknown, RecordVerified, RefuseConfirm, Confirm, Kill,
                InterruptStage, InterruptUpload, NoReceipt,
                Goto, Typed, TypedMemory, PCs
        <5>2. QED
          BY <5>1 DEF Vouch
      <4>2. CASE CheckReply(t) \/ ReadBack(t) \/ Discard(t)
        <5>1. /\ UNCHANGED <<made, reply, learn>>
              /\ \/ /\ pc[t] = "reply" /\ pc'[t] \in {"read back", "unknown"}
                    /\ pc'[t] = "read back" => Accepted(t)
                 \/ pc[t] = "read back" /\ pc'[t] \in {"verified", "unknown"}
                 \/ pc[t] = "discard" /\ pc'[t] = "prompt"
                 \/ pc[t] = "verified" /\ pc'[t] = "record"
          BY <4>2 DEF CheckReply, ReadBack, Discard, memory, Goto, Typed,
             TypedMemory
        <5>2. QED
          BY <5>1 DEF Vouched, Vouch, Present, Stored
      <4>3. QED
        BY <2>3, <4>1, <4>2
    <3>3. ASSUME NEW s \in Terminals, s # t
          PROVE  Vouch(s)'
      BY <3>1, <3>3, VouchUnmoved DEF Vouched
    <3>4. QED
      BY <3>2, <3>3 DEF Vouched
  <2>4. QED
    BY <1>2, <2>2, <2>3 DEF Terminal, Step
<1>3. ASSUME NEW c \in Contents \cup {NoFile}, Edit(c)
      PROVE  Vouched'
  <2>1. UNCHANGED <<pc, memory, learn>>
    BY <1>3 DEF Edit, memory, observed
  <2>2. QED
    BY <1>1, <2>1
<1>4. ASSUME NEW c \in Contents, UploadByHand(c)
      PROVE  Vouched'
  <2>1. UNCHANGED <<pc, made, reply>>
    BY <1>4 DEF UploadByHand, memory
  <2>2. QED
    BY <2>1, VouchUnmoved DEF Vouched
<1>5. CASE Tick
  <2>1. UNCHANGED <<pc, made, reply>>
    BY <1>5 DEF Tick
  <2>2. QED
    BY <2>1, VouchUnmoved DEF Vouched
<1>6. QED
  <2>1. CASE UNCHANGED vars
    BY <1>1, <2>1 DEF vars, disk, memory, observed, bounds
  <2>2. QED
    BY <1>2, <1>3, <1>4, <1>5, <2>1 DEF Next

LEMMA OthersRecordNothing ==
    ASSUME [Next]_vars, receipts' # receipts
    PROVE  \E t \in Terminals : RecordVerified(t) \/ RecordUnknown(t)
  BY DEF Next, Terminal, Step, vars, disk, Prepare, RefusePrepare, Stage, Show,
     Leave, Invalid, Valid, Post, Unsent, CheckReply, ReadBack, Discard,
     RefuseConfirm, Confirm, Kill, InterruptStage, InterruptUpload, NoReceipt,
     Edit, UploadByHand, Tick

LEMMA VerifiedNext ==
    ASSUME Typed, [Next]_vars, Vouched, VerifiedIsStored
    PROVE  VerifiedIsStored'
<1>1. ASSUME NEW p \in Preview, Receipt(p, "verified") \in receipts'
      PROVE  Stored(p)
  <2>1. CASE Receipt(p, "verified") \in receipts
    BY <2>1 DEF VerifiedIsStored, Stored
  <2>2. CASE Receipt(p, "verified") \notin receipts
    <3>1. PICK t \in Terminals : RecordVerified(t) \/ RecordUnknown(t)
      BY <1>1, <2>2, OthersRecordNothing
    <3>2. Receipt(p, "verified") # Receipt(Present(t), "verification_unknown")
      BY DEF Receipt
    <3>3. RecordVerified(t) /\ Receipt(p, "verified") = Receipt(Present(t), "verified")
      BY <1>1, <2>2, <3>1, <3>2 DEF RecordVerified, RecordUnknown
    <3>4. p = Present(t) /\ pc[t] = "record"
      BY <3>3 DEF Receipt, RecordVerified
    <3>5. QED
      BY <3>4 DEF Vouched, Vouch
  <2>3. QED
    BY <2>1, <2>2
<1>2. QED
  BY <1>1, StoredStays DEF VerifiedIsStored, Stored

LEMMA ReceiptTyped ==
    ASSUME Typed, NEW r \in receipts
    PROVE  r.preview \in Preview
  BY DEF Typed, TypedDisk

LEMMA ReceiptsNext ==
    ASSUME Typed, CodesUsed, ReceiptsOfPosts, [Next]_vars
    PROVE  ReceiptsOfPosts'
<1>1. CASE UNCHANGED <<pc, made, receipts, posts>>
  BY <1>1 DEF ReceiptsOfPosts, Recorded, Present
<1>2. ASSUME NEW t \in Terminals, Terminal(t)
      PROVE  ReceiptsOfPosts'
  <2>1. pc[t] \notin {"idle", "refuse or stage"} => Present(t) \in Preview
    BY PresentIsPreview DEF Typed, TypedMemory, Begun
  <2>2. CASE RecordUnknown(t) \/ RecordVerified(t)
    <3>1. PICK status : receipts' = receipts \cup {Receipt(Present(t), status)}
      BY <2>2 DEF RecordUnknown, RecordVerified
    <3>2. /\ pc[t] \in Uncertain /\ pc'[t] \notin Uncertain
          /\ \A s \in Terminals \ {t} : pc'[s] = pc[s]
          /\ UNCHANGED <<made, posts, killed, unwritten>>
      BY <2>2 DEF RecordUnknown, RecordVerified, Goto, Uncertain, memory,
         observed, Typed, TypedMemory
    <3>3. posts[Present(t)] = 1 /\ ~Recorded(Present(t))
      BY <3>2 DEF CodesUsed, CodeUsed, ReceiptsOfPosts
    <3>4. Receipt(Present(t), status).preview = Present(t)
      BY DEF Receipt
    <3>5. \A r \in receipts' : posts'[r.preview] >= 1
      BY <3>1, <3>2, <3>3, <3>4 DEF ReceiptsOfPosts
    <3>6. ASSUME NEW s \in Terminals, pc'[s] \in Uncertain
          PROVE  ~Recorded(Present(s))'
      <4>1. s # t /\ pc[s] \in Uncertain /\ Present(s)' = Present(s)
        BY <3>2, <3>6 DEF Present
      <4>2. Present(s) # Present(t) /\ ~Recorded(Present(s))
        BY <4>1, Distinct DEF ReceiptsOfPosts
      <4>3. QED
        BY <3>1, <3>4, <4>1, <4>2 DEF Recorded
    <3>7. ASSUME NEW r \in receipts', NEW s \in receipts',
                 r.preview = s.preview
          PROVE  r = s
      BY <3>1, <3>3, <3>4, <3>7 DEF ReceiptsOfPosts, Recorded
    <3>8. QED
      BY <3>5, <3>6, <3>7 DEF ReceiptsOfPosts
  <2>3. CASE Post(t) \/ Unsent(t)
    <3>1. /\ Present(t) \in Preview
          /\ posts' = [posts EXCEPT ![Present(t)] = @ + 1]
          /\ UNCHANGED <<made, confirmed>>
          /\ pc[t] = "post"
      BY <2>3, <2>1 DEF Post, Unsent, Posted, memory
    <3>2. posts[Present(t)] = 0 /\ confirmed[Present(t)] = 1
      BY <3>1 DEF CodesUsed, CodeUsed
    <3>3. posts'[Present(t)] = 1
      BY <3>1, <3>2 DEF Typed, TypedGhosts
    <3>4. /\ receipts' = receipts
          /\ \A s \in Terminals \ {t} : pc'[s] = pc[s]
      BY <2>3 DEF Post, Unsent, disk, Goto, Typed, TypedMemory
    <3>5. \A r \in receipts' : posts'[r.preview] >= 1
      BY <3>1, <3>3, <3>4, ReceiptTyped DEF ReceiptsOfPosts, Typed, TypedGhosts
    <3>6. ASSUME NEW s \in Terminals, pc'[s] \in Uncertain
          PROVE  ~Recorded(Present(s))
      <4>1. CASE s = t
        BY <3>2, <4>1 DEF ReceiptsOfPosts, Recorded
      <4>2. CASE s # t
        BY <3>4, <3>6, <4>2 DEF ReceiptsOfPosts
      <4>3. QED
        BY <4>1, <4>2
    <3>7. \A s \in Terminals : Present(s)' = Present(s)
      BY <3>1 DEF Present
    <3>8. QED
      BY <3>4, <3>5, <3>6, <3>7 DEF ReceiptsOfPosts, Recorded
  <2>4. CASE Stage(t) \/ Kill(t) \/ NoReceipt(t) \/ Prepare(t)
            \/ RefusePrepare(t) \/ Show(t) \/ Leave(t) \/ Invalid(t)
            \/ Valid(t) \/ CheckReply(t) \/ ReadBack(t) \/ Discard(t)
            \/ RefuseConfirm(t) \/ Confirm(t) \/ InterruptStage(t)
            \/ InterruptUpload(t)
    <3>1. UNCHANGED <<receipts, posts>>
      BY <2>4
        DEF Stage, Kill, NoReceipt, Prepare, RefusePrepare, Show, Leave, Invalid, Valid,
            CheckReply, ReadBack, Discard, RefuseConfirm, Confirm,
            InterruptStage, InterruptUpload,
            disk, memory, observed
    <3>2. ASSUME NEW s \in Terminals, pc'[s] \in Uncertain
          PROVE  pc[s] \in Uncertain /\ made'[s] = made[s]
      BY <2>4, <3>2
        DEF Stage, Kill, NoReceipt, Prepare, RefusePrepare, Show, Leave, Invalid, Valid,
            CheckReply, ReadBack, Discard, RefuseConfirm, Confirm,
            InterruptStage, InterruptUpload,
            Forget, memory, Goto, Uncertain, Typed, TypedMemory
    <3>3. QED
      BY <3>1, <3>2 DEF ReceiptsOfPosts, Recorded, Present
  <2>5. QED
    BY <1>2, <2>2, <2>3, <2>4 DEF Terminal, Step
<1>3. ASSUME NEW c \in Contents \cup {NoFile}, Edit(c)
      PROVE  ReceiptsOfPosts'
  <2>1. UNCHANGED <<pc, made, receipts, posts>>
    BY <1>3 DEF Edit, memory, observed
  <2>2. QED
    BY <1>1, <2>1
<1>4. ASSUME NEW c \in Contents, UploadByHand(c)
      PROVE  ReceiptsOfPosts'
  <2>1. UNCHANGED <<pc, made, receipts, posts>>
    BY <1>4 DEF UploadByHand, disk, memory, observed
  <2>2. QED
    BY <1>1, <2>1
<1>5. CASE Tick
  <2>1. UNCHANGED <<pc, made, receipts, posts>>
    BY <1>5 DEF Tick, observed
  <2>2. QED
    BY <1>1, <2>1
<1>6. QED
  <2>1. CASE UNCHANGED vars
    BY <1>1, <2>1 DEF vars, disk, memory, observed, bounds
  <2>2. QED
    BY <1>2, <1>3, <1>4, <1>5, <2>1 DEF Next

LEMMA OpenUnmoved ==
    ASSUME NEW p \in Preview, UNCHANGED <<made[p[1]], pc[p[1]]>>
    PROVE  Open(p)' = Open(p)
  BY DEF Open, Present, Uncertain

LEMMA AccountedNext ==
    ASSUME Typed, CodesUsed, PostsAccounted, [Next]_vars
    PROVE  PostsAccounted'
<1>1. CASE UNCHANGED <<pc, made, receipts, posts, killed, unwritten>>
  BY <1>1 DEF PostsAccounted, Recorded, Open, Present
<1>2. ASSUME NEW t \in Terminals, Terminal(t)
      PROVE  PostsAccounted'
  <2>1. pc[t] \notin {"idle", "refuse or stage"} => Present(t) \in Preview
    BY PresentIsPreview DEF Typed, TypedMemory, Begun
  <2>2. CASE RecordUnknown(t) \/ RecordVerified(t)
    <3>1. PICK status : receipts' = receipts \cup {Receipt(Present(t), status)}
      BY <2>2 DEF RecordUnknown, RecordVerified
    <3>2. /\ pc[t] \in Uncertain /\ pc'[t] \notin Uncertain
          /\ \A s \in Terminals \ {t} : pc'[s] = pc[s]
          /\ UNCHANGED <<made, posts, killed, unwritten>>
      BY <2>2 DEF RecordUnknown, RecordVerified, Goto, Uncertain, memory,
         observed, Typed, TypedMemory
    <3>3. Recorded(Present(t))' /\ Present(t)' = Present(t)
      <4>1. Receipt(Present(t), status).preview = Present(t)
        BY DEF Receipt
      <4>2. Present(t)' = Present(t)
        BY <3>2 DEF Present
      <4>3. QED
        BY <3>1, <4>1, <4>2 DEF Recorded
    <3>4. ASSUME NEW p \in Preview, posts'[p] >= 1, p # Present(t)
          PROVE  \/ Recorded(p)' \/ Open(p)'
                 \/ p \in killed' \cup unwritten'
      <4>1. CASE p[1] = t
        <5>1. ~Open(p)
          BY <3>4, <4>1 DEF Open
        <5>2. QED
          BY <3>1, <3>2, <3>4, <5>1 DEF PostsAccounted, Recorded
      <4>2. CASE p[1] # t
        BY <3>1, <3>2, <3>4, <4>2, PreviewShape, OpenUnmoved
           DEF PostsAccounted, Recorded
      <4>3. QED
        BY <4>1, <4>2
    <3>5. QED
      BY <3>3, <3>4 DEF PostsAccounted
  <2>3. CASE Post(t) \/ Unsent(t)
    <3>1. /\ Present(t) \in Preview
          /\ posts' = [posts EXCEPT ![Present(t)] = @ + 1]
          /\ UNCHANGED <<made, confirmed>>
          /\ pc[t] = "post"
      BY <2>3, <2>1 DEF Post, Unsent, Posted, memory
    <3>2. posts[Present(t)] = 0 /\ confirmed[Present(t)] = 1
      BY <3>1 DEF CodesUsed, CodeUsed
    <3>3. posts'[Present(t)] = 1
      BY <3>1, <3>2 DEF Typed, TypedGhosts
    <3>4. /\ UNCHANGED <<receipts, killed, unwritten>>
          /\ pc'[t] \in Uncertain
          /\ \A s \in Terminals \ {t} : pc'[s] = pc[s]
      BY <2>3 DEF Post, Unsent, disk, Goto, Uncertain, Typed, TypedMemory
    <3>5. Open(Present(t))'
      BY <3>1, <3>4 DEF Open, Present
    <3>6. ASSUME NEW p \in Preview, posts'[p] >= 1, p # Present(t)
          PROVE  \/ Recorded(p)' \/ Open(p)'
                 \/ p \in killed' \cup unwritten'
      <4>1. posts[p] >= 1
        BY <3>1, <3>6 DEF Typed, TypedGhosts
      <4>2. Open(p) => Open(p)'
        <5>1. CASE p[1] = t
          BY <3>6, <5>1 DEF Open
        <5>2. CASE p[1] # t
          BY <3>1, <3>4, <5>2, PreviewShape, OpenUnmoved
        <5>3. QED
          BY <5>1, <5>2
      <4>3. QED
        BY <3>4, <4>1, <4>2 DEF PostsAccounted, Recorded
    <3>7. QED
      BY <3>1, <3>5, <3>6 DEF PostsAccounted, Present
  <2>4. CASE Kill(t) \/ NoReceipt(t)
    <3>1. /\ UNCHANGED <<receipts, posts, made>>
          /\ \A s \in Terminals \ {t} : pc'[s] = pc[s]
          /\ killed \cup unwritten \subseteq killed' \cup unwritten'
          /\ pc[t] \in Uncertain =>
                    Present(t) \in killed' \cup unwritten'
      BY <2>4 DEF Kill, NoReceipt, disk, memory, Goto, Uncertain, Typed,
         TypedMemory
    <3>2. ASSUME NEW p \in Preview, posts'[p] >= 1
          PROVE  \/ Recorded(p)' \/ Open(p)'
                 \/ p \in killed' \cup unwritten'
      <4>1. CASE p[1] = t
        BY <3>1, <3>2, <4>1 DEF PostsAccounted, Recorded, Open
      <4>2. CASE p[1] # t
        BY <3>1, <3>2, <4>2, PreviewShape, OpenUnmoved
           DEF PostsAccounted, Recorded
      <4>3. QED
        BY <4>1, <4>2
    <3>3. QED
      BY <3>2 DEF PostsAccounted
  <2>5. CASE Prepare(t) \/ RefusePrepare(t) \/ Stage(t) \/ Show(t) \/ Leave(t)
            \/ Invalid(t) \/ Valid(t) \/ CheckReply(t) \/ ReadBack(t)
            \/ Discard(t) \/ RefuseConfirm(t) \/ Confirm(t)
            \/ InterruptStage(t) \/ InterruptUpload(t)
    <3>1. UNCHANGED <<receipts, posts, killed, unwritten>>
      BY <2>5
        DEF Prepare, RefusePrepare, Stage, Show, Leave, Invalid, Valid, CheckReply,
            ReadBack, Discard, RefuseConfirm, Confirm, InterruptStage,
            InterruptUpload,
            disk, memory, observed
    <3>2. ASSUME NEW s \in Terminals, pc[s] \in Uncertain
          PROVE  pc'[s] \in Uncertain /\ made'[s] = made[s]
      BY <2>5, <3>2
        DEF Prepare, RefusePrepare, Stage, Show, Leave, Invalid, Valid, CheckReply,
            ReadBack, Discard, RefuseConfirm, Confirm, InterruptStage,
            InterruptUpload,
            Forget, memory, Goto, Uncertain, Typed, TypedMemory
    <3>3. QED
      BY <3>1, <3>2, PreviewShape DEF PostsAccounted, Recorded, Open, Present
  <2>6. QED
    BY <1>2, <2>2, <2>3, <2>4, <2>5 DEF Terminal, Step
<1>3. ASSUME NEW c \in Contents \cup {NoFile}, Edit(c)
      PROVE  PostsAccounted'
  <2>1. UNCHANGED <<pc, made, receipts, posts, killed, unwritten>>
    BY <1>3 DEF Edit, memory, observed
  <2>2. QED
    BY <1>1, <2>1
<1>4. ASSUME NEW c \in Contents, UploadByHand(c)
      PROVE  PostsAccounted'
  <2>1. UNCHANGED <<pc, made, receipts, posts, killed, unwritten>>
    BY <1>4 DEF UploadByHand, disk, memory, observed
  <2>2. QED
    BY <1>1, <2>1
<1>5. CASE Tick
  <2>1. UNCHANGED <<pc, made, receipts, posts, killed, unwritten>>
    BY <1>5 DEF Tick, observed
  <2>2. QED
    BY <1>1, <2>1
<1>6. QED
  <2>1. CASE UNCHANGED vars
    BY <1>1, <2>1 DEF vars, disk, memory, observed, bounds
  <2>2. QED
    BY <1>2, <1>3, <1>4, <1>5, <2>1 DEF Next

-----------------------------------------------------------------------------
(* The theorems *)

LEMMA IInvInit == Init => IInv
<1> SUFFICES ASSUME Init PROVE IInv
  OBVIOUS
<1>1. \A p \in Preview : confirmed[p] = 0 /\ posts[p] = 0
  BY DEF Init
<1>2. Untouched /\ OnePostPerPreview /\ PostsAccounted
  BY <1>1 DEF Untouched, OnePostPerPreview, PostsAccounted
<1>3. CopiesAsPreviewed /\ UploadsAsPreviewed
  BY DEF Init, CopiesAsPreviewed, UploadsAsPreviewed
<1>4. CodesUsed /\ Vouched
  BY DEF Init, CodesUsed, CodeUsed, Vouched, Vouch, Uncertain
<1>5. VerifiedIsStored /\ ReceiptsOfPosts
  BY DEF Init, VerifiedIsStored, ReceiptsOfPosts, Uncertain
<1>6. QED
  BY TypedInit, <1>2, <1>3, <1>4, <1>5 DEF IInv

LEMMA IInvNext ==
    ASSUME IInv, [Next]_vars
    PROVE  IInv'
<1> USE DEF IInv
<1>1. Typed' /\ Untouched' /\ OnePostPerPreview' /\ CodesUsed'
  BY TypedNext, UntouchedNext, OnePostNext, CodesNext
<1>2. CopiesAsPreviewed' /\ UploadsAsPreviewed'
  BY CopiesNext, UploadsNext
<1>3. Vouched' /\ VerifiedIsStored' /\ ReceiptsOfPosts' /\ PostsAccounted'
  BY VouchedNext, VerifiedNext, ReceiptsNext, AccountedNext
<1>4. QED
  BY <1>1, <1>2, <1>3

\* The inductive invariant: typing, and what each place of a terminal and each
\* preview has established.
THEOREM Invariant == Spec => []IInv
  BY IInvInit, IInvNext, PTL DEF Spec

\* LEARN never gets other bytes from a terminal than its preview showed.
THEOREM SentAsPreviewedAlways == Spec => []SentAsPreviewed
<1>1. IInv => SentAsPreviewed
  BY DEF IInv, UploadsAsPreviewed, SentAsPreviewed
<1>2. QED
  BY <1>1, Invariant, PTL

\* One confirmation authorises at most one POST.
THEOREM OnePostAlways == Spec => []OnePostPerPreview
<1>1. IInv => OnePostPerPreview
  BY DEF IInv
<1>2. QED
  BY <1>1, Invariant, PTL

\* A receipt says "verified" only of an upload that LEARN has.
THEOREM VerifiedIsStoredAlways == Spec => []VerifiedIsStored
<1>1. IInv => VerifiedIsStored
  BY DEF IInv
<1>2. QED
  BY <1>1, Invariant, PTL

\* At most one receipt of a preview.
LEMMA OneReceipt ==
    ASSUME IInv, NEW p \in Preview
    PROVE  Cardinality({r \in receipts : r.preview = p}) <= 1
<1> DEFINE R == {r \in receipts : r.preview = p}
<1>1. CASE R = {}
  <2>1. Cardinality(R) = 0
    BY <1>1, FS_EmptySet
  <2>2. QED
    BY <2>1
<1>2. CASE R # {}
  <2>1. PICK r \in R : TRUE
    BY <1>2
  <2>2. R = {r}
    BY <2>1 DEF IInv, ReceiptsOfPosts
  <2>3. Cardinality(R) = 1
    BY <2>2, FS_Singleton
  <2>4. QED
    BY <2>3
<1>3. QED
  BY <1>1, <1>2

\* A command that is over has recorded its attempt, unless it was killed or
\* the receipt could not be written; and it has recorded it once.
THEOREM AttemptIsRecordedAlways == Spec => []AttemptIsRecorded
<1>1. IInv => AttemptIsRecorded
  <2> SUFFICES ASSUME IInv PROVE AttemptIsRecorded
    OBVIOUS
  <2>1. ASSUME NEW p \in Preview, Over(p), posts[p] > 0,
               p \notin killed \cup unwritten
        PROVE  Recorded(p)
    <3>1. ~Open(p)
      <4>1. pc[p[1]] \notin Uncertain \/ made[p[1]] # p[2]
        BY <2>1 DEF Over, Uncertain
      <4>2. p = Present(p[1]) => p[2] = made[p[1]]
        BY DEF Present
      <4>3. QED
        BY <4>1, <4>2 DEF Open
    <3>2. posts[p] >= 1
      BY <2>1 DEF IInv, Typed, TypedGhosts
    <3>3. QED
      BY <2>1, <3>1, <3>2 DEF IInv, PostsAccounted
  <2>2. QED
    BY <2>1, OneReceipt DEF AttemptIsRecorded
<1>2. QED
  BY <1>1, Invariant, PTL
=============================================================================
