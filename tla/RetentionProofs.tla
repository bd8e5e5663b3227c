--------------------------- MODULE RetentionProofs ---------------------------
(***************************************************************************)
(* Proofs about what a newer state leaves of an older one: the sessions    *)
(* that a sign-in replaces and the requests that are made with one         *)
(* (Connection), the records and files that a purge removes (Purge), and   *)
(* the accepted sources that give way to newer ones (RevisionArchive), for *)
(* any number of sign-ins, retries, pages, documents, files and revisions. *)
(***************************************************************************)
EXTENDS Connection, Purge, RevisionArchive, TLAPS

-----------------------------------------------------------------------------
(* Connection: the inductive invariant *)

\* The order of the sign-ins: what was replaced, what is or was being stored,
\* and a paste that waits to be verified.
InOrder ==
    /\ replaced <= value /\ value <= harvested
    /\ step \in {"set", "unlink", "forget", "write"} => replaced < value
    /\ pending # 0 => pending = harvested /\ value < pending /\ step = "idle"

\* At every step, not only at rest, an older session is one whose removal was
\* refused; and what the next step relies on was done by the one before.
OlderIsRefused ==
    /\ \A copy \in Stores : Older(LoadsFrom(copy)) => copy \in refused
    /\ step = "unlink" => keyring = value
    /\ step \in {"write", "remove"} => keyring = NoSession \/ "keyring" \in refused

SignedIn ==
    /\ StoreTypeOK /\ harvested \in 0..MaxSessions /\ pending \in 0..harvested
    /\ InOrder /\ OlderIsRefused

\* Every request of a call beyond the first was a retry or a redirect of a GET.
Accounted ==
    /\ sent <= Limit
    /\ call # NoCall =>
          /\ sent + 1 <= call.attempt + call.redirects
          /\ call.kind # "get" => sent = 0

Requested == RequestTypeOK /\ Accounted

Commanded ==
    /\ expired \in 0..harvested
    /\ stage \in CallStages \cup {"off"}
    /\ using \in Sessions \cup {NoSession}
    /\ seen \subseteq Bookmarks

ConnectionInv == SignedIn /\ Requested /\ Commanded

-----------------------------------------------------------------------------
(* Connection: the store *)

LEMMA OlderIs ==
    OlderIsRefused <=>
        /\ Older(keyring) => "keyring" \in refused
        /\ Older(file) => "file" \in refused
        /\ step = "unlink" => keyring = value
        /\ step \in {"write", "remove"} => keyring = NoSession \/ "keyring" \in refused
BY DEF OlderIsRefused, Stores, LoadsFrom

\* The numbers of the store.
LEMMA StoreNumbers ==
    ASSUME SignedIn
    PROVE  /\ MaxSessions \in Nat /\ replaced \in Nat /\ value \in Nat
           /\ harvested \in Nat /\ pending \in Nat
           /\ replaced <= value /\ value <= harvested /\ harvested <= MaxSessions
           /\ \A s \in Sessions : s \in Nat /\ s # NoSession
           /\ ~Older(NoSession)
           /\ \A s \in Nat : replaced < s => ~Older(s)
BY SessionsAssumption DEF SignedIn, StoreTypeOK, InOrder, Sessions, Older

\* A sign-in hands its session, later than any in the store, to it.
LEMMA BeginStoreKeeps ==
    ASSUME SignedIn, step = "idle", NEW s \in Sessions, value < s,
           BeginStore(s), harvested' \in {harvested, s}, harvested' \in 0..MaxSessions,
           s <= harvested', pending' = 0
    PROVE  SignedIn'
<1>1. StoreTypeOK'
  BY SessionsAssumption DEF SignedIn, StoreTypeOK, BeginStore, Sessions
<1>2. InOrder'
  BY StoreNumbers DEF BeginStore, InOrder, Sessions
<1>3. OlderIsRefused'
  BY DEF SignedIn, OlderIsRefused, Older, LoadsFrom, BeginStore
<1>4. QED
  BY <1>1, <1>2, <1>3, StoreNumbers DEF SignedIn

LEMMA StoreStepKeeps ==
    ASSUME SignedIn, StoreStep, pending = 0, UNCHANGED <<harvested, pending>>
    PROVE  SignedIn'
<1>0. StoreTypeOK /\ InOrder /\ OlderIsRefused
  BY DEF SignedIn
<1>1. StoreTypeOK' /\ InOrder'
  <2>1. CASE KeyringAccepts \/ KeyringRefuses
    <3>1. value \in Sessions
      BY <1>0, <2>1, StoreNumbers DEF InOrder, KeyringAccepts, KeyringRefuses, Sessions
    <3>2. QED
      BY <1>0, <2>1, <3>1 DEF StoreTypeOK, InOrder, KeyringAccepts, KeyringRefuses, Stores
  <2>2. CASE UnlinkOlder
    <3>1. /\ step = "unlink" /\ step' = "idle" /\ UNCHANGED <<keyring, value>>
          /\ replaced' = value - 1
      BY <2>2 DEF UnlinkOlder
    <3>2. replaced < value
      BY <1>0, <3>1 DEF InOrder
    <3>3. replaced' \in 0..MaxSessions /\ replaced' <= value
      BY <3>1, <3>2, StoreNumbers
    <3>4. file' \in {file, NoSession} /\ refused' \subseteq Stores
      BY <1>0, <2>2 DEF StoreTypeOK, UnlinkOlder, Unlinked, UnlinkFails, Stores
    <3>5. QED
      BY <1>0, <3>1, <3>3, <3>4 DEF StoreTypeOK, InOrder
  <2>3. CASE ForgetOlder
    BY <1>0, <2>3 DEF StoreTypeOK, InOrder, ForgetOlder, Deletion, Stores
  <2>4. CASE WriteFile
    <3>1. value \in Sessions
      BY <1>0, <2>4, StoreNumbers DEF InOrder, WriteFile, Sessions
    <3>2. /\ step = "write" /\ step' = "idle" /\ UNCHANGED <<keyring, value>>
          /\ replaced' \in {replaced, value - 1}
          /\ file' \in {file, value} /\ refused' \subseteq refused
      BY <2>4 DEF WriteFile
    <3>3. replaced < value
      BY <1>0, <3>2 DEF InOrder
    <3>4. replaced' \in 0..MaxSessions /\ replaced' <= value
      BY <3>2, <3>3, StoreNumbers
    <3>5. QED
      BY <1>0, <3>1, <3>2, <3>4 DEF StoreTypeOK, InOrder
  <2>5. CASE BeginClear \/ DeleteItem
    BY <1>0, <2>5 DEF StoreTypeOK, InOrder, BeginClear, DeleteItem, Deletion, Stores
  <2>6. CASE RemoveFile
    <3>1. /\ step = "remove" /\ step' = "idle" /\ UNCHANGED <<keyring, value>>
          /\ replaced' \in {replaced, value}
      BY <2>6 DEF RemoveFile
    <3>2. replaced' \in 0..MaxSessions /\ replaced' <= value
      BY <3>1, StoreNumbers
    <3>3. file' \in {file, NoSession} /\ refused' \subseteq Stores
      BY <1>0, <2>6 DEF StoreTypeOK, RemoveFile, Unlinked, UnlinkFails, Stores
    <3>4. QED
      BY <1>0, <3>1, <3>2, <3>3 DEF StoreTypeOK, InOrder
  <2>7. CASE KilledInStore
    BY <1>0, <2>7 DEF StoreTypeOK, InOrder, KilledInStore
  <2>8. QED
    BY <2>1, <2>2, <2>3, <2>4, <2>5, <2>6, <2>7 DEF StoreStep
<1>2. OlderIsRefused'
  <2>0. /\ Older(keyring) => "keyring" \in refused
        /\ Older(file) => "file" \in refused
        /\ step = "unlink" => keyring = value
        /\ step \in {"write", "remove"} => keyring = NoSession \/ "keyring" \in refused
    BY <1>0, OlderIs
  <2>1. CASE KeyringAccepts \/ KeyringRefuses
    <3>1. ~Older(value)
      BY <1>0, <2>1, StoreNumbers DEF InOrder, KeyringAccepts, KeyringRefuses
    <3>2. QED
      BY <2>0, <2>1, <3>1
         DEF OlderIsRefused, Stores, LoadsFrom, Older, KeyringAccepts, KeyringRefuses
  <2>2. CASE UnlinkOlder
    <3>1. /\ replaced' = value - 1 /\ keyring' = value /\ step' = "idle"
          /\ "file" \in refused' \/ file' = NoSession
      BY <2>0, <2>2 DEF UnlinkOlder, Unlinked, UnlinkFails
    <3>2. ~(value <= value - 1)
      BY StoreNumbers
    <3>3. QED
      BY <3>1, <3>2 DEF OlderIsRefused, Stores, LoadsFrom, Older
  <2>3. CASE ForgetOlder \/ DeleteItem
    BY <2>0, <2>3
       DEF OlderIsRefused, Stores, LoadsFrom, Older, ForgetOlder, DeleteItem, Deletion
  <2>4. CASE WriteFile
    <3>1. ~(value <= value - 1)
      BY StoreNumbers
    <3>2. CASE file' = value /\ replaced' = value - 1 /\ refused' = refused \ {"file"}
      BY <2>0, <2>4, <3>1, <3>2 DEF OlderIsRefused, Stores, LoadsFrom, Older, WriteFile
    <3>3. CASE UNCHANGED <<file, replaced, refused>>
      BY <2>0, <2>4, <3>3 DEF OlderIsRefused, Stores, LoadsFrom, Older, WriteFile
    <3>4. QED
      BY <2>4, <3>2, <3>3 DEF WriteFile
  <2>5. CASE BeginClear \/ KilledInStore
    BY <2>0, <2>5
       DEF OlderIsRefused, Stores, LoadsFrom, Older, BeginClear, KilledInStore
  <2>6. CASE RemoveFile
    BY <2>0, <2>6
       DEF OlderIsRefused, Stores, LoadsFrom, Older, RemoveFile, Unlinked, UnlinkFails
  <2>7. QED
    BY <2>1, <2>2, <2>3, <2>4, <2>5, <2>6 DEF StoreStep
<1>3. QED
  BY <1>1, <1>2 DEF SignedIn

-----------------------------------------------------------------------------
(* Connection: one call *)

\* The call in progress, and what it may have sent.
LEMMA CallIs ==
    ASSUME Requested, call # NoCall
    PROVE  /\ call \in Calls
           /\ MaxRetries \in Nat /\ MaxRedirects \in Nat
           /\ call.attempt \in Nat /\ call.attempt <= MaxRetries
           /\ call.redirects \in Nat /\ call.redirects <= MaxRedirects
           /\ sent \in Nat /\ sent + 1 <= call.attempt + call.redirects /\ sent < Limit
           /\ Transmit => sent' = sent + 1
<1>1. call \in Calls /\ sent \in 0..(Limit + 1)
  BY DEF Requested, RequestTypeOK
<1>2. MaxRetries \in Nat /\ MaxRedirects \in Nat
  BY RequestAssumption
<1>3. /\ call.attempt \in 1..MaxRetries /\ call.redirects \in 0..MaxRedirects
  BY <1>1 DEF Calls
<1>4. sent + 1 <= call.attempt + call.redirects
  BY DEF Requested, Accounted
<1>5. sent \in Nat /\ sent < Limit
  BY <1>1, <1>2, <1>3, <1>4 DEF Limit
<1>6. Transmit => sent' = sent + 1
  BY <1>2, <1>5 DEF Transmit, Limit
<1>7. QED
  BY <1>1, <1>2, <1>3, <1>4, <1>5, <1>6

LEMMA EnterKeeps ==
    ASSUME Requested, NEW kind \in Kinds, NEW target \in Targets, Enter(kind, target)
    PROVE  Requested'
<1>1. MaxRetries \in Nat \ {0} /\ MaxRedirects \in Nat
  BY RequestAssumption
<1>2. /\ call' \in Calls /\ call'.attempt = 1 /\ call'.redirects = 0
      /\ sent' = 0 /\ result' \in Results
  BY <1>1 DEF Enter, Calls, Results
<1>3. RequestTypeOK'
  BY <1>1, <1>2 DEF RequestTypeOK, Limit
<1>4. Accounted'
  BY <1>1, <1>2 DEF Accounted, Limit
<1>5. QED
  BY <1>3, <1>4 DEF Requested

LEMMA RespondKeeps ==
    ASSUME Requested, NEW works \in BOOLEAN, Respond(works)
    PROVE  Requested'
<1>0. call # NoCall /\ Transmit
  BY DEF Respond
<1>1. /\ call \in Calls
      /\ MaxRetries \in Nat /\ MaxRedirects \in Nat
      /\ call.attempt \in Nat /\ call.attempt <= MaxRetries
      /\ call.redirects \in Nat /\ call.redirects <= MaxRedirects
      /\ sent \in Nat /\ sent + 1 <= call.attempt + call.redirects /\ sent < Limit
      /\ sent' = sent + 1
  BY <1>0, CallIs
<1>2. sent' <= Limit /\ sent' \in 0..(Limit + 1)
  BY <1>1 DEF Limit
<1>3. CASE \E how \in Results : End(how)
  BY <1>2, <1>3 DEF Requested, RequestTypeOK, Accounted, End
<1>4. CASE /\ call.kind = "get" /\ call.attempt < MaxRetries
           /\ call' = [call EXCEPT !.attempt = @ + 1] /\ UNCHANGED result
  <2>1. /\ call' \in Calls /\ call'.kind = "get"
        /\ call'.attempt = call.attempt + 1 /\ call'.redirects = call.redirects
    BY <1>1, <1>4 DEF Calls
  <2>2. sent' + 1 <= call'.attempt + call'.redirects
    BY <1>1, <2>1
  <2>3. QED
    BY <1>2, <1>4, <2>1, <2>2 DEF Requested, RequestTypeOK, Accounted
<1>5. CASE /\ call.kind = "get" /\ call.redirects # MaxRedirects
           /\ \E location \in Targets :
                 call' = [call EXCEPT !.target = location,
                                      !.visited = @ \cup {location},
                                      !.redirects = @ + 1]
           /\ UNCHANGED result
  <2>1. PICK location \in Targets :
                 call' = [call EXCEPT !.target = location,
                                      !.visited = @ \cup {location},
                                      !.redirects = @ + 1]
    BY <1>5
  <2>2. /\ call' \in Calls /\ call'.kind = "get"
        /\ call'.attempt = call.attempt /\ call'.redirects = call.redirects + 1
    <3>1. call.redirects + 1 \in 0..MaxRedirects
      BY <1>1, <1>5
    <3>2. call.visited \cup {location} \in SUBSET Targets
      BY <1>1 DEF Calls
    <3>3. QED
      BY <1>1, <1>5, <2>1, <3>1, <3>2 DEF Calls
  <2>3. sent' + 1 <= call'.attempt + call'.redirects
    BY <1>1, <2>2
  <2>4. QED
    BY <1>2, <1>5, <2>2, <2>3 DEF Requested, RequestTypeOK, Accounted
<1>6. QED
  BY <1>3, <1>4, <1>5 DEF Respond, Retry, Retryable, Follow, Fails, Results

-----------------------------------------------------------------------------
(* Connection: every step *)

LEMMA ConnectionInvInit == ConnectionInit => ConnectionInv
<1> SUFFICES ASSUME ConnectionInit PROVE ConnectionInv
  OBVIOUS
<1>1. SignedIn
  BY SessionsAssumption
     DEF ConnectionInit, StoreInit, SignedIn, StoreTypeOK, InOrder, OlderIsRefused,
         Older, LoadsFrom, Stores
<1>2. Requested
  BY RequestAssumption
     DEF ConnectionInit, RequestInit, Requested, RequestTypeOK, Accounted, Limit, Results
<1>3. Commanded
  BY DEF ConnectionInit, Commanded
<1>4. QED
  BY <1>1, <1>2, <1>3 DEF ConnectionInv

\* The command in the other terminal does not touch the store.
LEMMA SignedInStays ==
    ASSUME SignedIn, UNCHANGED <<storeVars, harvested, pending>>
    PROVE  SignedIn'
BY DEF SignedIn, storeVars, StoreTypeOK, InOrder, OlderIsRefused, Older, LoadsFrom

LEMMA RequestedStays ==
    ASSUME Requested, UNCHANGED requestVars
    PROVE  Requested'
BY DEF Requested, requestVars, RequestTypeOK, Accounted

LEMMA AuthKeeps ==
    /\ ConnectionInv
    /\ \/ BrowserSignIn \/ Paste \/ Verified \/ NotVerified \/ StoreContinues \/ Expire
    => ConnectionInv'
<1> SUFFICES ASSUME ConnectionInv,
                    \/ BrowserSignIn \/ Paste \/ Verified \/ NotVerified
                    \/ StoreContinues \/ Expire
             PROVE  ConnectionInv'
  OBVIOUS
<1>0. /\ SignedIn /\ StoreTypeOK /\ InOrder
      /\ expired \in Nat /\ expired <= harvested
      /\ MaxSessions \in Nat /\ harvested \in Nat /\ harvested <= MaxSessions
      /\ value \in Nat /\ value <= harvested /\ pending \in Nat
  BY StoreNumbers DEF ConnectionInv, SignedIn, Commanded
<1>1. UNCHANGED requestVars /\ UNCHANGED commandVars
  BY DEF BrowserSignIn, Paste, Verified, NotVerified, StoreContinues, Expire
<1>2. Requested'
  BY <1>1, RequestedStays DEF ConnectionInv
<1>3. Commanded'
  <2>1. expired' \in 0..harvested'
    BY <1>0 DEF BrowserSignIn, Paste, Verified, NotVerified, StoreContinues, Expire
  <2>2. QED
    BY <1>1, <2>1 DEF ConnectionInv, Commanded, commandVars
<1>4. SignedIn'
  <2>1. CASE BrowserSignIn
    <3>1. /\ step = "idle" /\ harvested' = harvested + 1 /\ harvested < MaxSessions
          /\ BeginStore(harvested + 1) /\ pending' = 0
      BY <2>1 DEF BrowserSignIn, CanSignIn
    <3>2. harvested + 1 \in Sessions /\ value < harvested + 1
      BY <1>0, <3>1 DEF Sessions
    <3>3. QED
      BY <1>0, <3>1, <3>2, BeginStoreKeeps
  <2>2. CASE Paste
    <3>1. /\ step = "idle" /\ harvested' = harvested + 1 /\ harvested < MaxSessions
          /\ pending' = harvested + 1 /\ UNCHANGED storeVars
      BY <2>2 DEF Paste, CanSignIn
    <3>2. StoreTypeOK' /\ OlderIsRefused'
      BY <3>1 DEF ConnectionInv, SignedIn, StoreTypeOK, OlderIsRefused, Older, LoadsFrom,
                  storeVars
    <3>3. InOrder'
      BY <1>0, <3>1 DEF InOrder, storeVars
    <3>4. QED
      BY <1>0, <3>1, <3>2, <3>3 DEF SignedIn
  <2>3. CASE Verified
    <3>1. /\ pending # 0 /\ BeginStore(pending) /\ pending' = 0
          /\ harvested' = harvested
      BY <2>3 DEF Verified
    <3>2. pending = harvested /\ value < pending /\ step = "idle"
      BY <1>0, <3>1 DEF InOrder
    <3>3. pending \in Sessions
      BY <1>0, <3>1, <3>2 DEF Sessions
    <3>4. QED
      BY <1>0, <3>1, <3>2, <3>3, BeginStoreKeeps
  <2>4. CASE NotVerified
    <3>1. pending' = 0 /\ UNCHANGED <<storeVars, harvested>>
      BY <2>4 DEF NotVerified
    <3>2. StoreTypeOK' /\ OlderIsRefused' /\ InOrder'
      BY <1>0, <3>1 DEF SignedIn, storeVars, StoreTypeOK, InOrder, OlderIsRefused, Older,
                        LoadsFrom
    <3>3. harvested' \in 0..MaxSessions /\ pending' \in 0..harvested'
      BY <1>0, <3>1
    <3>4. QED
      BY <3>2, <3>3 DEF SignedIn
  <2>5. CASE StoreContinues
    BY <1>0, <2>5, StoreStepKeeps DEF StoreContinues
  <2>6. CASE Expire
    BY <1>0, <2>6, SignedInStays DEF Expire
  <2>7. QED
    BY <2>1, <2>2, <2>3, <2>4, <2>5, <2>6
<1>5. QED
  BY <1>2, <1>3, <1>4 DEF ConnectionInv

LEMMA CommandKeeps ==
    ConnectionInv /\ (Open \/ CommandStep \/ KilledCommand) => ConnectionInv'
<1> SUFFICES ASSUME ConnectionInv, Open \/ CommandStep \/ KilledCommand
             PROVE  ConnectionInv'
  OBVIOUS
<1>0. SignedIn /\ Requested /\ Commanded
  BY DEF ConnectionInv
<1>1. UNCHANGED <<storeVars, harvested, pending, expired>>
  BY DEF Open, CommandStep, CallStarts, CallContinues, Advance, ReadPage, Stop, KilledCommand
<1>2. SignedIn'
  BY <1>0, <1>1, SignedInStays
<1>3. Requested'
  <2>1. CASE CallStarts
    <3>1. PICK kind \in KindsOf(stage), target \in Targets : Enter(kind, target)
      BY <2>1 DEF CallStarts
    <3>2. kind \in Kinds
      BY DEF KindsOf, Kinds
    <3>3. QED
      BY <1>0, <3>1, <3>2, EnterKeeps
  <2>2. CASE CallContinues
    <3>1. (using > expired) \in BOOLEAN
      OBVIOUS
    <3>2. QED
      BY <1>0, <2>2, <3>1, RespondKeeps DEF CallContinues
  <2>3. CASE Open \/ Advance \/ ReadPage \/ Stop
    <3>1. UNCHANGED <<call, sent>> /\ result' \in {result, "none"}
      BY <2>3 DEF Open, Advance, ReadPage, Page, Stop, Leave, requestVars
    <3>2. QED
      BY <1>0, <3>1 DEF Requested, RequestTypeOK, Accounted, Results
  <2>4. CASE KilledCommand
    BY <1>0, <2>4 DEF Requested, RequestTypeOK, Accounted, KilledCommand
  <2>5. QED
    BY <2>1, <2>2, <2>3, <2>4 DEF CommandStep
<1>4. Commanded'
  <2>1. CASE Open
    <3>1. Loads \ {NoSession} \subseteq Sessions
      BY <1>0 DEF Loads, LoadsFrom, SignedIn, StoreTypeOK
    <3>2. using' \in Sessions /\ stage' \in CallStages /\ seen' = {}
      BY <2>1, <3>1 DEF Open, CallStages
    <3>3. QED
      BY <1>0, <1>1, <3>2 DEF Commanded
  <2>2. CASE CallStarts \/ CallContinues
    BY <1>0, <1>1, <2>2 DEF Commanded, CallStarts, CallContinues, commandVars
  <2>3. CASE Advance
    BY <1>0, <1>1, <2>3 DEF Commanded, Advance, CallStages
  <2>4. CASE ReadPage
    <3>1. PICK next \in Bookmarks \cup {LastPage} : Page(next)
      BY <2>4 DEF ReadPage
    <3>2. \/ Leave
          \/ next \in Bookmarks /\ seen' = seen \cup {next} /\ UNCHANGED <<stage, using>>
      BY <3>1 DEF Page
    <3>3. QED
      BY <1>0, <1>1, <3>2 DEF Commanded, Leave
  <2>5. CASE Stop \/ KilledCommand
    BY <1>0, <1>1, <2>5 DEF Commanded, Stop, KilledCommand, Leave
  <2>6. QED
    BY <2>1, <2>2, <2>3, <2>4, <2>5 DEF CommandStep
<1>5. QED
  BY <1>2, <1>3, <1>4 DEF ConnectionInv

LEMMA ConnectionInvNext ==
    ConnectionInv /\ [ConnectionNext]_connectionVars => ConnectionInv'
<1> SUFFICES ASSUME ConnectionInv, [ConnectionNext]_connectionVars PROVE ConnectionInv'
  OBVIOUS
<1>1. CASE \/ BrowserSignIn \/ Paste \/ Verified \/ NotVerified \/ StoreContinues \/ Expire
  BY <1>1, AuthKeeps
<1>2. CASE Open \/ CommandStep \/ KilledCommand
  BY <1>2, CommandKeeps
<1>3. CASE UNCHANGED connectionVars
  <2>1. SignedIn' /\ Requested'
    BY <1>3, SignedInStays, RequestedStays DEF ConnectionInv, connectionVars
  <2>2. Commanded'
    BY <1>3 DEF ConnectionInv, Commanded, connectionVars
  <2>3. QED
    BY <2>1, <2>2 DEF ConnectionInv
<1>4. QED
  BY <1>1, <1>2, <1>3 DEF ConnectionNext

LEMMA ConnectionInvAlways == ConnectionSpec => []ConnectionInv
<1>1. QED
  BY ConnectionInvInit, ConnectionInvNext, PTL DEF ConnectionSpec

-----------------------------------------------------------------------------
(* Connection: the theorems *)

\* The store, the call in progress and the command stay in their sets.
THEOREM ConnectionTypeCorrect == ConnectionSpec => []ConnectionTypeOK
<1>1. ConnectionInv => ConnectionTypeOK
  BY DEF ConnectionInv, SignedIn, Requested, Commanded, ConnectionTypeOK
<1>2. QED
  BY <1>1, ConnectionInvAlways, PTL

\* No load brings back a session that was replaced or cleared, unless the
\* removal of that copy was refused, for any number of sign-ins.
THEOREM LoadIsNewestAlways == ConnectionSpec => []LoadIsNewest
<1>1. ConnectionInv => LoadIsNewest
  BY DEF ConnectionInv, SignedIn, OlderIsRefused, LoadIsNewest
<1>2. QED
  BY <1>1, ConnectionInvAlways, PTL

\* A call that changes LEARN sends one request, and a GET no more than its
\* attempts and redirects, for any number of each.
THEOREM RequestsAreBoundedAlways == ConnectionSpec => []RequestsAreBounded
<1>1. ConnectionInv => RequestsAreBounded
  BY DEF ConnectionInv, Requested, Accounted, RequestsAreBounded
<1>2. QED
  BY <1>1, ConnectionInvAlways, PTL

-----------------------------------------------------------------------------
(* Purge: the inductive invariant *)

NamedRow(f) == \E x \in disk \cap Rows : f \in NamedBy(x)

\* Whatever is on the disk can be found by an inventory, is being removed, or
\* was left without a trace.
Traced ==
    /\ \A f \in disk \cap Files : f \in forgotten \cup todo \/ NamedRow(f)
    /\ \A x \in disk \cap Parts :
          x \in forgotten \cup todo \/ <<x[1], "revision.json">> \in disk

\* What the confirmation has settled about what there was, until the end.
Applied ==
    /\ at # "apply" => todo = {}
    /\ at = "apply" =>
        /\ todo \subseteq shown
        /\ disk \cap Sensitive(category) \subseteq todo \cup written \cup forgotten
        /\ \A x \in payload : KindOf[x[2]] # category
        /\ \A x \in disk \cap Rows :
              x[1] \in Rewritten(todo) => x \in payload \cup todo \cup written
        /\ \A x \in disk \cap Parts :
              <<x[1], "revision.json">> \in todo => x \in todo \cup forgotten
        /\ \A x \in todo \cap Rows :
              disk \cap NamedBy(x) \subseteq todo \cup written \cup forgotten

PurgeInv == TypeOK /\ Traced /\ Applied /\ CompleteIsGone

-----------------------------------------------------------------------------
(* Purge: lemmas *)

LEMMA RowIs ==
    ASSUME NEW x \in Rows
    PROVE  /\ x[1] \in Docs /\ x[2] \in Records /\ x[2] \in Holds[x[1]]
           /\ x = <<x[1], x[2]>>
           /\ x \notin Parts /\ x \notin Places /\ x \notin Files /\ x \notin Maps
           /\ x # Folder /\ x # Note /\ x \in Things
           /\ NamedBy(x) \subseteq Files
<1>1. PICK d \in Docs, r \in Records : r \in Holds[d] /\ x = <<d, r>>
  BY PurgeAssumption DEF Rows
<1>2. r \in Records
  BY <1>1
<1>3. x[1] = d /\ x[2] = r
  BY <1>1
<1>4. x \notin Parts
  BY <1>3, ThingsAssumption DEF Parts
<1>5. NamedBy(x) \subseteq Files
  BY <1>2, <1>3, PurgeAssumption DEF NamedBy
<1>6. x \notin Maps
  BY PurgeAssumption, ThingsAssumption
<1>7. QED
  BY <1>1, <1>2, <1>3, <1>4, <1>5, <1>6, ThingsAssumption DEF Things

LEMMA PartIs ==
    ASSUME NEW x \in Parts
    PROVE  /\ x[1] \in Revisions /\ <<x[1], "revision.json">> \in Parts
           /\ x \notin Rows /\ x \notin Places /\ x \notin Files /\ x \notin Maps
           /\ x # Folder /\ x # Note /\ x \in Things
<1>1. x[1] \in Revisions
  BY DEF Parts
<1>2. x \notin Rows
  BY RowIs
<1>3. x \notin Maps
  BY PurgeAssumption, ThingsAssumption
<1>4. QED
  BY <1>1, <1>2, <1>3, ThingsAssumption DEF Parts, Things

LEMMA FileIs ==
    ASSUME NEW x \in Places \cup Files
    PROVE  /\ x \notin Rows /\ x \notin Parts /\ x # Folder /\ x # Note
           /\ x \in Places => x \notin Files
           /\ x \notin Maps /\ x \in Things
BY PurgeAssumption, ThingsAssumption DEF Things

\* The category of a file is that of each record that names it.
LEMMA SensitiveIs ==
    ASSUME NEW c \in Categories
    PROVE  /\ Sensitive(c) \subseteq Rows \cup Places \cup Files \cup Parts
           /\ \A x \in Rows : x \in Sensitive(c) <=> KindOf[x[2]] = c
           /\ \A x \in Parts : x \in Sensitive(c) <=> KindOf[x[1]] = c
           /\ \A x \in Places : x \in Sensitive(c) <=> KindOf[x] = c
           /\ \A f \in Files, x \in Rows :
                 f \in Sensitive(c) /\ f \in NamedBy(x) => KindOf[x[2]] = c
<1>1. Sensitive(c) \subseteq Rows \cup Places \cup Files \cup Parts
  BY DEF Sensitive
<1>2. \A x \in Rows : x \in Sensitive(c) <=> KindOf[x[2]] = c
  BY RowIs DEF Sensitive
<1>3. \A x \in Parts : x \in Sensitive(c) <=> KindOf[x[1]] = c
  BY PartIs DEF Sensitive
<1>4. \A x \in Places : x \in Sensitive(c) <=> KindOf[x] = c
  BY FileIs DEF Sensitive
<1>5. ASSUME NEW f \in Files, NEW x \in Rows, f \in Sensitive(c), f \in NamedBy(x)
      PROVE  KindOf[x[2]] = c
  <2>1. PICK r \in Records : f \in Names[r] /\ KindOf[r] = c
    BY <1>5, FileIs, PartIs, RowIs DEF Sensitive
  <2>2. x[2] \in Records /\ f \in Names[x[2]]
    BY <1>5, RowIs DEF NamedBy
  <2>3. Names[r] \cap Names[x[2]] # {}
    BY <2>1, <2>2
  <2>4. KindOf[r] = KindOf[x[2]]
    BY <2>1, <2>2, <2>3, KindsAssumption
  <2>5. QED
    BY <2>1, <2>4
<1>6. QED
  BY <1>1, <1>2, <1>3, <1>4, <1>5

\* Only the logs are logs.
LEMMA LogsAre ==
    /\ \A r \in Records \cup Revisions :
          KindOf[r] # "logs"
    /\ \A p \in Places : KindOf[p] = "logs" <=> p \in Logs
BY PurgeAssumption, KindsAssumption, ThingsAssumption DEF Places

\* An inventory of what can be found: it misses what left no trace, and what it
\* does not look for.
LEMMA PlanIs ==
    ASSUME TypeOK, NEW c \in Categories
    PROVE  /\ Plan(c) \subseteq disk /\ Plan(c) \subseteq Things
           /\ \A x \in Plan(c) \cap Rows :
                 disk \cap NamedBy(x) \subseteq Plan(c) \cup Missed(c)
           /\ Missed(c) \subseteq Files \cup CourseFiles
           /\ \A x \in Plan(c) \cap Parts, y \in disk \cap Parts :
                 y[1] = x[1] => y \in Plan(c)
           /\ Traced /\ todo = {} =>
                 disk \cap Sensitive(c) \subseteq Plan(c) \cup forgotten \cup Missed(c)
<1>1. disk \subseteq Things
  BY DEF TypeOK
<1>2. Plan(c) \subseteq disk
  BY DEF Plan, RotatingLogs, Owned, Projections, PrivateFiles, Existing, Archived, Emptied
<1>3. ASSUME NEW x \in Plan(c) \cap Rows
      PROVE  disk \cap NamedBy(x) \subseteq Plan(c) \cup Missed(c)
  <2>1. x \notin RotatingLogs
    BY <1>3, RowIs DEF RotatingLogs, Places
  <2>2. c # "logs"
    BY <1>3, <2>1 DEF Plan
  <2>3. /\ x \notin Projections(c) /\ x \notin PrivateFiles(c) /\ x \notin Existing(Named(c))
        /\ x \notin Archived(c) /\ x \notin Emptied(c)
    <3>1. x \in Rows
      BY <1>3
    <3>2. x \notin Files /\ x \notin Places /\ x \notin Parts /\ x # Folder
      BY <3>1, RowIs
    <3>3. Named(c) \subseteq Files
      BY RowIs DEF Named, Owned
    <3>4. QED
      BY <3>2, <3>3
         DEF Projections, PrivateFiles, Existing, Archived, Emptied, Places
  <2>4. x \in Owned(c)
    BY <1>3, <2>2, <2>3 DEF Plan
  <2>5. QED
    BY <2>2, <2>4 DEF Plan, Existing, Missed
<1>4. ASSUME NEW x \in Plan(c) \cap Parts, NEW y \in disk \cap Parts, y[1] = x[1]
      PROVE  y \in Plan(c)
  <2>1. x \notin Files /\ x \notin Places /\ x \notin Rows /\ x # Folder
    BY <1>4, PartIs
  <2>2. Named(c) \subseteq Files
    BY RowIs DEF Named, Owned
  <2>3. x \in Archived(c) /\ c # "logs"
    BY <1>4, <2>1, <2>2
       DEF Plan, RotatingLogs, Owned, Projections, PrivateFiles, Existing, Emptied, Places
  <2>4. QED
    BY <1>4, <2>3 DEF Plan, Archived
<1>5. ASSUME Traced, todo = {}, NEW x \in disk \cap Sensitive(c), x \notin forgotten,
             x \notin Missed(c)
      PROVE  x \in Plan(c)
  <2>1. CASE x \in Rows
    <3>1. KindOf[x[2]] = c /\ x[2] \in Records
      BY <1>5, <2>1, SensitiveIs, RowIs
    <3>2. c # "logs"
      BY <3>1, LogsAre
    <3>3. QED
      BY <1>5, <2>1, <3>1, <3>2 DEF Plan, Owned
  <2>2. CASE x \in Parts
    <3>1. KindOf[x[1]] = c /\ x[1] \in Revisions
      BY <1>5, <2>2, SensitiveIs, PartIs
    <3>2. c # "logs"
      BY <3>1, LogsAre
    <3>3. <<x[1], "revision.json">> \in disk
      BY <1>5, <2>2 DEF Traced
    <3>4. QED
      BY <1>5, <2>2, <3>1, <3>2, <3>3 DEF Plan, Archived
  <2>3. CASE x \in Places
    <3>1. KindOf[x] = c
      BY <1>5, <2>3, SensitiveIs
    <3>2. c = "logs" <=> x \in Logs
      BY <2>3, <3>1, LogsAre
    <3>3. QED
      BY <1>5, <2>3, <3>1, <3>2
         DEF Plan, RotatingLogs, Projections, PrivateFiles, Places, Missed
  <2>4. CASE x \in Files
    <3>1. PICK y \in disk \cap Rows : x \in NamedBy(y)
      BY <1>5, <2>4 DEF Traced, NamedRow
    <3>2. KindOf[y[2]] = c /\ y[2] \in Records
      BY <1>5, <2>4, <3>1, SensitiveIs, RowIs
    <3>3. c # "logs"
      BY <3>2, LogsAre
    <3>4. x \in Named(c)
      BY <1>5, <3>1, <3>2 DEF Missed, Owned
    <3>5. QED
      BY <1>5, <3>3, <3>4 DEF Plan, Existing
  <2>5. QED
    BY <1>5, <2>1, <2>2, <2>3, <2>4, SensitiveIs
<1>6. Missed(c) \subseteq Files \cup CourseFiles
  <2>1. Named(c) \subseteq Files /\ UNION {NamedBy(x) : x \in Owned(c)} \subseteq Files
    BY RowIs DEF Named, Owned
  <2>2. QED
    BY <2>1 DEF Missed
<1>7. QED
  BY <1>1, <1>2, <1>3, <1>4, <1>5, <1>6

-----------------------------------------------------------------------------
(* Purge: the invariant holds, action by action *)

LEMMA PurgeInvInit == Init => PurgeInv
<1> SUFFICES ASSUME Init PROVE PurgeInv
  OBVIOUS
<1>1. TypeOK
  BY PurgeAssumption DEF Init, TypeOK
<1>2. ASSUME NEW f \in disk \cap Files
      PROVE  NamedRow(f)
  <2>1. PICK d \in Docs \ Copies, r \in Records : r \in Holds[d] /\ f \in Names[r]
    <3>1. \A d \in Docs \ Copies : Holds[d] \subseteq Records
      BY PurgeAssumption
    <3>2. QED
      BY <3>1, KindsAssumption
  <2>2. <<d, r>> \in Rows
    BY <2>1 DEF Rows
  <2>3. <<d, r>> \notin Copies
    BY <2>2, RowIs, PurgeAssumption, ThingsAssumption DEF Places
  <2>4. <<d, r>> \in disk
    <3>1. <<d, r>>[1] \notin Copies
      BY <2>1
    <3>2. <<d, r>> \in Things \ {Note}
      BY <2>2, RowIs
    <3>3. QED
      BY <2>3, <3>1, <3>2 DEF Init
  <2>5. f \in NamedBy(<<d, r>>)
    BY <2>1 DEF NamedBy
  <2>6. QED
    BY <2>2, <2>4, <2>5 DEF NamedRow
<1>3. ASSUME NEW x \in disk \cap Parts
      PROVE  <<x[1], "revision.json">> \in disk
  <2> DEFINE j == <<x[1], "revision.json">>
  <2>1. j \in Parts
    BY PartIs
  <2>2. j \notin Rows /\ j \in Things \ {Note} /\ j \notin Places
    BY <2>1, PartIs
  <2>3. j \notin Copies
    BY <2>1, <2>2, PurgeAssumption, ThingsAssumption DEF Places
  <2>4. QED
    BY <2>2, <2>3 DEF Init
<1>4. Traced
  BY <1>2, <1>3 DEF Traced
<1>5. Applied /\ CompleteIsGone
  BY DEF Init, Applied, CompleteIsGone
<1>6. QED
  BY <1>1, <1>4, <1>5 DEF PurgeInv

\* What the steps of Write write are things, and so on: types.
LEMMA PurgeTyped ==
    ASSUME TypeOK, [Next]_vars
    PROVE  TypeOK'
<1> USE PurgeAssumption
<1>1. CASE Preview
  <2>1. /\ Plan(category') \subseteq Things
        /\ Missed(category') \subseteq Files \cup CourseFiles
    <3>1. ASSUME NEW c \in Categories
          PROVE  Plan(c) \subseteq Things /\ Missed(c) \subseteq Files \cup CourseFiles
      BY PlanIs
    <3>2. QED
      BY <1>1, <3>1 DEF Preview
  <2>2. QED
    BY <1>1, <2>1 DEF Preview, TypeOK, bounds
<1>2. CASE Decline \/ RefuseStale \/ Finish \/ Exit
  BY <1>2 DEF Decline, RefuseStale, Finish, Exit, TypeOK, plan, bounds
<1>3. CASE Confirm
  <2>1. /\ Plan(category) \subseteq Things
        /\ Missed(category) \subseteq Files \cup CourseFiles
    BY PlanIs DEF TypeOK
  <2>2. Scrubbed(Plan(category)) \subseteq Rows
    BY DEF Scrubbed
  <2>3. QED
    BY <1>3, <2>1, <2>2 DEF Confirm, Apply, TypeOK, bounds
<1>4. ASSUME NEW d \in Docs, Rewrite(d)
      PROVE  TypeOK'
  <2>1. RowsOf(d) \subseteq Rows /\ Rows \subseteq Things
    BY DEF RowsOf, Things
  <2>2. Orphans(d, disk') \subseteq Files
    BY DEF Orphans, Unnamed
  <2>3. QED
    BY <1>4, <2>1, <2>2 DEF Rewrite, TypeOK, bounds
<1>5. CASE (\E x \in Parts : RemovePart(x)) \/ (\E f \in Places \cup Files : Unlink(f))
           \/ RemoveFolder
  BY <1>5 DEF RemovePart, Unlink, RemoveFolder, TypeOK, bounds
<1>6. CASE RemovalFails \/ Interrupted
  <2>1. Abandon /\ (UNCHANGED faults \/ Fault)
    BY <1>6 DEF RemovalFails, Interrupted
  <2>2. Stranded \subseteq Files \cup Parts
    BY DEF Stranded, Unnamed
  <2>3. faults' \in 0..MaxFaults
    BY <2>1 DEF TypeOK, Fault
  <2>4. QED
    BY <2>1, <2>2, <2>3 DEF Abandon, TypeOK
<1>7. ASSUME NEW new, Write(new), new \subseteq Things
      PROVE  TypeOK'
  <2>1. writes' \in 0..MaxWrites
    BY <1>7 DEF Write, TypeOK
  <2>2. QED
    BY <1>7, <2>1 DEF Write, TypeOK, plan
<1>8. ASSUME NEW p \in Places, Capture(p)
      PROVE  TypeOK'
  <2>1. {p} \cup (IF p \in Inside THEN {Folder} ELSE {}) \subseteq Things
    BY DEF Things
  <2>2. QED
    BY <1>7, <1>8, <2>1 DEF Capture
<1>9. ASSUME NEW d \in Docs, NEW r \in Records, Describe(d, r)
      PROVE  TypeOK'
  <2>1. <<d, r>> \in Rows
    BY <1>9 DEF Describe, Rows
  <2>2. {f \in Names[r] : \A e \in Docs : <<e, r>> \notin disk} \subseteq Files
    OBVIOUS
  <2>3. {<<d, r>>} \cup ({d} \cap Maps) \cup
        {f \in Names[r] : \A e \in Docs : <<e, r>> \notin disk} \subseteq Things
    BY <2>1, <2>2 DEF Things
  <2>4. QED
    BY <1>7, <1>9, <2>3 DEF Describe
<1>10. ASSUME NEW h \in Revisions, Preserve(h)
       PROVE  TypeOK'
  <2>1. {h} \X {"revision.json", "copy"} \subseteq Things
    BY DEF Parts, Things
  <2>2. QED
    BY <1>7, <1>10, <2>1 DEF Preserve
<1>11. CASE BackUp
  <2> DEFINE new == {c \in Copies \cap StateFiles : BackupOf[c] \in disk} \cup
                    {x \in Rows : x[1] \in Copies /\ <<BackupOf[x[1]], x[2]>> \in disk}
  <2>1. new \subseteq Things
    BY DEF Things, Places
  <2>2. Write(new)
    BY <1>11 DEF BackUp
  <2>3. QED
    BY <1>7, <2>1, <2>2
<1>12. CASE TakeNote
  <2>1. {Note} \subseteq Things
    BY DEF Things
  <2>2. QED
    BY <1>7, <1>12, <2>1 DEF TakeNote
<1>13. CASE Meddle
  <2>1. faults' \in 0..MaxFaults
    BY <1>13 DEF Meddle, Fault, TypeOK
  <2>2. disk' \subseteq disk /\ blocked' \subseteq Docs
    BY <1>13 DEF Meddle, TypeOK
  <2>3. forgotten' \subseteq forgotten \cup Files
    BY <1>13 DEF Meddle, Unnamed
  <2>4. QED
    BY <1>13, <2>1, <2>2, <2>3 DEF Meddle, TypeOK, plan
<1>14. CASE Repair
  BY <1>14 DEF Repair, TypeOK, plan, bounds
<1>15. CASE UNCHANGED vars
  BY <1>15 DEF vars, plan, bounds, TypeOK
<1>16. QED
  BY <1>1, <1>2, <1>3, <1>4, <1>5, <1>6, <1>8, <1>9, <1>10, <1>11, <1>12, <1>13,
     <1>14, <1>15 DEF Next

\* Nothing on the disk changes, and no removal is under way.
LEMMA IdlePreserves ==
    ASSUME PurgeInv, Decline \/ RefuseStale \/ Exit
    PROVE  Traced' /\ Applied' /\ CompleteIsGone'
<1>1. /\ UNCHANGED <<disk, todo, forgotten>> /\ todo = {} /\ at' = "idle"
  BY DEF PurgeInv, Applied, Decline, RefuseStale, Exit, plan
<1>2. Traced'
  BY <1>1 DEF PurgeInv, Traced, NamedRow, NamedBy
<1>3. QED
  BY <1>1, <1>2 DEF Applied, CompleteIsGone

LEMMA PreviewPreserves ==
    ASSUME PurgeInv, Preview
    PROVE  Traced' /\ Applied' /\ CompleteIsGone'
<1>1. /\ UNCHANGED <<disk, todo>> /\ todo = {} /\ forgotten \subseteq forgotten'
      /\ at' \in {"idle", "prompt", "nothing"}
      /\ at' = "nothing" => forgotten' = forgotten \cup Missed(category')
  BY DEF PurgeInv, Applied, Preview
<1>2. Traced'
  BY <1>1 DEF PurgeInv, Traced, NamedRow, NamedBy
<1>3. CompleteIsGone'
  <2>1. CASE at' = "nothing"
    <3>1. PICK c \in Categories : c = category'
      BY DEF Preview
    <3>2. Plan(c) = {}
      BY <2>1, <3>1 DEF Preview, Present
    <3>3. disk \cap Sensitive(c) \subseteq forgotten'
      BY <1>1, <2>1, <3>1, <3>2, PlanIs DEF PurgeInv
    <3>4. (disk \cap Sensitive(category))' = disk' \cap Sensitive(c)
      BY <3>1
    <3>5. QED
      BY <1>1, <3>3, <3>4 DEF CompleteIsGone
  <2>2. QED
    BY <1>1, <2>1 DEF CompleteIsGone
<1>4. QED
  BY <1>1, <1>2, <1>3 DEF Applied

\* The second inventory is the first: what it finds is removed, and what the
\* documents keep is not the category's.
LEMMA ConfirmPreserves ==
    ASSUME PurgeInv, Confirm
    PROVE  Traced' /\ Applied' /\ CompleteIsGone'
<1> DEFINE p == Plan(category)
<1>1. /\ TypeOK /\ Traced /\ todo = {} /\ category \in Categories
  BY DEF PurgeInv, Applied, Confirm, TypeOK
<1>2. /\ UNCHANGED <<disk, category, shown>> /\ at' = "apply"
      /\ forgotten' = (forgotten \ p) \cup Missed(category)
      /\ todo' = p /\ payload' = Scrubbed(p) /\ written' = {} /\ p = shown
  BY DEF Confirm, Agrees, Apply
<1>3. disk \cap Sensitive(category) \subseteq p \cup forgotten'
  BY <1>1, <1>2, PlanIs
<1>4. \A x \in payload' : KindOf[x[2]] # category
  <2>1. ASSUME NEW x \in disk \cap Rows, x \notin p
        PROVE  KindOf[x[2]] # category
    <3>1. x \notin Missed(category) /\ x \notin forgotten
      BY <1>1, PlanIs, RowIs, PartIs DEF TypeOK, Places
    <3>2. QED
      BY <1>1, <1>2, <1>3, <2>1, <3>1, SensitiveIs
  <2>2. QED
    BY <1>2, <2>1 DEF Scrubbed
<1>5. \A x \in disk \cap Rows : x[1] \in Rewritten(p) => x \in Scrubbed(p) \cup p
  BY DEF Scrubbed
<1>6. \A x \in disk \cap Parts : <<x[1], "revision.json">> \in p => x \in p
  <2>1. ASSUME NEW x \in disk \cap Parts, <<x[1], "revision.json">> \in p
        PROVE  x \in p
    <3>1. <<x[1], "revision.json">> \in Parts
      BY PartIs
    <3>2. x[1] = <<x[1], "revision.json">>[1]
      OBVIOUS
    <3>3. QED
      BY <1>1, <2>1, <3>1, <3>2, PlanIs
  <2>2. QED
    BY <2>1
<1>7. \A x \in p \cap Rows : disk \cap NamedBy(x) \subseteq p \cup forgotten'
  BY <1>1, <1>2, PlanIs
<1>8. Traced'
  BY <1>1, <1>2 DEF Traced, NamedRow, NamedBy
<1>9. CompleteIsGone'
  BY <1>2 DEF CompleteIsGone
<1>10. (disk \cap Sensitive(category))' = disk \cap Sensitive(category)
  BY <1>2
<1>11. Rewritten(todo)' = Rewritten(p)
  BY <1>2 DEF Rewritten
<1>12. Applied'
  BY <1>2, <1>3, <1>4, <1>5, <1>6, <1>7, <1>10, <1>11 DEF Applied, NamedBy
<1>13. QED
  BY <1>8, <1>9, <1>12

LEMMA FinishPreserves ==
    ASSUME PurgeInv, Finish
    PROVE  Traced' /\ Applied' /\ CompleteIsGone'
<1>1. /\ UNCHANGED <<disk, category, todo, written, forgotten>> /\ todo = {}
      /\ at' = "complete"
  BY DEF Finish, plan
<1>2. disk \cap Sensitive(category) \subseteq written \cup forgotten
  BY <1>1 DEF PurgeInv, Applied, Finish
<1>3. Traced'
  BY <1>1 DEF PurgeInv, Traced, NamedRow, NamedBy
<1>4. (disk \cap Sensitive(category))' = disk \cap Sensitive(category)
  BY <1>1
<1>5. QED
  BY <1>1, <1>2, <1>3, <1>4 DEF Applied, CompleteIsGone

\* A document is replaced by what the second inventory kept of it: the files
\* that lose their record by it are noted, and all others still have one.
LEMMA RewritePreserves ==
    ASSUME PurgeInv, NEW d \in Docs, Rewrite(d)
    PROVE  Traced' /\ Applied' /\ CompleteIsGone'
<1> DEFINE kept == (disk \ RowsOf(d)) \cup (payload \cap RowsOf(d))
<1>1. /\ at = "apply" /\ UNCHANGED <<at, category, shown, payload, written>>
      /\ disk' = kept /\ todo' = todo \ RowsOf(d)
      /\ forgotten' = forgotten \cup Orphans(d, kept)
  BY DEF Rewrite
<1>2. Applied /\ Traced /\ category \in Categories
  BY DEF PurgeInv, TypeOK
<1>3. RowsOf(d) \subseteq Rows /\ \A x \in Rows : x \in RowsOf(d) <=> x[1] = d
  BY DEF RowsOf
<1>4. \A x \in Files \cup Parts :
          /\ x \notin RowsOf(d)
          /\ x \in kept <=> x \in disk
          /\ x \in todo' <=> x \in todo
  BY <1>1, <1>3, RowIs, PartIs, FileIs
<1>5. Rewritten(todo') = Rewritten(todo) \ {d}
  BY <1>1, <1>3 DEF Rewritten
<1>6. \A x \in disk \cap RowsOf(d) : x \in kept \/ x \in todo \cup written
  BY <1>1, <1>2, <1>3 DEF Rewrite, Applied
<1>7. ASSUME NEW f \in (disk \cap Files) \ (todo \cup forgotten)
      PROVE  f \in Orphans(d, kept) \/ \E x \in kept \cap Rows : f \in NamedBy(x)
  <2> SUFFICES ASSUME \A x \in kept \cap Rows : f \notin NamedBy(x)
               PROVE  f \in written \/ \E x \in written \cap RowsOf(d) : f \in NamedBy(x)
    BY <1>7 DEF Orphans, Unnamed
  <2>1. PICK x \in disk \cap Rows : f \in NamedBy(x)
    BY <1>2, <1>7 DEF Traced, NamedRow
  <2>2. x \in RowsOf(d) /\ x \in todo \cup written
    BY <1>6, <2>1
  <2>3. x \in todo => f \in written
    BY <1>1, <1>2, <1>7, <2>1 DEF Applied
  <2>4. QED
    BY <2>1, <2>2, <2>3
<1>8. Traced'
  <2>1. ASSUME NEW f \in kept \cap Files
        PROVE  f \in forgotten' \cup todo' \/ \E x \in kept \cap Rows : f \in NamedBy(x)
    BY <1>1, <1>4, <1>7, <2>1
  <2>2. ASSUME NEW x \in kept \cap Parts
        PROVE  x \in forgotten' \cup todo' \/ <<x[1], "revision.json">> \in kept
    <3>1. <<x[1], "revision.json">> \in Parts
      BY PartIs
    <3>2. QED
      BY <1>1, <1>2, <1>4, <2>2, <3>1 DEF Traced
  <2>3. QED
    BY <1>1, <2>1, <2>2 DEF Traced, NamedRow, NamedBy
<1>9. kept \cap Sensitive(category) \subseteq todo' \cup written \cup forgotten
  <2>1. ASSUME NEW x \in kept \cap Sensitive(category)
        PROVE  x \in todo' \cup written \cup forgotten
    <3>1. CASE x \in payload /\ x \in Rows
      <4>1. KindOf[x[2]] # category
        BY <1>1, <1>2, <3>1 DEF Applied
      <4>2. QED
        BY <1>2, <2>1, <3>1, <4>1, SensitiveIs
    <3>2. CASE x \in disk \ RowsOf(d)
      BY <1>1, <1>2, <2>1, <3>2 DEF Applied
    <3>3. QED
      BY <1>3, <2>1, <3>1, <3>2
  <2>2. QED
    BY <2>1
<1>10. ASSUME NEW x \in kept \cap Rows, x[1] \in Rewritten(todo')
       PROVE  x \in payload \cup todo' \cup written
  <2>1. x[1] # d /\ x \notin RowsOf(d) /\ x \in disk
    BY <1>3, <1>5, <1>10
  <2>2. QED
    BY <1>1, <1>2, <1>5, <1>10, <2>1 DEF Applied
<1>11. ASSUME NEW x \in kept \cap Parts, <<x[1], "revision.json">> \in todo'
       PROVE  x \in todo' \cup forgotten'
  <2>1. <<x[1], "revision.json">> \in Parts
    BY PartIs
  <2>2. QED
    BY <1>1, <1>2, <1>4, <1>11, <2>1 DEF Applied
<1>12. \A x \in todo' \cap Rows :
          kept \cap NamedBy(x) \subseteq todo' \cup written \cup forgotten'
  <2>1. ASSUME NEW x \in todo' \cap Rows, NEW f \in kept \cap NamedBy(x)
        PROVE  f \in todo' \cup written \cup forgotten'
    <3>1. f \in Files /\ x \in todo
      BY <1>1, <2>1, RowIs
    <3>2. QED
      BY <1>1, <1>2, <1>4, <2>1, <3>1 DEF Applied
  <2>2. QED
    BY <2>1
<1>13. /\ (disk \cap Sensitive(category))' = kept \cap Sensitive(category)
       /\ Rewritten(todo)' = Rewritten(todo')
  BY <1>1 DEF Rewritten
<1>14. Applied'
  <2>1. todo' \subseteq shown' /\ \A x \in payload' : KindOf[x[2]] # category'
    BY <1>1, <1>2 DEF Applied
  <2>2. QED
    BY <1>1, <1>9, <1>10, <1>11, <1>12, <1>13, <2>1 DEF Applied, NamedBy
<1>15. QED
  BY <1>1, <1>8, <1>14 DEF CompleteIsGone

\* A part of a revision, a file or the folder goes, and is off the list.
LEMMA RemovalPreserves ==
    ASSUME PurgeInv, at = "apply", NEW x \in todo \ Rows,
           disk' = disk \ {x}, todo' = todo \ {x},
           UNCHANGED <<at, category, shown, payload, written, forgotten>>
    PROVE  Traced' /\ Applied' /\ CompleteIsGone'
<1>1. Applied /\ Traced
  BY DEF PurgeInv
<1>2. Rewritten(todo') = Rewritten(todo)
  BY DEF Rewritten
<1>3. disk' \cap Rows = disk \cap Rows
  OBVIOUS
<1>4. ASSUME NEW f \in disk' \cap Files
      PROVE  f \in forgotten \cup todo' \/ \E y \in disk' \cap Rows : f \in NamedBy(y)
  BY <1>1, <1>3 DEF Traced, NamedRow
<1>5. ASSUME NEW y \in disk' \cap Parts
      PROVE  y \in forgotten \cup todo' \/ <<y[1], "revision.json">> \in disk'
  <2>1. CASE <<y[1], "revision.json">> = x
    BY <1>1, <2>1 DEF Applied
  <2>2. CASE <<y[1], "revision.json">> # x
    BY <1>1, <2>2 DEF Traced
  <2>3. QED
    BY <2>1, <2>2
<1>6. Traced'
  BY <1>4, <1>5 DEF Traced, NamedRow, NamedBy
<1>7. disk' \cap Sensitive(category) \subseteq todo' \cup written \cup forgotten
  BY <1>1 DEF Applied
<1>8. /\ todo' \subseteq shown /\ \A y \in payload : KindOf[y[2]] # category
      /\ \A y \in disk' \cap Rows :
            y[1] \in Rewritten(todo') => y \in payload \cup todo' \cup written
      /\ \A y \in disk' \cap Parts :
            <<y[1], "revision.json">> \in todo' => y \in todo' \cup forgotten
  BY <1>1, <1>2 DEF Applied
<1>9. \A y \in todo' \cap Rows :
          disk' \cap NamedBy(y) \subseteq todo' \cup written \cup forgotten
  BY <1>1 DEF Applied
<1>10. /\ (disk \cap Sensitive(category))' = disk' \cap Sensitive(category)
       /\ Rewritten(todo)' = Rewritten(todo')
  BY DEF Rewritten
<1>11. Applied'
  BY <1>7, <1>8, <1>9, <1>10 DEF Applied, NamedBy
<1>12. QED
  BY <1>6, <1>11 DEF CompleteIsGone

\* A command that ends with work undone notes what it leaves without a trace.
LEMMA AbandonPreserves ==
    ASSUME PurgeInv, Abandon
    PROVE  Traced' /\ Applied' /\ CompleteIsGone'
<1>1. /\ UNCHANGED disk /\ todo' = {} /\ at' = "idle"
      /\ forgotten' = forgotten \cup Stranded
  BY DEF Abandon
<1>2. Traced
  BY DEF PurgeInv
<1>3. ASSUME NEW f \in disk \cap Files
      PROVE  f \in forgotten' \/ \E x \in disk \cap Rows : f \in NamedBy(x)
  <2>1. CASE f \in todo
    BY <1>1, <1>3, <2>1 DEF Stranded, Unnamed
  <2>2. CASE f \notin todo
    BY <1>1, <1>2, <1>3, <2>2 DEF Traced, NamedRow
  <2>3. QED
    BY <2>1, <2>2
<1>4. ASSUME NEW x \in disk \cap Parts
      PROVE  x \in forgotten' \/ <<x[1], "revision.json">> \in disk
  BY <1>1, <1>2, <1>4 DEF Traced, Stranded
<1>5. Traced'
  BY <1>1, <1>3, <1>4 DEF Traced, NamedRow, NamedBy
<1>6. QED
  BY <1>1, <1>5 DEF Applied, CompleteIsGone

\* What another terminal writes can be found: its files have a record, its
\* revisions are whole and none that is being removed.
LEMMA WritePreserves ==
    ASSUME PurgeInv, NEW new, Write(new),
           \A f \in new \cap Files : \E x \in new \cap Rows : f \in NamedBy(x),
           \A x \in new \cap Parts : /\ <<x[1], "revision.json">> \in new
                                     /\ <<x[1], "revision.json">> \notin todo
    PROVE  Traced' /\ Applied' /\ CompleteIsGone'
<1>1. /\ disk' = disk \cup new /\ written' = written \cup new
      /\ forgotten' = forgotten \ new
      /\ UNCHANGED <<at, category, shown, todo, payload>>
  BY DEF Write, plan
<1>2. Applied /\ Traced /\ CompleteIsGone
  BY DEF PurgeInv
<1>3. ASSUME NEW f \in disk' \cap Files
      PROVE  f \in forgotten' \cup todo \/ \E x \in disk' \cap Rows : f \in NamedBy(x)
  BY <1>1, <1>2 DEF Traced, NamedRow
<1>4. ASSUME NEW x \in disk' \cap Parts
      PROVE  x \in forgotten' \cup todo \/ <<x[1], "revision.json">> \in disk'
  BY <1>1, <1>2 DEF Traced
<1>5. Traced'
  BY <1>1, <1>3, <1>4 DEF Traced, NamedRow, NamedBy
<1>6. CASE at = "apply"
  <2>1. disk' \cap Sensitive(category) \subseteq todo \cup written' \cup forgotten'
    BY <1>1, <1>2, <1>6 DEF Applied
  <2>2. \A x \in disk' \cap Rows :
            x[1] \in Rewritten(todo) => x \in payload \cup todo \cup written'
    BY <1>1, <1>2, <1>6 DEF Applied
  <2>3. \A x \in disk' \cap Parts :
            <<x[1], "revision.json">> \in todo => x \in todo \cup forgotten'
    BY <1>1, <1>2, <1>6 DEF Applied
  <2>4. \A x \in todo \cap Rows :
            disk' \cap NamedBy(x) \subseteq todo \cup written' \cup forgotten'
    BY <1>1, <1>2, <1>6 DEF Applied
  <2>5. todo \subseteq shown /\ \A x \in payload : KindOf[x[2]] # category
    BY <1>2, <1>6 DEF Applied
  <2>6. /\ (disk \cap Sensitive(category))' = disk' \cap Sensitive(category)
        /\ Rewritten(todo)' = Rewritten(todo)
    BY <1>1 DEF Rewritten
  <2>7. Applied'
    BY <1>1, <1>6, <2>1, <2>2, <2>3, <2>4, <2>5, <2>6 DEF Applied, NamedBy
  <2>8. QED
    BY <1>1, <1>5, <1>6, <2>7 DEF CompleteIsGone
<1>7. CASE at # "apply"
  <2>1. Applied'
    BY <1>1, <1>2, <1>7 DEF Applied
  <2>2. (disk \cap Sensitive(category))' = disk' \cap Sensitive(category)
    BY <1>1
  <2>3. CompleteIsGone'
    BY <1>1, <1>2, <2>2 DEF CompleteIsGone
  <2>4. QED
    BY <1>5, <2>1, <2>3
<1>8. QED
  BY <1>6, <1>7

\* The student removes files; documents are blocked and repaired.
LEMMA StudentPreserves ==
    ASSUME PurgeInv, Meddle \/ Repair \/ UNCHANGED vars
    PROVE  Traced' /\ Applied' /\ CompleteIsGone'
<1>1. /\ UNCHANGED <<at, category, shown, todo, payload, written>>
      /\ disk' \subseteq disk /\ disk \ disk' \subseteq Places \cup Files \cup Rows \cup Maps
      /\ forgotten \subseteq forgotten'
  BY DEF Meddle, Repair, vars, plan, bounds, RowsOf
<1>2. Applied /\ Traced /\ CompleteIsGone
  BY DEF PurgeInv
<1>3. disk' \cap Parts = disk \cap Parts
  BY <1>1, PartIs
<1>4. Traced'
  <2>1. \A x \in disk' \cap Parts :
            x \in forgotten' \cup todo \/ <<x[1], "revision.json">> \in disk'
    BY <1>1, <1>2, <1>3, PartIs DEF Traced
  <2>2. ASSUME NEW f \in disk' \cap Files
        PROVE  f \in forgotten' \cup todo \/ \E x \in disk' \cap Rows : f \in NamedBy(x)
    <3>1. CASE disk' \cap Rows = disk \cap Rows
      BY <1>1, <1>2, <2>2, <3>1 DEF Traced, NamedRow
    <3>2. CASE disk' \cap Rows # disk \cap Rows
      <4>1. forgotten' = forgotten \cup ((disk' \cap Unnamed(disk')) \ todo)
        BY <3>2, RowIs DEF Meddle, Repair, vars
      <4>2. QED
        BY <2>2, <4>1 DEF Unnamed
    <3>3. QED
      BY <3>1, <3>2
  <2>3. QED
    BY <1>1, <2>1, <2>2 DEF Traced, NamedRow, NamedBy
<1>5. /\ (disk \cap Sensitive(category))' = disk' \cap Sensitive(category)
      /\ Rewritten(todo)' = Rewritten(todo)
  BY <1>1 DEF Rewritten
<1>6. Applied'
  <2>1. CASE at = "apply"
    <3>1. /\ disk' \cap Sensitive(category) \subseteq todo \cup written \cup forgotten'
          /\ \A x \in disk' \cap Rows :
                x[1] \in Rewritten(todo) => x \in payload \cup todo \cup written
          /\ \A x \in disk' \cap Parts :
                <<x[1], "revision.json">> \in todo => x \in todo \cup forgotten'
          /\ todo \subseteq shown /\ \A x \in payload : KindOf[x[2]] # category
          /\ \A x \in todo \cap Rows :
                disk' \cap NamedBy(x) \subseteq todo \cup written \cup forgotten'
      BY <1>1, <1>2, <2>1 DEF Applied
    <3>2. QED
      BY <1>1, <1>5, <2>1, <3>1 DEF Applied, NamedBy
  <2>2. QED
    BY <1>1, <1>2, <2>1 DEF Applied
<1>7. CompleteIsGone'
  BY <1>1, <1>2, <1>5 DEF CompleteIsGone
<1>8. QED
  BY <1>4, <1>6, <1>7

LEMMA PurgeInvNext ==
    ASSUME PurgeInv, [Next]_vars
    PROVE  PurgeInv'
<1> SUFFICES Traced' /\ Applied' /\ CompleteIsGone'
  BY PurgeTyped DEF PurgeInv
<1>1. CASE Decline \/ RefuseStale \/ Exit
  BY <1>1, IdlePreserves
<1>2. CASE Preview
  BY <1>2, PreviewPreserves
<1>3. CASE Confirm
  BY <1>3, ConfirmPreserves
<1>4. ASSUME NEW d \in Docs, Rewrite(d)
      PROVE  Traced' /\ Applied' /\ CompleteIsGone'
  BY <1>4, RewritePreserves
<1>5. ASSUME NEW x \in Parts, RemovePart(x)
      PROVE  Traced' /\ Applied' /\ CompleteIsGone'
  <2>1. x \in todo \ Rows
    BY <1>5, PartIs DEF RemovePart
  <2>2. QED
    BY <1>5, <2>1, RemovalPreserves DEF RemovePart
<1>6. ASSUME NEW f \in Places \cup Files, Unlink(f)
      PROVE  Traced' /\ Applied' /\ CompleteIsGone'
  <2>1. f \in todo \ Rows
    BY <1>6, FileIs DEF Unlink
  <2>2. QED
    BY <1>6, <2>1, RemovalPreserves DEF Unlink
<1>7. CASE RemoveFolder
  <2>1. Folder \in todo \ Rows /\ todo' = todo \ {Folder}
    BY <1>7, ThingsAssumption DEF RemoveFolder
  <2>2. QED
    BY <1>7, <2>1, RemovalPreserves DEF RemoveFolder
<1>8. CASE RemovalFails \/ Interrupted
  BY <1>8, AbandonPreserves DEF RemovalFails, Interrupted
<1>9. CASE Finish
  BY <1>9, FinishPreserves
<1>10. ASSUME NEW p \in Places, Capture(p)
       PROVE  Traced' /\ Applied' /\ CompleteIsGone'
  <2> DEFINE new == {p} \cup (IF p \in Inside THEN {Folder} ELSE {})
  <2>1. Write(new)
    BY <1>10 DEF Capture
  <2>2. new \cap Files = {} /\ new \cap Parts = {}
    BY FileIs, ThingsAssumption
  <2>3. QED
    BY <2>1, <2>2, WritePreserves
<1>11. ASSUME NEW d \in Docs, NEW r \in Records, Describe(d, r)
       PROVE  Traced' /\ Applied' /\ CompleteIsGone'
  <2> DEFINE files == {f \in Names[r] : \A e \in Docs : <<e, r>> \notin disk}
             new   == {<<d, r>>} \cup ({d} \cap Maps) \cup files
  <2>1. Write(new) /\ <<d, r>> \in Rows
    BY <1>11 DEF Describe, Rows
  <2>2. files \subseteq Files
    BY PurgeAssumption
  <2>3. new \cap Parts = {}
    BY <2>1, <2>2, RowIs, FileIs, PartIs
  <2>4. \A f \in new \cap Files : \E x \in new \cap Rows : f \in NamedBy(x)
    <3>1. \A f \in new \cap Files : f \in Names[r]
      BY <2>1, RowIs, FileIs
    <3>2. NamedBy(<<d, r>>) = Names[r]
      BY DEF NamedBy
    <3>3. QED
      BY <2>1, <3>1, <3>2
  <2>5. QED
    BY <2>1, <2>3, <2>4, WritePreserves
<1>12. ASSUME NEW h \in Revisions, Preserve(h)
       PROVE  Traced' /\ Applied' /\ CompleteIsGone'
  <2> DEFINE new == {h} \X {"revision.json", "copy"}
  <2>1. Write(new) /\ new \cap todo = {} /\ new \subseteq Parts
    BY <1>12 DEF Preserve, Parts
  <2>2. new \cap Files = {}
    BY <2>1, PartIs
  <2>3. \A x \in new : <<x[1], "revision.json">> \in new
    OBVIOUS
  <2>4. QED
    BY <2>1, <2>2, <2>3, WritePreserves
<1>13. CASE BackUp
  <2> DEFINE new == {c \in Copies \cap StateFiles : BackupOf[c] \in disk} \cup
                    {x \in Rows : x[1] \in Copies /\ <<BackupOf[x[1]], x[2]>> \in disk}
  <2>1. Write(new)
    BY <1>13 DEF BackUp
  <2>2. new \subseteq Rows \cup Places
    BY DEF Places
  <2>3. new \cap Files = {} /\ new \cap Parts = {}
    BY <2>2, RowIs, FileIs
  <2>4. QED
    BY <2>1, <2>3, WritePreserves
<1>14. CASE TakeNote
  <2>1. {Note} \cap Files = {} /\ {Note} \cap Parts = {}
    BY ThingsAssumption
  <2>2. QED
    BY <1>14, <2>1, WritePreserves DEF TakeNote
<1>15. CASE Meddle \/ Repair \/ UNCHANGED vars
  BY <1>15, StudentPreserves
<1>16. QED
  BY <1>1, <1>2, <1>3, <1>4, <1>5, <1>6, <1>7, <1>8, <1>9, <1>10, <1>11, <1>12,
     <1>13, <1>14, <1>15 DEF Next

\* Whatever a purge leaves of its category was written since, or was left
\* without a trace by an interruption: always, in every state of the command.
LEMMA PurgeInvAlways == Spec => []PurgeInv
<1>1. PurgeInv /\ [Next]_vars => PurgeInv'
  BY PurgeInvNext
<1>2. QED
  BY PurgeInvInit, <1>1, PTL DEF Spec

-----------------------------------------------------------------------------
(* Purge: the theorems *)

\* The disk holds only what the vault and the student can have put there, and
\* what a purge is about to remove is always among it.
THEOREM PurgeTypeCorrect == Spec => []TypeOK
<1>1. PurgeInv => TypeOK
  BY DEF PurgeInv
<1>2. QED
  BY <1>1, PurgeInvAlways, PTL

\* A purge that says it is done, or has nothing to do, has left of its
\* category only what was written since, what kills and lost updates had left
\* without a trace, and what its inventory does not look for: files of a
\* content map's rows where the map does not lead to them, and discussions.md
\* where there is no content map (privacy.py: plan_purge, _apply).
THEOREM CompleteIsGoneAlways == Spec => []CompleteIsGone
<1>1. PurgeInv => CompleteIsGone
  BY DEF PurgeInv
<1>2. QED
  BY <1>1, PurgeInvAlways, PTL

\* No step of a purge removes what its preview did not show, but for what was
\* written under its hands (privacy.py: the second plan_purge and its
\* fingerprint).
THEOREM OnlyPreviewedAlways == Spec => OnlyPreviewed
<1>1. ASSUME PurgeInv, Next, faults' = faults
      PROVE  disk \ disk' \subseteq shown \cup written
  <2>1. ASSUME NEW d \in Docs, Rewrite(d)
        PROVE  disk \ disk' \subseteq shown \cup written
    <3>1. ASSUME NEW x \in disk \ disk'
          PROVE  x \in shown \cup written
      <4>1. x \in Rows /\ x[1] \in Rewritten(todo) /\ x \notin payload
        BY <2>1, <3>1 DEF Rewrite, RowsOf
      <4>2. QED
        BY <1>1, <2>1, <3>1, <4>1 DEF Rewrite, PurgeInv, Applied
    <3>2. QED
      BY <3>1
  <2>2. CASE (\E x \in Parts : RemovePart(x)) \/ (\E f \in Places \cup Files : Unlink(f))
             \/ RemoveFolder
    BY <1>1, <2>2 DEF RemovePart, Unlink, RemoveFolder, PurgeInv, Applied
  <2>3. CASE Meddle
    <3>1. faults' = faults + 1 /\ faults \in Nat
      BY <1>1, <2>3, PurgeAssumption DEF Meddle, Fault, PurgeInv, TypeOK
    <3>2. QED
      BY <1>1, <3>1
  <2>4. ASSUME NEW new, Write(new)
        PROVE  disk \subseteq disk'
    BY <2>4 DEF Write
  <2>5. CASE \/ \E p \in Places : Capture(p)
             \/ \E d \in Docs, r \in Records : Describe(d, r)
             \/ \E h \in Revisions : Preserve(h)
             \/ BackUp \/ TakeNote
    <3>1. disk \subseteq disk'
      BY <2>4, <2>5 DEF Capture, Describe, Preserve, BackUp, TakeNote
    <3>2. QED
      BY <3>1
  <2>6. CASE Preview \/ Decline \/ Confirm \/ RefuseStale \/ RemovalFails \/ Finish
             \/ Exit \/ Repair \/ Interrupted
    BY <2>6 DEF Preview, Decline, Confirm, Apply, RefuseStale, RemovalFails, Finish, Exit,
                Repair, Interrupted, Abandon
  <2>7. QED
    BY <1>1, <2>1, <2>2, <2>3, <2>5, <2>6 DEF Next
<1>2. PurgeInv /\ [Next]_vars => [faults' = faults => disk \ disk' \subseteq shown \cup written]_vars
  BY <1>1
<1>3. QED
  BY <1>2, PurgeInvAlways, PTL DEF Spec, OnlyPreviewed

-----------------------------------------------------------------------------
(* RevisionArchive: the protocol loses nothing *)

ArchiveTyped ==
    /\ accepted \in Revision \cup {None}
    /\ proposed \in Sources \cup {None}

AInv == ArchiveTyped /\ HeldIsKept

LEMMA AInvInductive ==
    ASSUME None \notin Revision, AInv, [ANext]_avars
    PROVE  AInv'
<1> USE DEF AInv, ArchiveTyped, HeldIsKept
<1>1. ASSUME NEW s \in Sources, Archive(s) \/ Propose(s)
      PROVE  AInv'
  BY <1>1 DEF Archive, Propose
<1>2. CASE Withdraw \/ Discard
  BY <1>2 DEF Withdraw, Discard
<1>3. ASSUME NEW t \in Twins, Accept(t)
      PROVE  AInv'
  <2>1. /\ accepted' = [source |-> proposed, twin |-> t] /\ proposed \in Sources
        /\ proposed' = None /\ archive' = archive
    BY <1>3 DEF Accept
  <2>2. accepted' \in Revision /\ accepted'.source = proposed
    BY <2>1 DEF Revision
  <2>3. held \subseteq archive \cup {proposed}
    BY <1>3 DEF Accept, MayGiveWay
  <2>4. held' \subseteq archive' \cup {accepted'.source}
    BY <1>3, <2>1, <2>2, <2>3 DEF Accept
  <2>5. QED
    BY <2>1, <2>2, <2>4
<1>4. ASSUME NEW t \in Twins, Retwin(t)
      PROVE  AInv'
  <2>1. accepted \in Revision /\ accepted' = [accepted EXCEPT !.twin = t]
    BY <1>4 DEF Retwin
  <2>2. accepted' \in Revision /\ accepted'.source = accepted.source
    BY <2>1 DEF Revision
  <2>3. proposed' = proposed /\ archive' = archive
    BY <1>4 DEF Retwin
  <2>4. held' \subseteq archive' \cup {accepted'.source}
    BY <1>4, <2>1, <2>2, <2>3 DEF Retwin
  <2>5. QED
    BY <2>2, <2>3, <2>4
<1>5. CASE UNCHANGED avars
  BY <1>5 DEF avars
<1>6. QED
  BY <1>1, <1>2, <1>3, <1>4, <1>5 DEF ANext

\* Whatever is proposed, withdrawn and accepted, an accepted source that the
\* student has not discarded is accepted still or archived: what the install
\* markers of ingest.py and the journal of transactions.py are there for.
THEOREM ArchiveKeepsHeld ==
    ASSUME None \notin Revision
    PROVE  ASpec => []HeldIsKept
<1>1. AInit => AInv
  BY DEF AInit, AInv, ArchiveTyped, HeldIsKept
<1>2. AInv => HeldIsKept
  BY DEF AInv
<1>3. AInv /\ [ANext]_avars => AInv'
  BY AInvInductive
<1>4. QED
  BY <1>1, <1>2, <1>3, PTL DEF ASpec
=============================================================================
