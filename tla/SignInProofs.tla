---------------------------- MODULE SignInProofs ----------------------------
(***************************************************************************)
(* Proofs about SignIn, for any number of terminals, launches and mishaps, *)
(* any requests of the page and any interleaving of their replies.         *)
(***************************************************************************)
EXTENDS SignIn, TLAPS

\* What a command holds at each stage.
Held ==
    \A t \in Terminals :
        /\ stage[t] \in {"idle", "acquire", "launch"} =>
              child[t] = None /\ endpoint[t] = None /\ ~owned[t]
        /\ stage[t] = "wait" => child[t] # None /\ endpoint[t] = None /\ ~owned[t]
        /\ stage[t] = "use" => endpoint[t] \in Browsers /\ (~owned[t] => child[t] = None)
        /\ stage[t] \in {"close", "unmark"} => endpoint[t] \in Browsers /\ owned[t]

\* The profile has one browser, the last that was launched, and its lock.
OneBrowser == running \subseteq {launched} /\ (locked <=> running # {})

\* A command that believes it launched the browser it uses launched that one,
\* or a process that handed off to it.
OwnedIsLaunched ==
    \A t \in Terminals :
        owned[t] /\ stage[t] \in {"use", "close", "unmark"} =>
            child[t] \in {Handoff, endpoint[t]}

\* Whoever launched the browser has not left it...
HasOwner ==
    \A b \in running : \E t \in Terminals :
        child[t] = b /\ stage[t] \in {"wait", "use", "close"}

\* ...and whoever closed it has its marker still to remove.
MarkerIsWatched ==
    marker = None \/ marker \in running \/
    \E t \in Terminals : stage[t] = "unmark" /\ endpoint[t] = marker

\* Nothing has gone wrong yet that the code does not control.
Undisturbed ==
    mishaps = 0 => OneBrowser /\ OwnedIsLaunched /\ HasOwner /\ MarkerIsWatched

\* The gate remembers an undeclared document it refused, and stops for it.
Remembered ==
    /\ \A r \in Requests : Len(decided[r]) <= 1
    /\ \A r \in Undeclared \cap Documents : decided[r] # <<>> => fatal
    /\ call = "harvested" => ~fatal

BrowserInv == BrowserTypeOK /\ Held /\ Undisturbed
GateInv == GateTypeOK /\ Remembered

-----------------------------------------------------------------------------
(* Every action keeps the browser's part *)

LEMMA BrowsersAreNumbers ==
    /\ Browsers \subseteq Nat \ {0}
    /\ None \notin Browsers /\ Everyday \notin Browsers /\ None # Everyday
    /\ None # Handoff
BY LaunchesAssumption, EndpointsAssumption DEF Browsers, Handoff

\* A marker that passes leads to the browser of the profile that wrote it.
LEMMA ValidIsRunning ==
    ASSUME NEW t \in Terminals, BrowserTypeOK, marker # None, ValidEndpoint(t)
    PROVE  Answers(marker) = marker /\ marker \in running
BY BrowsersAreNumbers DEF ValidEndpoint, Answers, BrowserTypeOK

LEMMA GivenUp ==
    ASSUME NEW t \in Terminals, BrowserTypeOK, GiveUp(t)
    PROVE  /\ stage' \in [Terminals -> Stages]
           /\ child' \in [Terminals -> Browsers \cup {Handoff, None}]
           /\ endpoint' \in [Terminals -> Browsers \cup {Everyday, None}]
           /\ owned' \in [Terminals -> BOOLEAN]
BY DEF BrowserTypeOK, GiveUp, Go, Stages

LEMMA ProfileTyped ==
    ASSUME BrowserTypeOK, NEW t \in Terminals,
           Begin(t) \/ Attach(t) \/ Check(t) \/ NoBrowser(t) \/ Launch(t)
           \/ ChildGone(t) \/ Adopt(t) \/ WaitEnds(t) \/ CloseOwned(t)
           \/ Unmark(t) \/ Leave(t) \/ KilledCommand(t)
    PROVE  BrowserTypeOK'
<1> USE DEF BrowserTypeOK
<1>1. CASE Begin(t)
  BY <1>1 DEF Begin, Go, Stages
<1>2. CASE Attach(t)
  <2>1. Answers(marker) \in Browsers \cup {Everyday, None}
    BY DEF Answers
  <2>2. CASE ValidEndpoint(t) /\ endpoint' = [endpoint EXCEPT ![t] = Answers(marker)]
             /\ Go(t, "use") /\ UNCHANGED <<child, owned>>
    BY <1>2, <2>1, <2>2 DEF Attach, Go, Stages
  <2>3. CASE GiveUp(t)
    BY <1>2, <2>3, GivenUp DEF Attach
  <2>4. QED
    BY <1>2, <2>2, <2>3 DEF Attach
<1>3. CASE Check(t)
  <2>1. CASE locked
    BY <1>3, <2>1, GivenUp DEF Check
  <2>2. CASE ~locked
    BY <1>3, <2>2 DEF Check, Go, Stages
  <2>3. QED
    BY <2>1, <2>2
<1>4. CASE NoBrowser(t)
  BY <1>4, GivenUp DEF NoBrowser
<1>5. CASE Launch(t)
  <2>1. stage' \in [Terminals -> Stages]
    BY <1>5 DEF Launch, Go, Stages
  <2>2. CASE Occupied
    BY <1>5, <2>1, <2>2 DEF Launch
  <2>3. CASE ~Occupied
    <3>1. launched' \in Browsers /\ launched' \in 0..MaxLaunches
      BY <1>5, <2>3, LaunchesAssumption DEF Launch, Browsers
    <3>2. QED
      BY <1>5, <2>1, <2>3, <3>1 DEF Launch
  <2>4. QED
    BY <2>2, <2>3
<1>6. CASE ChildGone(t)
  BY <1>6, GivenUp DEF ChildGone
<1>7. CASE Adopt(t)
  <2>1. Answers(marker) \in Browsers \cup {Everyday, None}
    BY DEF Answers
  <2>2. QED
    BY <1>7, <2>1 DEF Adopt, Go, Stages
<1>8. CASE WaitEnds(t)
  <2>1. running' \subseteq Browsers /\ locked' \in BOOLEAN
    BY <1>8 DEF WaitEnds, Terminate
  <2>2. mishaps' \in 0..MaxMishaps
    BY <1>8, LaunchesAssumption DEF WaitEnds
  <2>3. QED
    BY <1>8, <2>1, <2>2, GivenUp DEF WaitEnds
<1>9. CASE CloseOwned(t)
  BY <1>9 DEF CloseOwned, Terminate, Go, Stages
<1>10. CASE Unmark(t)
  BY <1>10, GivenUp DEF Unmark
<1>11. CASE Leave(t)
  <2>1. CASE owned[t]
    BY <1>11, <2>1 DEF Leave, Go, Stages
  <2>2. CASE ~owned[t]
    BY <1>11, <2>2, GivenUp DEF Leave
  <2>3. QED
    BY <2>1, <2>2
<1>12. CASE KilledCommand(t)
  BY <1>12, GivenUp, LaunchesAssumption DEF KilledCommand
<1>13. QED
  BY <1>1, <1>2, <1>3, <1>4, <1>5, <1>6, <1>7, <1>8, <1>9, <1>10, <1>11, <1>12

-----------------------------------------------------------------------------

LEMMA GivenUpHeld ==
    ASSUME NEW t \in Terminals, BrowserTypeOK, Held, GiveUp(t)
    PROVE  Held'
BY DEF BrowserTypeOK, Held, GiveUp, Go

\* A command without a browser of its own, and without a marker to remove,
\* leaves no trace.
LEMMA GivenUpUndisturbed ==
    ASSUME NEW t \in Terminals, BrowserTypeOK, Held, Undisturbed, GiveUp(t),
           UNCHANGED <<running, marker, locked, launched, mishaps>>,
           child[t] \notin running, stage[t] # "unmark"
    PROVE  Undisturbed'
<1> SUFFICES ASSUME mishaps = 0
             PROVE  (OneBrowser /\ OwnedIsLaunched /\ HasOwner /\ MarkerIsWatched)'
  BY DEF Undisturbed
<1>1. OneBrowser'
  BY DEF Undisturbed, OneBrowser
<1>2. OwnedIsLaunched'
  BY DEF Undisturbed, OwnedIsLaunched, BrowserTypeOK, GiveUp, Go
<1>3. HasOwner'
  BY DEF Undisturbed, HasOwner, BrowserTypeOK, GiveUp, Go
<1>4. MarkerIsWatched'
  BY DEF Undisturbed, MarkerIsWatched, BrowserTypeOK, GiveUp, Go
<1>5. QED
  BY <1>1, <1>2, <1>3, <1>4

LEMMA BeginKeeps ==
    ASSUME NEW t \in Terminals, BrowserTypeOK, Held, Undisturbed, Begin(t)
    PROVE  Held' /\ Undisturbed'
<1>1. Held'
  BY DEF BrowserTypeOK, Held, Begin, Go
<1>2. Undisturbed'
  BY DEF BrowserTypeOK, Undisturbed, OneBrowser, OwnedIsLaunched, HasOwner,
         MarkerIsWatched, Begin, Go
<1>3. QED
  BY <1>1, <1>2

LEMMA AcquireKeeps ==
    ASSUME NEW t \in Terminals, BrowserTypeOK, Held, Undisturbed,
           Attach(t) \/ Check(t) \/ NoBrowser(t)
    PROVE  Held' /\ Undisturbed'
<1>1. child[t] = None /\ endpoint[t] = None /\ ~owned[t]
  BY DEF Attach, Check, NoBrowser, Held
<1>2. None \notin running /\ stage[t] # "unmark"
  <2>1. None \notin running
    BY BrowsersAreNumbers DEF BrowserTypeOK
  <2>2. stage[t] # "unmark"
    BY DEF Attach, Check, NoBrowser
  <2>3. QED
    BY <2>1, <2>2
<1>3. UNCHANGED <<running, marker, locked, launched, mishaps>>
  BY DEF Attach, Check, NoBrowser
<1>4. CASE GiveUp(t)
  BY <1>1, <1>2, <1>3, <1>4, GivenUpHeld, GivenUpUndisturbed
<1>5. CASE Attach(t) /\ ~GiveUp(t)
  <2>1. Answers(marker) = marker /\ marker \in running
    BY <1>5, ValidIsRunning DEF Attach
  <2>2. /\ endpoint' = [endpoint EXCEPT ![t] = marker]
        /\ Go(t, "use") /\ UNCHANGED <<child, owned>>
    BY <1>5, <2>1 DEF Attach
  <2>3. Held'
    BY <1>1, <2>1, <2>2 DEF BrowserTypeOK, Held, Go
  <2>4. Undisturbed'
    BY <1>1, <1>2, <1>3, <2>2 DEF BrowserTypeOK, Undisturbed, OneBrowser,
       OwnedIsLaunched, HasOwner, MarkerIsWatched, Go
  <2>5. QED
    BY <2>3, <2>4
<1>6. CASE Check(t) /\ ~GiveUp(t)
  <2>1. Go(t, "launch") /\ UNCHANGED <<child, endpoint, owned>>
    BY <1>6 DEF Check
  <2>2. Held'
    BY <1>1, <2>1 DEF BrowserTypeOK, Held, Go
  <2>3. Undisturbed'
    BY <1>1, <1>2, <1>3, <2>1 DEF BrowserTypeOK, Undisturbed, OneBrowser,
       OwnedIsLaunched, HasOwner, MarkerIsWatched, Go
  <2>4. QED
    BY <2>2, <2>3
<1>7. QED
  BY <1>4, <1>5, <1>6 DEF NoBrowser

\* Without mishaps Chromium is launched only when none runs.
LEMMA LaunchKeeps ==
    ASSUME NEW t \in Terminals, BrowserTypeOK, Held, Undisturbed, Launch(t)
    PROVE  Held' /\ Undisturbed'
<1>1. /\ child[t] = None /\ endpoint[t] = None /\ ~owned[t]
      /\ stage[t] = "launch"
  BY DEF Launch, Held
<1>2. Go(t, "wait") /\ UNCHANGED <<endpoint, owned, marker, mishaps>>
  BY DEF Launch
<1>3. child' = [child EXCEPT ![t] = child'[t]] /\ child'[t] # None
  BY LaunchesAssumption, EndpointsAssumption DEF Launch, BrowserTypeOK, Handoff
<1>4. Held'
  BY <1>1, <1>2, <1>3 DEF BrowserTypeOK, Held, Go
<1>5. ASSUME mishaps = 0
      PROVE  (OneBrowser /\ OwnedIsLaunched /\ HasOwner /\ MarkerIsWatched)'
  <2>1. OneBrowser'
    BY <1>5 DEF BrowserTypeOK, Undisturbed, OneBrowser, Launch, Occupied
  <2>2. OwnedIsLaunched'
    BY <1>1, <1>2, <1>3, <1>5 DEF BrowserTypeOK, Undisturbed, OwnedIsLaunched, Go
  <2>3. HasOwner'
    <3>1. stage' = [stage EXCEPT ![t] = "wait"] /\ stage'[t] = "wait"
      BY <1>2 DEF BrowserTypeOK, Go
    <3>2. None \notin running
      BY BrowsersAreNumbers DEF BrowserTypeOK
    <3>3. running' \subseteq running \cup {child'[t]}
      BY DEF BrowserTypeOK, Launch
    <3>4. ASSUME NEW b \in running, b # child'[t]
          PROVE  \E o \in Terminals : child'[o] = b /\ stage'[o] \in {"wait", "use", "close"}
      <4>1. PICK o \in Terminals : child[o] = b /\ stage[o] \in {"wait", "use", "close"}
        BY <1>5 DEF Undisturbed, HasOwner
      <4>2. o # t
        BY <1>1, <4>1
      <4>3. child'[o] = b /\ stage'[o] = stage[o]
        BY <1>3, <3>1, <4>1, <4>2 DEF BrowserTypeOK
      <4>4. QED
        BY <4>1, <4>3
    <3>5. QED
      BY <3>1, <3>3, <3>4 DEF HasOwner
  <2>4. MarkerIsWatched'
    BY <1>1, <1>2, <1>5 DEF BrowserTypeOK, Undisturbed, MarkerIsWatched, Go, Launch
  <2>5. QED
    BY <2>1, <2>2, <2>3, <2>4
<1>6. QED
  BY <1>2, <1>4, <1>5 DEF Undisturbed

LEMMA WaitKeeps ==
    ASSUME NEW t \in Terminals, BrowserTypeOK, Held, Undisturbed,
           ChildGone(t) \/ Adopt(t) \/ WaitEnds(t)
    PROVE  Held' /\ Undisturbed'
<1>1. /\ child[t] # None /\ endpoint[t] = None /\ ~owned[t]
      /\ stage[t] = "wait"
  BY DEF ChildGone, Adopt, WaitEnds, Held
<1>2. CASE ChildGone(t)
  <2>1. child[t] \notin running
    BY <1>2, BrowsersAreNumbers DEF ChildGone, ChildExited, BrowserTypeOK, Handoff
  <2>2. QED
    BY <1>1, <1>2, <2>1, GivenUpHeld, GivenUpUndisturbed DEF ChildGone
<1>3. CASE Adopt(t)
  <2>1. Answers(marker) = marker /\ marker \in running /\ marker \in Browsers
    BY <1>3, ValidIsRunning DEF Adopt, BrowserTypeOK
  <2>2. /\ endpoint' = [endpoint EXCEPT ![t] = marker]
        /\ owned' = [owned EXCEPT ![t] = TRUE]
        /\ Go(t, "use")
        /\ UNCHANGED <<child, running, marker, locked, launched, mishaps>>
    BY <1>3, <2>1 DEF Adopt
  <2>3. Held'
    BY <1>1, <2>1, <2>2 DEF BrowserTypeOK, Held, Go
  <2>4. ASSUME mishaps = 0
        PROVE  (OneBrowser /\ OwnedIsLaunched /\ HasOwner /\ MarkerIsWatched)'
    <3>1. OneBrowser'
      BY <2>2, <2>4 DEF Undisturbed, OneBrowser
    <3>2. child[t] \in {Handoff, marker}
      BY <1>3, <2>1, <2>4 DEF Adopt, ChildExited, Undisturbed, OneBrowser
    <3>3. OwnedIsLaunched'
      BY <2>2, <2>4, <3>2 DEF BrowserTypeOK, Undisturbed, OwnedIsLaunched, Go
    <3>4. HasOwner'
      BY <1>1, <2>2, <2>4 DEF BrowserTypeOK, Undisturbed, HasOwner, Go
    <3>5. MarkerIsWatched'
      BY <2>1, <2>2 DEF MarkerIsWatched
    <3>6. QED
      BY <3>1, <3>3, <3>4, <3>5
  <2>5. QED
    BY <2>2, <2>3, <2>4 DEF Undisturbed
<1>4. CASE WaitEnds(t)
  <2>1. GiveUp(t) /\ mishaps' = mishaps + 1
    BY <1>4 DEF WaitEnds
  <2>2. mishaps' # 0
    BY <2>1, LaunchesAssumption DEF BrowserTypeOK
  <2>3. QED
    BY <2>1, <2>2, GivenUpHeld DEF Undisturbed
<1>5. QED
  BY <1>2, <1>3, <1>4

\* Only a browser that the command believes to be its own is closed, and its
\* marker is the next thing it looks at.
LEMMA CloseKeeps ==
    ASSUME NEW t \in Terminals, BrowserTypeOK, Held, Undisturbed,
           Leave(t) \/ CloseOwned(t) \/ Unmark(t)
    PROVE  Held' /\ Undisturbed'
<1>1. /\ endpoint[t] \in Browsers
      /\ stage[t] \in {"use", "close", "unmark"}
      /\ stage[t] \in {"close", "unmark"} => owned[t]
      /\ stage[t] = "use" /\ ~owned[t] => child[t] = None
  BY DEF Leave, CloseOwned, Unmark, Held
<1>2. CASE Leave(t) /\ owned[t]
  <2>1. /\ Go(t, "close") /\ stage[t] = "use"
        /\ UNCHANGED <<child, endpoint, owned, running, marker, locked, launched, mishaps>>
    BY <1>2 DEF Leave
  <2>2. Held'
    BY <1>1, <1>2, <2>1 DEF BrowserTypeOK, Held, Go
  <2>3. Undisturbed'
    BY <1>1, <1>2, <2>1 DEF BrowserTypeOK, Undisturbed, OneBrowser, OwnedIsLaunched,
       HasOwner, MarkerIsWatched, Go
  <2>4. QED
    BY <2>2, <2>3
<1>3. CASE Leave(t) /\ ~owned[t]
  <2>1. child[t] \notin running /\ stage[t] = "use"
    BY <1>1, <1>3, BrowsersAreNumbers DEF Leave, BrowserTypeOK
  <2>2. QED
    BY <1>3, <2>1, GivenUpHeld, GivenUpUndisturbed DEF Leave
<1>4. CASE CloseOwned(t)
  <2>1. /\ Go(t, "unmark") /\ stage[t] = "close"
        /\ UNCHANGED <<child, endpoint, owned, marker, launched, mishaps>>
        /\ running' = running \ {endpoint[t], child[t]}
    BY <1>4 DEF CloseOwned, Terminate
  <2>2. Held'
    BY <1>1, <2>1 DEF BrowserTypeOK, Held, Go
  <2>3. ASSUME mishaps = 0
        PROVE  (OneBrowser /\ OwnedIsLaunched /\ HasOwner /\ MarkerIsWatched)'
    <3>1. OneBrowser'
      <4>1. running \subseteq {launched} /\ (locked <=> running # {})
        BY <2>3 DEF Undisturbed, OneBrowser
      <4>2. CASE {endpoint[t], child[t]} \cap running # {}
        <5>1. running' = {} /\ locked' = FALSE
          BY <1>4, <2>1, <4>1, <4>2 DEF CloseOwned, Terminate
        <5>2. QED
          BY <5>1 DEF OneBrowser
      <4>3. CASE {endpoint[t], child[t]} \cap running = {}
        <5>1. running' = running /\ locked' = locked
          BY <1>4, <2>1, <4>3 DEF CloseOwned, Terminate
        <5>2. QED
          BY <2>1, <4>1, <5>1 DEF OneBrowser
      <4>4. QED
        BY <4>2, <4>3
    <3>2. OwnedIsLaunched'
      BY <2>1, <2>3 DEF BrowserTypeOK, Undisturbed, OwnedIsLaunched, Go
    <3>3. HasOwner'
      BY <2>1, <2>3 DEF BrowserTypeOK, Undisturbed, HasOwner, Go
    <3>4. MarkerIsWatched'
      <4>1. child[t] \in {Handoff, endpoint[t]}
        BY <1>1, <2>1, <2>3 DEF Undisturbed, OwnedIsLaunched
      <4>2. running' = running \ {endpoint[t]}
        BY <2>1, <4>1, BrowsersAreNumbers DEF BrowserTypeOK, Handoff
      <4>3. stage' = [stage EXCEPT ![t] = "unmark"] /\ stage'[t] = "unmark"
        BY <2>1 DEF BrowserTypeOK, Go
      <4>4. QED
        BY <2>1, <2>3, <4>2, <4>3 DEF BrowserTypeOK, Undisturbed, MarkerIsWatched
    <3>5. QED
      BY <3>1, <3>2, <3>3, <3>4
  <2>4. QED
    BY <2>1, <2>2, <2>3 DEF Undisturbed
<1>5. CASE Unmark(t)
  <2>1. /\ GiveUp(t) /\ stage[t] = "unmark"
        /\ marker' = IF marker = endpoint[t] THEN None ELSE marker
        /\ UNCHANGED <<running, locked, launched, mishaps>>
    BY <1>5 DEF Unmark
  <2>2. ASSUME mishaps = 0
        PROVE  (OneBrowser /\ OwnedIsLaunched /\ HasOwner /\ MarkerIsWatched)'
    <3>1. OneBrowser'
      BY <2>1, <2>2 DEF Undisturbed, OneBrowser
    <3>2. OwnedIsLaunched'
      BY <2>1, <2>2 DEF BrowserTypeOK, Undisturbed, OwnedIsLaunched, GiveUp, Go
    <3>3. HasOwner'
      BY <2>1, <2>2 DEF BrowserTypeOK, Undisturbed, HasOwner, GiveUp, Go
    <3>4. MarkerIsWatched'
      BY <2>1, <2>2 DEF BrowserTypeOK, Undisturbed, MarkerIsWatched, GiveUp, Go
    <3>5. QED
      BY <3>1, <3>2, <3>3, <3>4
  <2>3. QED
    BY <2>1, <2>2, GivenUpHeld DEF Undisturbed
<1>6. QED
  BY <1>2, <1>3, <1>4, <1>5

\* Whatever is not the code's doing.
LEMMA OutsideKeeps ==
    ASSUME BrowserTypeOK, Held, Undisturbed,
           \/ \E b \in Browsers :
                 BrowserWritesMarker(b) \/ BrowserDies(b) \/ EverydayListens(b)
           \/ \E t \in Terminals : KilledCommand(t)
           \/ RemoveProfile
           \/ UNCHANGED browserVars
    PROVE  BrowserTypeOK' /\ Held' /\ Undisturbed'
<1>1. ASSUME NEW b \in Browsers, BrowserWritesMarker(b)
      PROVE  BrowserTypeOK' /\ Held' /\ Undisturbed'
  BY <1>1 DEF BrowserWritesMarker, BrowserTypeOK, Held, Undisturbed, OneBrowser,
     OwnedIsLaunched, HasOwner, MarkerIsWatched
<1>2. ASSUME NEW b \in Browsers, BrowserDies(b)
      PROVE  BrowserTypeOK' /\ Held' /\ Undisturbed'
  <2>1. mishaps' \in 0..MaxMishaps /\ mishaps' # 0
    BY <1>2, LaunchesAssumption DEF BrowserDies, BrowserTypeOK
  <2>2. BrowserTypeOK'
    BY <1>2, <2>1 DEF BrowserDies, BrowserTypeOK
  <2>3. Held'
    BY <1>2 DEF BrowserDies, Held
  <2>4. QED
    BY <2>1, <2>2, <2>3 DEF Undisturbed
<1>3. ASSUME NEW b \in Browsers, EverydayListens(b)
      PROVE  BrowserTypeOK' /\ Held' /\ Undisturbed'
  BY <1>3 DEF EverydayListens, BrowserTypeOK, Held, Undisturbed, OneBrowser,
     OwnedIsLaunched, HasOwner, MarkerIsWatched
<1>4. ASSUME NEW t \in Terminals, KilledCommand(t)
      PROVE  BrowserTypeOK' /\ Held' /\ Undisturbed'
  <2>1. mishaps' # 0
    BY <1>4, LaunchesAssumption DEF KilledCommand, BrowserTypeOK
  <2>2. Held'
    BY <1>4, GivenUpHeld DEF KilledCommand
  <2>3. QED
    BY <1>4, <2>1, <2>2, ProfileTyped DEF Undisturbed
<1>5. CASE RemoveProfile
  <2>1. mishaps' \in 0..MaxMishaps /\ (mishaps' = 0 => mishaps = 0 /\ running = {})
    BY <1>5, LaunchesAssumption DEF RemoveProfile, BrowserTypeOK
  <2>2. BrowserTypeOK'
    BY <1>5, <2>1 DEF RemoveProfile, BrowserTypeOK
  <2>3. Held'
    BY <1>5 DEF RemoveProfile, Held
  <2>4. Undisturbed'
    BY <1>5, <2>1 DEF RemoveProfile, Undisturbed, OneBrowser, OwnedIsLaunched,
       HasOwner, MarkerIsWatched
  <2>5. QED
    BY <2>2, <2>3, <2>4
<1>6. CASE UNCHANGED browserVars
  BY <1>6 DEF browserVars, BrowserTypeOK, Held, Undisturbed, OneBrowser,
     OwnedIsLaunched, HasOwner, MarkerIsWatched
<1>7. QED
  BY <1>1, <1>2, <1>3, <1>4, <1>5, <1>6

-----------------------------------------------------------------------------
(* Every action keeps the gate's part *)

LEMMA WireTyped ==
    ASSUME GateTypeOK, NEW m \in Requests \cup {Reply, Identity, Fault, Failure},
           Len(wire) < MaxWire, wire' = Append(wire, m)
    PROVE  /\ wire' \in Seq(Requests \cup {Reply, Identity, Fault, Failure})
           /\ Len(wire') <= MaxWire
BY RequestsAssumption DEF GateTypeOK

LEMMA TailTyped ==
    ASSUME GateTypeOK, wire # <<>>, wire' = Tail(wire)
    PROVE  /\ wire' \in Seq(Requests \cup {Reply, Identity, Fault, Failure})
           /\ Len(wire') <= MaxWire
BY RequestsAssumption DEF GateTypeOK

LEMMA PageKeeps ==
    ASSUME GateTypeOK, Remembered,
           Answer \/ \E r \in Requests : PauseRequest(r)
    PROVE  GateTypeOK' /\ Remembered'
<1>1. CASE Answer
  <2>1. PICK m \in Results(call) : wire' = Append(wire, m)
    BY <1>1 DEF Answer
  <2>2. m \in {Reply, Identity, Fault, Failure}
    BY <2>1 DEF Results
  <2>3. QED
    BY <1>1, <2>1, <2>2, WireTyped DEF Answer, GateTypeOK, Remembered
<1>2. ASSUME NEW r \in Requests, PauseRequest(r)
      PROVE  GateTypeOK' /\ Remembered'
  BY <1>2, WireTyped DEF PauseRequest, GateTypeOK, Remembered
<1>3. QED
  BY <1>1, <1>2

LEMMA ReceiveRequestKeeps ==
    ASSUME GateTypeOK, Remembered, ReceiveRequest
    PROVE  GateTypeOK' /\ Remembered'
<1> DEFINE r == Head(wire)
<1>1. r \in Requests /\ call \in Commands /\ wire # <<>> /\ Decide(r)
  BY DEF ReceiveRequest
<1>2. wire' = Tail(wire) /\ call' = call
  BY <1>1 DEF Decide
<1>3. CASE decided[r] # <<>>
  BY <1>1, <1>2, <1>3, TailTyped DEF Decide, GateTypeOK, Remembered
<1>4. CASE decided[r] = <<>>
  <2> DEFINE decision == IF Allowed(r) THEN "continue" ELSE "fail"
  <2>1. decided' = [decided EXCEPT ![r] = <<decision>>]
    BY <1>1, <1>4 DEF Decide
  <2>2. paused' = paused \ {r} /\ blocked' \in BOOLEAN /\ fatal' \in BOOLEAN
    BY <1>1, <1>4 DEF Decide, GateTypeOK
  <2>3. (fatal => fatal') /\ (r \in Undeclared \cap Documents => fatal')
    BY <1>1, <1>4 DEF Decide, Allowed
  <2>4. <<decision>> \in Seq({"continue", "fail"}) /\ Len(<<decision>>) = 1
    OBVIOUS
  <2>5. decided' \in [Requests -> Seq({"continue", "fail"})]
    BY <1>1, <2>1, <2>4 DEF GateTypeOK
  <2>6. GateTypeOK'
    BY <1>1, <1>2, <2>2, <2>5, TailTyped DEF GateTypeOK
  <2>7. \A q \in Requests : decided'[q] = IF q = r THEN <<decision>> ELSE decided[q]
    BY <1>1, <2>1 DEF GateTypeOK
  <2>8. ASSUME NEW q \in Requests
        PROVE  Len(decided'[q]) <= 1
    <3>1. CASE q = r
      <4>1. decided'[q] = <<decision>>
        BY <2>7, <3>1
      <4>2. QED
        BY <2>4, <4>1
    <3>2. CASE q # r
      <4>1. decided'[q] = decided[q]
        BY <2>7, <3>2
      <4>2. QED
        BY <4>1 DEF Remembered
    <3>3. QED
      BY <3>1, <3>2
  <2>9. \A q \in Undeclared \cap Documents : decided'[q] # <<>> => fatal'
    BY <2>3, <2>7, RequestsAssumption DEF Remembered
  <2>10. call' # "harvested"
    BY <1>1, <1>2 DEF Commands
  <2>11. QED
    BY <2>6, <2>8, <2>9, <2>10 DEF Remembered
<1>5. QED
  BY <1>3, <1>4

\* Whichever command was waiting, its result is looked at after the gate.
LEMMA ReceiveResultKeeps ==
    ASSUME GateTypeOK, Remembered, ReceiveResult
    PROVE  GateTypeOK' /\ Remembered'
<1>1. /\ call \in Commands /\ wire # <<>> /\ wire' = Tail(wire)
      /\ UNCHANGED <<paused, decided, blocked, fatal>>
  BY DEF ReceiveResult
<1>2. call' \in Commands \cup Outcomes
  BY DEF ReceiveResult, After, Commands, Outcomes
<1>3. call' = "harvested" => ~fatal
  BY DEF ReceiveResult, After, Commands, Stops
<1>4. QED
  BY <1>1, <1>2, <1>3, TailTyped DEF GateTypeOK, Remembered

LEMMA GateKeeps ==
    ASSUME GateTypeOK, Remembered,
           \/ OpenGate \/ Answer \/ ReceiveRequest \/ ReceiveResult \/ GateStops
           \/ CloseGate \/ UNCHANGED gateVars
           \/ \E r \in Requests : PauseRequest(r)
    PROVE  GateTypeOK' /\ Remembered'
<1>1. CASE OpenGate
  BY <1>1 DEF OpenGate, GateTypeOK, Remembered, Commands
<1>2. CASE GateStops
  BY <1>2 DEF GateStops, GateTypeOK, Remembered, Outcomes
<1>3. CASE CloseGate
  <2>1. <<>> \in Seq({"continue", "fail"}) /\ Len(<<>>) = 0
    OBVIOUS
  <2>2. <<>> \in Seq(Requests \cup {Reply, Identity, Fault, Failure})
    OBVIOUS
  <2>3. GateTypeOK'
    <3>1. wire' = <<>> /\ Len(wire') <= MaxWire
      BY <1>3, <2>2, RequestsAssumption DEF CloseGate
    <3>2. decided' \in [Requests -> Seq({"continue", "fail"})]
      BY <1>3, <2>1 DEF CloseGate
    <3>3. QED
      BY <1>3, <2>2, <3>1, <3>2 DEF CloseGate, GateTypeOK
  <2>4. Remembered'
    <3>1. \A r \in Requests : decided'[r] = <<>>
      BY <1>3 DEF CloseGate
    <3>2. \A r \in Requests : Len(decided'[r]) <= 1
      BY <2>1, <3>1
    <3>3. QED
      BY <1>3, <3>1, <3>2, RequestsAssumption DEF CloseGate, Remembered
  <2>5. QED
    BY <2>3, <2>4
<1>4. CASE UNCHANGED gateVars
  BY <1>4 DEF gateVars, GateTypeOK, Remembered
<1>5. QED
  BY <1>1, <1>2, <1>3, <1>4, PageKeeps, ReceiveRequestKeeps, ReceiveResultKeeps

-----------------------------------------------------------------------------
(* The composition *)

Inv == BrowserInv /\ GateInv /\ clearing \in BOOLEAN

LEMMA InvInitially == Init => Inv
<1> SUFFICES ASSUME Init PROVE Inv
  OBVIOUS
<1>1. BrowserTypeOK
  <2>1. launched \in 0..MaxLaunches /\ mishaps \in 0..MaxMishaps
    BY LaunchesAssumption DEF Init, BrowserInit
  <2>2. QED
    BY <2>1 DEF Init, BrowserInit, BrowserTypeOK, Stages
<1>2. Held /\ Undisturbed
  BY DEF Init, BrowserInit, Held, Undisturbed, OneBrowser, OwnedIsLaunched,
     HasOwner, MarkerIsWatched
<1>3. GateTypeOK
  <2>1. <<>> \in Seq({"continue", "fail"})
    OBVIOUS
  <2>2. <<>> \in Seq(Requests \cup {Reply, Identity, Fault, Failure}) /\ Len(<<>>) = 0
    OBVIOUS
  <2>3. wire = <<>> /\ Len(wire) <= MaxWire
    BY <2>2, RequestsAssumption DEF Init, GateInit
  <2>4. decided \in [Requests -> Seq({"continue", "fail"})]
    BY <2>1 DEF Init, GateInit
  <2>5. QED
    BY <2>2, <2>3, <2>4 DEF Init, GateInit, GateTypeOK
<1>4. Remembered
  <2>1. \A r \in Requests : decided[r] = <<>>
    BY DEF Init, GateInit
  <2>2. Len(<<>>) <= 1
    OBVIOUS
  <2>3. \A r \in Requests : Len(decided[r]) <= 1
    BY <2>1, <2>2
  <2>4. QED
    BY <2>1, <2>3, RequestsAssumption DEF Init, GateInit, Remembered
<1>5. QED
  BY <1>1, <1>2, <1>3, <1>4 DEF Init, Inv, BrowserInv, GateInv

LEMMA InvInductive == Inv /\ [Next]_vars => Inv'
<1> SUFFICES ASSUME Inv, [Next]_vars PROVE Inv'
  OBVIOUS
<1> USE DEF Inv, BrowserInv, GateInv
<1>1. ASSUME NEW t \in Terminals, ProfileStep(t)
      PROVE  Inv'
  BY <1>1, ProfileTyped, BeginKeeps, AcquireKeeps, LaunchKeeps, WaitKeeps,
     CloseKeeps, GateKeeps DEF ProfileStep
<1>2. ASSUME NEW t \in Terminals, RendererLeaves(t)
      PROVE  Inv'
  BY <1>2, ProfileTyped, CloseKeeps, GateKeeps DEF RendererLeaves
<1>3. ASSUME NEW t \in Terminals, Killed(t)
      PROVE  Inv'
  BY <1>3, OutsideKeeps, GateKeeps DEF Killed
<1>4. ASSUME NEW b \in Browsers, BrowserStep(b)
      PROVE  Inv'
  BY <1>4, OutsideKeeps, GateKeeps DEF BrowserStep
<1>5. CASE ConnectPage
  BY <1>5, OutsideKeeps, GateKeeps DEF ConnectPage
<1>6. CASE PageStep
  BY <1>6, OutsideKeeps, GateKeeps DEF PageStep
<1>7. CASE GateStep
  BY <1>7, OutsideKeeps, GateKeeps DEF GateStep
<1>8. CASE AuthLeaves
  BY <1>8, AuthAssumption, ProfileTyped, CloseKeeps, GateKeeps DEF AuthLeaves
<1>9. CASE AskToClear
  BY <1>9, OutsideKeeps, GateKeeps DEF AskToClear
<1>10. CASE KeepProfile
  BY <1>10, OutsideKeeps, GateKeeps DEF KeepProfile
<1>11. CASE RemoveProfile
  BY <1>11, OutsideKeeps, GateKeeps DEF RemoveProfile
<1>12. CASE UNCHANGED vars
  BY <1>12, OutsideKeeps, GateKeeps DEF vars
<1>13. QED
  BY <1>1, <1>2, <1>3, <1>4, <1>5, <1>6, <1>7, <1>8, <1>9, <1>10, <1>11, <1>12
     DEF Next

LEMMA InvAlways == Spec => []Inv
BY InvInitially, InvInductive, PTL DEF Spec

-----------------------------------------------------------------------------

\* The stages, endpoints, files and messages stay what cdp.py can handle.
THEOREM TypeCorrect == Spec => []TypeOK
<1>1. Inv => TypeOK
  BY DEF Inv, BrowserInv, GateInv, TypeOK
<1>2. QED
  BY <1>1, InvAlways, PTL

\* However many terminals share the profile and whatever an everyday browser
\* listens on: no command ever talks to it, since what answers on the port must
\* report the path of the marker (_read_valid_endpoint).
THEOREM EndpointIsDedicatedAlways == Spec => []EndpointIsDedicated
<1>1. Inv => EndpointIsDedicated
  <2> SUFFICES ASSUME Inv, NEW t \in Terminals PROVE endpoint[t] # Everyday
    BY DEF EndpointIsDedicated
  <2>1. stage[t] \in Stages
    BY DEF Inv, BrowserInv, BrowserTypeOK
  <2>2. endpoint[t] \in Browsers \cup {None}
    BY <2>1 DEF Inv, BrowserInv, Held, Stages
  <2>3. QED
    BY <2>2, BrowsersAreNumbers
<1>2. QED
  BY <1>1, InvAlways, PTL

\* Any number of sign-ins and renderings that overlap in any way, none of them
\* disturbed, end with no browser, no lock and no marker on the profile:
\* whoever launched the browser closes it, and whoever closed it is the one
\* that removes its marker (_close_owned_browser, _remove_owned_active_port).
THEOREM NothingIsLeftBehindAlways == Spec => []NothingIsLeftBehind
<1>1. Inv => NothingIsLeftBehind
  <2> SUFFICES ASSUME Inv, mishaps = 0, \A t \in Terminals : stage[t] = "idle"
               PROVE  running = {} /\ ~locked /\ marker = None
    BY DEF NothingIsLeftBehind
  <2>1. running = {}
    BY DEF Inv, BrowserInv, Undisturbed, HasOwner
  <2>2. ~locked
    BY <2>1 DEF Inv, BrowserInv, Undisturbed, OneBrowser
  <2>3. marker = None
    BY <2>1 DEF Inv, BrowserInv, Undisturbed, MarkerIsWatched
  <2>4. QED
    BY <2>1, <2>2, <2>3
<1>2. QED
  BY <1>1, InvAlways, PTL

\* However the requests of the page, their repetitions and the results of the
\* commands arrive: one decision for each request, and no session once an
\* undeclared document was refused (_AuthGate, _call_with_gate).
THEOREM GateHoldsAlways == Spec => []GateHolds
<1>1. Inv => GateHolds
  BY DEF Inv, GateInv, Remembered, GateHolds
<1>2. QED
  BY <1>1, InvAlways, PTL
=============================================================================
