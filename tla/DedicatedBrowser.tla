-------------------------- MODULE DedicatedBrowser --------------------------
(* The dedicated browser profile (auth/cdp.py): how an a2l command finds or *)
(* launches the one Chromium that runs on it, and what it leaves behind.    *)
(*                                                                          *)
(* Two kinds of command use the profile: `a2l auth` (authenticate_browser)  *)
(* and the outline renderer (DedicatedPageFactory).  They run in terminals  *)
(* of their own and share nothing but the profile directory: Chromium's     *)
(* DevToolsActivePort file and its Singleton* locks.                        *)
(*                                                                          *)
(* A browser is a number, in the order of the launches.  The number stands  *)
(* for its port and its websocket path: two browsers may use one port after *)
(* each other, never one path.  Chromium itself is external: it is a        *)
(* singleton on a profile, a second launch hands off to the first and       *)
(* exits, and it does not remove DevToolsActivePort when it is closed.      *)
(* Left out: links, the platform's ways of locating Chromium and of listing *)
(* processes, the renderer's page targets, and a process that neither       *)
(* SIGTERM nor SIGKILL ends.                                                *)
EXTENDS Naturals

CONSTANTS
    Terminals,    \* the a2l commands that may use the profile
    None,         \* no file, no process, no endpoint
    Everyday,     \* a browser that is not on the dedicated profile
    MaxLaunches,  \* bound: how many browsers are ever launched
    MaxMishaps    \* bound: browsers that die, commands killed, waits that end

ASSUME LaunchesAssumption == MaxLaunches \in Nat /\ MaxMishaps \in Nat
ASSUME EndpointsAssumption == /\ None \notin Nat /\ Everyday \notin Nat
                              /\ None # Everyday

VARIABLES
    stage,     \* what each command is doing with the profile
    child,     \* the process each command launched: a browser, Handoff or None
    endpoint,  \* the browser each command talks to
    owned,     \* whether the command believes it launched that browser
    running,   \* the browsers that run on the dedicated profile
    marker,    \* the browser DevToolsActivePort names
    locked,    \* whether a Singleton* lock exists
    everyday,  \* the dead browser whose port an everyday browser now uses
    launched,  \* how many browsers were launched
    mishaps    \* how many things went wrong that the code does not control

browserVars == <<stage, child, endpoint, owned, running, marker, locked,
                 everyday, launched, mishaps>>

Browsers == 1..MaxLaunches
Handoff == 0  \* a launched process that passes on to the running browser
Stages == {"idle", "acquire", "launch", "wait", "use", "close", "unmark"}

BrowserTypeOK ==
    /\ stage \in [Terminals -> Stages]
    /\ child \in [Terminals -> Browsers \cup {Handoff, None}]
    /\ endpoint \in [Terminals -> Browsers \cup {Everyday, None}]
    /\ owned \in [Terminals -> BOOLEAN]
    /\ running \subseteq Browsers
    /\ marker \in Browsers \cup {None}
    /\ locked \in BOOLEAN
    /\ everyday \in Browsers \cup {None}
    /\ launched \in 0..MaxLaunches
    /\ mishaps \in 0..MaxMishaps

BrowserInit ==
    /\ stage = [t \in Terminals |-> "idle"]
    /\ child = [t \in Terminals |-> None]
    /\ endpoint = [t \in Terminals |-> None]
    /\ owned = [t \in Terminals |-> FALSE]
    /\ running = {}
    /\ marker = None
    /\ locked = FALSE
    /\ everyday = None
    /\ launched = 0
    /\ mishaps = 0

Go(t, s) == stage' = [stage EXCEPT ![t] = s]

-----------------------------------------------------------------------------
(* What the marker leads to *)

\* Who answers on the port that the marker of browser b names.
Answers(b) ==
    CASE b \in running  -> b
      [] b = everyday   -> Everyday
      [] OTHER          -> None

\* _process_owns_profile: the answering process was started on the profile.
OwnsProfile(b) == b \in Browsers

\* _read_valid_endpoint, as it would be without comparing the websocket path.
ValidByPort(t) == Answers(marker) # None

\* _read_valid_endpoint: the port answers, the path it reports is the
\* marker's, and, unless the command launched it, its process has the profile.
ValidEndpoint(t) ==
    LET found == Answers(marker)
    IN  /\ found # None
        /\ found = marker
        /\ child[t] = None => OwnsProfile(found)

-----------------------------------------------------------------------------
(* Acquiring an endpoint *)

\* authenticate_browser, or the factory's first page, starts.
Begin(t) ==
    /\ stage[t] = "idle"
    /\ Go(t, "acquire")
    /\ UNCHANGED <<child, endpoint, owned, running, marker, locked, everyday,
                   launched, mishaps>>

\* The command gives up: AuthenticationError, nothing is left to close.
GiveUp(t) ==
    /\ Go(t, "idle")
    /\ child' = [child EXCEPT ![t] = None]
    /\ endpoint' = [endpoint EXCEPT ![t] = None]
    /\ owned' = [owned EXCEPT ![t] = FALSE]

\* A marker that is there when the command starts is used as it is, or refused.
Attach(t) ==
    /\ stage[t] = "acquire"
    /\ marker # None
    /\ \/ /\ ValidEndpoint(t)
          /\ endpoint' = [endpoint EXCEPT ![t] = Answers(marker)]
          /\ Go(t, "use")
          /\ UNCHANGED <<child, owned>>
       \/ /\ ~ValidEndpoint(t)
          /\ GiveUp(t)
    /\ UNCHANGED <<running, marker, locked, everyday, launched, mishaps>>

\* No marker: a lock without one is refused, otherwise a browser is launched.
Check(t) ==
    /\ stage[t] = "acquire"
    /\ marker = None
    /\ IF locked
       THEN GiveUp(t)
       ELSE Go(t, "launch") /\ UNCHANGED <<child, endpoint, owned>>
    /\ UNCHANGED <<running, marker, locked, everyday, launched, mishaps>>

\* locate_browser found none, or Popen failed.
NoBrowser(t) ==
    /\ stage[t] = "launch"
    /\ GiveUp(t)
    /\ UNCHANGED <<running, marker, locked, everyday, launched, mishaps>>

\* External: what makes Chromium hand off.  A lock whose browser is dead does
\* not, nor does a browser whose lock was removed with the profile.
Occupied == locked /\ running # {}

\* Popen: Chromium takes the profile, or hands off to the one that has it.
Launch(t) ==
    /\ stage[t] = "launch"
    /\ Go(t, "wait")
    /\ \/ /\ ~Occupied
          /\ launched < MaxLaunches
          /\ launched' = launched + 1
          /\ running' = running \cup {launched'}
          /\ child' = [child EXCEPT ![t] = launched']
          /\ locked' = TRUE
       \/ /\ Occupied
          /\ child' = [child EXCEPT ![t] = Handoff]
          /\ UNCHANGED <<running, locked, launched>>
    /\ UNCHANGED <<endpoint, owned, marker, everyday, mishaps>>

\* External: a running browser writes DevToolsActivePort.
BrowserWritesMarker(b) ==
    /\ b \in running
    /\ marker # b
    /\ marker' = b
    /\ UNCHANGED <<stage, child, endpoint, owned, running, locked, everyday,
                   launched, mishaps>>

\* process.poll() of the wait loop.
ChildExited(t) == child[t] = Handoff \/ child[t] \notin running

\* The wait loop: the launched process is gone.  A hand-off process counts as
\* gone only once it has exited, which may be after the next look at the marker.
ChildGone(t) ==
    /\ stage[t] = "wait"
    /\ ChildExited(t)
    /\ GiveUp(t)
    /\ UNCHANGED <<running, marker, locked, everyday, launched, mishaps>>

\* The wait loop: a marker is there and leads to a browser.
Adopt(t) ==
    /\ stage[t] = "wait"
    /\ child[t] = Handoff \/ ~ChildExited(t)
    /\ marker # None
    /\ ValidEndpoint(t)
    /\ endpoint' = [endpoint EXCEPT ![t] = Answers(marker)]
    /\ owned' = [owned EXCEPT ![t] = TRUE]
    /\ Go(t, "use")
    /\ UNCHANGED <<child, running, marker, locked, everyday, launched, mishaps>>

\* _terminate_owned_process: Chromium ends and takes its locks with it.
Terminate(ended) ==
    /\ running' = running \ ended
    /\ locked' = IF ended \cap running # {} THEN FALSE ELSE locked

\* The wait loop's deadline: the launched process is terminated.  The marker
\* it may have written stays.
WaitEnds(t) ==
    /\ stage[t] = "wait"
    /\ mishaps < MaxMishaps
    /\ mishaps' = mishaps + 1
    /\ Terminate({child[t]})
    /\ GiveUp(t)
    /\ UNCHANGED <<marker, everyday, launched>>

-----------------------------------------------------------------------------
(* Leaving *)

\* Sockets are closed; only a browser that is owned is closed as well.
Leave(t) ==
    /\ stage[t] = "use"
    /\ IF owned[t]
       THEN Go(t, "close") /\ UNCHANGED <<child, endpoint, owned>>
       ELSE GiveUp(t)
    /\ UNCHANGED <<running, marker, locked, everyday, launched, mishaps>>

\* The owned browser closed with its marker left in place.
CloseOnly(t) ==
    /\ stage[t] = "close"
    /\ Terminate({endpoint[t], child[t]})
    /\ GiveUp(t)
    /\ UNCHANGED <<marker, everyday, launched, mishaps>>

\* _close_owned_browser: Browser.close at the endpoint, then wait for the
\* launched process (or terminate it).
CloseOwned(t) ==
    /\ stage[t] = "close"
    /\ Terminate({endpoint[t], child[t]})
    /\ Go(t, "unmark")
    /\ UNCHANGED <<child, endpoint, owned, marker, everyday, launched, mishaps>>

\* _remove_owned_active_port: the marker goes only if it is this launch's.
Unmark(t) ==
    /\ stage[t] = "unmark"
    /\ marker' = IF marker = endpoint[t] THEN None ELSE marker
    /\ GiveUp(t)
    /\ UNCHANGED <<running, locked, everyday, launched, mishaps>>

-----------------------------------------------------------------------------
(* What the code does not control *)

\* The student closes the browser (its locks go) or it crashes (they stay).
BrowserDies(b) ==
    /\ b \in running
    /\ mishaps < MaxMishaps
    /\ mishaps' = mishaps + 1
    /\ running' = running \ {b}
    /\ locked' \in BOOLEAN
    /\ UNCHANGED <<stage, child, endpoint, owned, marker, everyday, launched>>

\* An everyday browser opens DevTools on a port that a dead browser had used.
EverydayListens(b) ==
    /\ b \in 1..launched
    /\ b \notin running
    /\ everyday # b
    /\ everyday' = b
    /\ UNCHANGED <<stage, child, endpoint, owned, running, marker, locked,
                   launched, mishaps>>

\* The command is killed: the browser runs in a session of its own and stays.
KilledCommand(t) ==
    /\ stage[t] # "idle"
    /\ mishaps < MaxMishaps
    /\ mishaps' = mishaps + 1
    /\ GiveUp(t)
    /\ UNCHANGED <<running, marker, locked, everyday, launched>>
=============================================================================
