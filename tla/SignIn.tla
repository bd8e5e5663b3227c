------------------------------- MODULE SignIn -------------------------------
(* Sign-in with the dedicated browser: `a2l auth` with its request gate, an *)
(* outline renderer in another terminal, and `a2l auth --clear-profile` in  *)
(* a third, over one browser profile (auth/__init__.py, auth/cdp.py).       *)
(* What is stored afterwards is SessionStore's.                             *)
EXTENDS DedicatedBrowser, AuthGate

CONSTANTS
    Auth  \* the terminal that signs in; the others render outlines

ASSUME AuthAssumption == Auth \in Terminals

VARIABLES
    clearing  \* whether clear_profile waits for the student's yes

vars == <<browserVars, gateVars, clearing>>

TypeOK ==
    /\ BrowserTypeOK
    /\ GateTypeOK
    /\ clearing \in BOOLEAN

Init == BrowserInit /\ GateInit /\ clearing = FALSE

-----------------------------------------------------------------------------
(* a2l auth: the page of the endpoint, then the commands behind the gate *)

Connected == endpoint[Auth] \in running

\* _wait_for_page found a page target, and its socket opened.
ConnectPage ==
    /\ stage[Auth] = "use"
    /\ call = "off"
    /\ Connected
    /\ OpenGate
    /\ UNCHANGED <<browserVars, clearing>>

\* The page, as long as its browser runs.
PageStep ==
    /\ Connected
    /\ Answer \/ \E r \in Requests : PauseRequest(r)
    /\ UNCHANGED <<browserVars, clearing>>

GateStep ==
    /\ ReceiveRequest \/ ReceiveResult \/ GateStops
    /\ UNCHANGED <<browserVars, clearing>>

\* authenticate_browser returns or raises: the page's socket is closed, then
\* an owned browser.  Without a page there was nothing to close.
AuthLeaves ==
    /\ call \in Outcomes \cup {"off"}
    /\ Leave(Auth)
    /\ CloseGate
    /\ UNCHANGED clearing

\* The factory of the outline renderer is closed.
RendererLeaves(t) ==
    /\ t # Auth
    /\ Leave(t)
    /\ UNCHANGED <<gateVars, clearing>>

-----------------------------------------------------------------------------
(* a2l auth --clear-profile *)

\* clear_profile: a profile in use is refused before the student is asked.
AskToClear ==
    /\ ~clearing
    /\ ~locked
    /\ clearing' = TRUE
    /\ UNCHANGED <<browserVars, gateVars>>

\* The student declines, or the profile cannot be removed.
KeepProfile ==
    /\ clearing
    /\ clearing' = FALSE
    /\ UNCHANGED <<browserVars, gateVars>>

\* remove_tree(profile): the marker and the locks go with it, whatever runs.
RemoveProfile ==
    /\ clearing
    /\ running # {} => mishaps < MaxMishaps
    /\ clearing' = FALSE
    /\ marker' = None
    /\ locked' = FALSE
    /\ mishaps' = IF running = {} THEN mishaps ELSE mishaps + 1
    /\ UNCHANGED <<stage, child, endpoint, owned, running, everyday, launched,
                   gateVars>>

-----------------------------------------------------------------------------

\* A command that is killed takes its sockets with it.
Killed(t) ==
    /\ KilledCommand(t)
    /\ IF t = Auth THEN CloseGate ELSE UNCHANGED gateVars
    /\ UNCHANGED clearing

ProfileStep(t) ==
    /\ \/ Begin(t) \/ Attach(t) \/ Check(t) \/ NoBrowser(t) \/ Launch(t)
       \/ ChildGone(t) \/ Adopt(t) \/ WaitEnds(t) \/ CloseOwned(t) \/ Unmark(t)
    /\ UNCHANGED <<gateVars, clearing>>

BrowserStep(b) ==
    /\ BrowserWritesMarker(b) \/ BrowserDies(b) \/ EverydayListens(b)
    /\ UNCHANGED <<gateVars, clearing>>

Next ==
    \/ \E t \in Terminals : ProfileStep(t) \/ RendererLeaves(t) \/ Killed(t)
    \/ \E b \in Browsers : BrowserStep(b)
    \/ ConnectPage \/ PageStep \/ GateStep \/ AuthLeaves
    \/ AskToClear \/ KeepProfile \/ RemoveProfile

Spec == Init /\ [][Next]_vars

-----------------------------------------------------------------------------
(* Properties *)

\* A command never talks to a browser that is not on the dedicated profile,
\* although the port that an old marker names may be an everyday browser's by
\* now (_read_valid_endpoint).
EndpointIsDedicated == \A t \in Terminals : endpoint[t] # Everyday

\* Sign-ins and renderings that overlap in any way, and of which none was
\* killed, timed out or lost its browser, leave nothing that makes the next
\* one refuse the profile: no browser, no lock, no marker of a dead one.
NothingIsLeftBehind ==
    mishaps = 0 /\ (\A t \in Terminals : stage[t] = "idle")
        => running = {} /\ ~locked /\ marker = None

\* Every request of the page gets one decision, and no session is harvested
\* once an undeclared document was refused, whichever command was waiting.
GateHolds ==
    /\ \A r \in Requests : Len(decided[r]) <= 1
    /\ call = "harvested" =>
         \A r \in Undeclared \cap Documents : decided[r] = <<>>
=============================================================================
