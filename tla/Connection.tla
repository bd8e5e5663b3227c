----------------------------- MODULE Connection -----------------------------
(* From a sign-in to a calibrated client: `a2l auth` in one terminal stores *)
(* a verified session (auth/__init__.py, auth/paste.py) while a command in  *)
(* another loads one, opens a client on it and enumerates the enrolments    *)
(* (calibrate.py), or makes the calls of a submission.  The store is        *)
(* SessionStore's, a client call RequestLoop's; what the dedicated browser  *)
(* does before it returns its cookies is SignIn's.                          *)
(*                                                                          *)
(* LEARN stops accepting sessions in the order of the sign-ins.  Left out:  *)
(* the items of an enrolment page, and the file calibration.json.           *)
EXTENDS SessionStore, RequestLoop

CONSTANTS
    Bookmarks,  \* the bookmarks an enrolment page may name
    LastPage,   \* the page has no more items
    MaxPages    \* _MAX_PAGES: the pages of one enumeration

ASSUME PagesAssumption == MaxPages \in Nat \ {0} /\ LastPage \notin Bookmarks

VARIABLES
    harvested,  \* the number of sessions that were harvested
    pending,    \* the pasted session that is not verified yet, or 0
    expired,    \* LEARN accepts the sessions above this one
    stage,      \* what the command in the other terminal does
    using,      \* the session its client carries
    seen        \* seen_bookmarks of its enumeration

connectionVars == <<storeVars, requestVars, harvested, pending, expired, stage, using, seen>>

CallStages == {"versions", "whoami", "page", "submission"}

ConnectionTypeOK ==
    /\ StoreTypeOK
    /\ RequestTypeOK
    /\ harvested \in 0..MaxSessions
    /\ pending \in 0..harvested
    /\ expired \in 0..harvested
    /\ stage \in CallStages \cup {"off"}
    /\ using \in Sessions \cup {NoSession}
    /\ seen \subseteq Bookmarks

ConnectionInit ==
    /\ StoreInit
    /\ RequestInit
    /\ harvested = 0
    /\ pending = 0
    /\ expired = 0
    /\ stage = "off"
    /\ using = NoSession
    /\ seen = {}

commandVars == <<stage, using, seen>>

-----------------------------------------------------------------------------
(* a2l auth *)

CanSignIn == step = "idle" /\ pending = 0 /\ harvested < MaxSessions

\* authenticate(backend="auto"): SignIn's session, verified in its page.
BrowserSignIn ==
    /\ CanSignIn
    /\ harvested' = harvested + 1
    /\ BeginStore(harvested')
    /\ UNCHANGED <<requestVars, pending, expired, commandVars>>

\* _authenticate_from_paste: the pasted cookies hold those of a session; a
\* paste that does not ends the command with nothing changed.
Paste ==
    /\ CanSignIn
    /\ harvested' = harvested + 1
    /\ pending' = harvested'
    /\ UNCHANGED <<storeVars, requestVars, expired, commandVars>>

\* verify: LEARN names a version of its API, and the identifier of the user
\* whose session it accepts.
Identified == pending > expired

\* verify returned the identifier: the session is stored.
Verified ==
    /\ pending # 0
    /\ Identified
    /\ BeginStore(pending)
    /\ pending' = 0
    /\ UNCHANGED <<requestVars, harvested, expired, commandVars>>

\* verify returned None, or the command was killed while it waited.
NotVerified ==
    /\ pending # 0
    /\ pending' = 0
    /\ UNCHANGED <<storeVars, requestVars, harvested, expired, commandVars>>

StoreContinues ==
    /\ pending = 0
    /\ StoreStep
    /\ UNCHANGED <<requestVars, harvested, pending, expired, commandVars>>

\* External: LEARN ends a session.
Expire ==
    /\ expired < harvested
    /\ expired' = expired + 1
    /\ UNCHANGED <<storeVars, requestVars, harvested, pending, commandVars>>

-----------------------------------------------------------------------------
(* The command in the other terminal *)

\* load at its start, then a client for the enumeration or for a submission.
\* Without a session the command ends at once.
Open ==
    /\ stage = "off"
    /\ \E session \in Loads \ {NoSession} : using' = session
    /\ stage' \in {"versions", "submission"}
    /\ seen' = {}
    /\ result' = "none"
    /\ UNCHANGED <<storeVars, call, sent, harvested, pending, expired>>

KindsOf(s) == IF s = "submission" THEN {"post", "once"} ELSE {"get"}

CallStarts ==
    /\ stage # "off"
    /\ result = "none"
    /\ \E kind \in KindsOf(stage), target \in Targets : Enter(kind, target)
    /\ UNCHANGED <<storeVars, harvested, pending, expired, commandVars>>

CallContinues ==
    /\ Respond(using > expired)
    /\ UNCHANGED <<storeVars, harvested, pending, expired, commandVars>>

Leave == stage' = "off" /\ using' = NoSession /\ seen' = {}

\* _versions found lp and le: the next request is whoami, then the first page.
Advance ==
    /\ result = "ok"
    /\ \/ stage = "versions" /\ stage' = "whoami"
       \/ stage = "whoami" /\ stage' = "page"
    /\ result' = "none"
    /\ UNCHANGED <<storeVars, call, sent, harvested, pending, expired, using, seen>>

\* An enumeration that trusts the server to come to an end.
PageTrusted(next) ==
    IF next = LastPage
    THEN Leave /\ UNCHANGED result
    ELSE /\ seen' = seen \cup {next}
         /\ result' = "none"
         /\ UNCHANGED <<stage, using>>

\* _enumerate_courses: a bookmark that was seen, or a page too many, ends it
\* with an error, the last page with the calibration.
Page(next) ==
    IF next = LastPage \/ next \in seen \/ Cardinality(seen) + 1 = MaxPages
    THEN Leave /\ UNCHANGED result
    ELSE /\ seen' = seen \cup {next}
         /\ result' = "none"
         /\ UNCHANGED <<stage, using>>

ReadPage ==
    /\ stage = "page"
    /\ result = "ok"
    /\ \E next \in Bookmarks \cup {LastPage} : Page(next)
    /\ UNCHANGED <<storeVars, call, sent, harvested, pending, expired>>

\* A call that did not succeed ends the command, as does the submission's.
\* So does an answer that calibrate cannot use.
Stop ==
    /\ stage # "off"
    /\ result # "none"
    /\ Leave
    /\ UNCHANGED <<storeVars, requestVars, harvested, pending, expired>>

\* Ctrl-C, or the process is killed.
KilledCommand ==
    /\ stage # "off"
    /\ call' = NoCall
    /\ Leave
    /\ UNCHANGED <<storeVars, sent, result, harvested, pending, expired>>

-----------------------------------------------------------------------------

CommandStep == CallStarts \/ CallContinues \/ Advance \/ ReadPage \/ Stop

ConnectionNext ==
    \/ BrowserSignIn \/ Paste \/ Verified \/ NotVerified \/ StoreContinues
    \/ Expire
    \/ Open \/ CommandStep \/ KilledCommand

\* The command's process runs, and a request that is not answered raises when
\* its read timeout passes.  Nothing makes the student sign in, or the server
\* answer well.
ConnectionSpec == ConnectionInit /\ [][ConnectionNext]_connectionVars /\ WF_connectionVars(CommandStep)

-----------------------------------------------------------------------------
(* Properties *)

\* Course discovery comes to an end whatever LEARN answers: busy for ever, in
\* circles of redirects, or with page after page (_request,
\* _enumerate_courses).
DiscoveryEnds == (stage = "page") ~> (stage # "page")
=============================================================================
