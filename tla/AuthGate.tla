------------------------------ MODULE AuthGate ------------------------------
(* The request gate of a browser sign-in (auth/cdp.py: _AuthGate,           *)
(* _call_with_gate, _wait_for_authenticated_page).                          *)
(*                                                                          *)
(* One websocket carries the replies to the commands that a2l sends and the *)
(* requests of the page that Chromium has paused; the gate decides about a  *)
(* paused request while a command waits for its reply.  Requests are model  *)
(* values: a page request is Undeclared when its host is neither LEARN's    *)
(* nor one of the school's sign-in hosts, and a Document when it is a       *)
(* navigation.  Chromium may announce a request twice.  Left out: malformed *)
(* events (decided like an undeclared document) and the wording of errors.  *)
EXTENDS Naturals, Sequences

CONSTANTS
    Requests,    \* what the page asks for during the sign-in
    Undeclared,  \* the requests to hosts the school does not declare
    Documents,   \* the requests for documents and frames
    MaxWire,     \* bound: messages on the socket not yet received
    Reply,       \* a command's result
    Identity,    \* the result of an evaluation that found an identifier
    Fault,       \* an error that may be retried: the page is navigating
    Failure      \* any other error of a command

ASSUME RequestsAssumption ==
    /\ Undeclared \subseteq Requests /\ Documents \subseteq Requests
    /\ MaxWire \in Nat

VARIABLES
    call,     \* the command that waits for its reply, or the step between
    wire,     \* what Chromium has sent and a2l has not received
    paused,   \* the requests Chromium holds until it has a decision
    decided,  \* the decisions sent for each request, in order
    blocked,  \* some undeclared request was failed
    fatal     \* an undeclared document was failed

gateVars == <<call, wire, paused, decided, blocked, fatal>>

Commands == {"enable", "navigate", "evaluate", "cookies"}
Outcomes == {"harvested", "stopped"}

GateTypeOK ==
    /\ call \in Commands \cup Outcomes \cup {"off"}
    /\ wire \in Seq(Requests \cup {Reply, Identity, Fault, Failure})
    /\ Len(wire) <= MaxWire
    /\ paused \subseteq Requests
    /\ decided \in [Requests -> Seq({"continue", "fail"})]
    /\ blocked \in BOOLEAN
    /\ fatal \in BOOLEAN

GateInit ==
    /\ call = "off"
    /\ wire = <<>>
    /\ paused = {}
    /\ decided = [r \in Requests |-> <<>>]
    /\ blocked = FALSE
    /\ fatal = FALSE

\* A new page connection, with a gate of its own.
OpenGate ==
    /\ call' = "enable"
    /\ UNCHANGED <<wire, paused, decided, blocked, fatal>>

-----------------------------------------------------------------------------
(* External: the page and Chromium *)

Results(c) ==
    CASE c = "evaluate" -> {Reply, Identity, Fault, Failure}
      [] OTHER          -> {Reply, Failure}

Answered == \E i \in DOMAIN wire : wire[i] \notin Requests

\* Fetch.enable pauses every request of the page until it is decided.
PauseRequest(r) ==
    /\ call \in Commands \ {"enable"}
    /\ Len(wire) < MaxWire
    /\ \/ decided[r] = <<>> /\ r \notin paused
       \/ r \in paused
    /\ paused' = paused \cup {r}
    /\ wire' = Append(wire, r)
    /\ UNCHANGED <<call, decided, blocked, fatal>>

\* Chromium answers the command, or reports that it failed.
Answer ==
    /\ call \in Commands
    /\ ~Answered
    /\ Len(wire) < MaxWire
    /\ \E result \in Results(call) : wire' = Append(wire, result)
    /\ UNCHANGED <<call, paused, decided, blocked, fatal>>

-----------------------------------------------------------------------------
(* The gate: one message is received while a command waits *)

\* _auth_url_allowed.
Allowed(r) == r \notin Undeclared

\* _AuthGate.handle: a request gets one decision, and the first undeclared
\* document is remembered.
Decide(r) ==
    /\ wire' = Tail(wire)
    /\ IF decided[r] # <<>>
       THEN UNCHANGED <<paused, decided, blocked, fatal>>
       ELSE /\ paused' = paused \ {r}
            /\ decided' = [decided EXCEPT
                    ![r] = <<IF Allowed(r) THEN "continue" ELSE "fail">>]
            /\ blocked' = (blocked \/ ~Allowed(r))
            /\ fatal' = (fatal \/ (~Allowed(r) /\ r \in Documents))
    /\ UNCHANGED call

ReceiveRequest ==
    /\ call \in Commands
    /\ wire # <<>> /\ Head(wire) \in Requests
    /\ Decide(Head(wire))

\* raise_if_blocked after a command as the wait alone would do it.
StopsInWait == call = "evaluate" /\ fatal

\* raise_if_blocked: every command after the enabling ones ends with it.
Stops == call # "enable" /\ fatal

\* The command that follows: evaluations repeat until the page is signed in.
After(result) ==
    CASE call = "enable"   -> "navigate"
      [] call = "navigate" -> "evaluate"
      [] call = "evaluate" -> IF result = Identity THEN "cookies" ELSE "evaluate"
      [] call = "cookies"  -> "harvested"

\* _call_with_gate: a blocked request is reported before the command's own
\* error; _CDPCommandError of an evaluation is retried while it is transient.
ReceiveResult ==
    /\ call \in Commands
    /\ wire # <<>> /\ Head(wire) \notin Requests
    /\ wire' = Tail(wire)
    /\ LET result == Head(wire)
       IN  call' = IF Stops \/ result = Failure THEN "stopped" ELSE After(result)
    /\ UNCHANGED <<paused, decided, blocked, fatal>>

\* The socket closes or times out, the sign-in deadline passes, the transient
\* error has been retried for long enough, or the cookies are incomplete.
GateStops ==
    /\ call \in Commands
    /\ call' = "stopped"
    /\ UNCHANGED <<wire, paused, decided, blocked, fatal>>

\* The connection is closed, and its gate is gone.
CloseGate ==
    /\ call' = "off"
    /\ wire' = <<>>
    /\ paused' = {}
    /\ decided' = [r \in Requests |-> <<>>]
    /\ blocked' = FALSE
    /\ fatal' = FALSE
=============================================================================
