----------------------------- MODULE RequestLoop -----------------------------
(* One call of the LEARN client (api.py: Client._request and the callers    *)
(* that decode what it returns): explicit redirects within the origin,      *)
(* retries of a GET while the server is busy, and one single attempt of     *)
(* everything that changes LEARN.                                           *)
(*                                                                          *)
(* A target is a model value; those in Elsewhere have another origin.  What *)
(* the server answers is external.  Left out: how long the client waits     *)
(* between attempts, and the body of the answer.                            *)
EXTENDS Naturals, FiniteSets

CONSTANTS
    Targets,      \* the URLs of the configured origin
    Elsewhere,    \* the URLs a redirect may name outside of it
    MaxRetries,   \* MAX_RETRIES: attempts of one GET while the server is busy
    MaxRedirects, \* MAX_REDIRECTS
    NoCall        \* no call is in progress

ASSUME RequestAssumption ==
    /\ MaxRetries \in Nat \ {0}
    /\ MaxRedirects \in Nat
    /\ Targets \cap Elsewhere = {}

VARIABLES
    call,   \* the call in progress, or NoCall
    sent,   \* the requests this call has sent (saturating one above the limit)
    result  \* how the last call ended

requestVars == <<call, sent, result>>

\* get_json, get_json_once and post_once.
Kinds == {"get", "once", "post"}
Results == {"none", "ok", "expired", "failed", "blocked"}

\* attempt and redirects are the loop's counters, visited its set.
Calls == [kind : Kinds, target : Targets, visited : SUBSET Targets,
          attempt : 1..MaxRetries, redirects : 0..MaxRedirects]

ASSUME NoCallAssumption == NoCall \notin Calls

\* More requests than any call may send.
Limit == MaxRetries + MaxRedirects

RequestTypeOK ==
    /\ call \in Calls \cup {NoCall}
    /\ sent \in 0..(Limit + 1)
    /\ result \in Results

RequestInit ==
    /\ call = NoCall
    /\ sent = 0
    /\ result = "none"

-----------------------------------------------------------------------------

\* _request is entered; _resolve_url has accepted the target.
Enter(kind, target) ==
    /\ call = NoCall
    /\ call' = [kind |-> kind, target |-> target, visited |-> {target},
                attempt |-> 1, redirects |-> 0]
    /\ sent' = 0
    /\ result' = "none"

\* One request leaves; what comes back decides about the next.
Transmit == sent' = IF sent > Limit THEN sent ELSE sent + 1

End(how) == call' = NoCall /\ result' = how

\* retryable: never a call that changes LEARN, nor a one-shot read-back.
Retryable == call.kind = "get"

\* 429 or 5xx: the GET is tried again until its attempts are used up.
Retry ==
    IF Retryable /\ call.attempt < MaxRetries
    THEN call' = [call EXCEPT !.attempt = @ + 1] /\ UNCHANGED result
    ELSE End("failed")

\* A redirect that is replayed whatever the call is.
FollowAlways(location) ==
    IF \/ call.redirects = MaxRedirects
       \/ location \notin Targets
       \/ location \in call.visited
    THEN End("blocked")
    ELSE /\ call' = [call EXCEPT !.target = location,
                                 !.visited = @ \cup {location},
                                 !.redirects = @ + 1]
         /\ UNCHANGED result

\* 3xx: followed by a plain GET only, within the limit, within the origin and
\* never to a target that was visited.
Follow(location) ==
    IF \/ call.kind # "get"
       \/ call.redirects = MaxRedirects
       \/ location \notin Targets
       \/ location \in call.visited
    THEN End("blocked")
    ELSE /\ call' = [call EXCEPT !.target = location,
                                 !.visited = @ \cup {location},
                                 !.redirects = @ + 1]
         /\ UNCHANGED result

\* The transport raises (no retry), or the answer has no usable location,
\* status or JSON.
Fails == End("failed")

\* Everything the server may answer to the request, given whether it still
\* accepts the session: _is_login_response is SessionExpired.
Respond(accepted) ==
    /\ call # NoCall
    /\ Transmit
    /\ \/ accepted /\ End("ok")
       \/ ~accepted /\ End("expired")
       \/ Retry
       \/ \E location \in Targets \cup Elsewhere : Follow(location)
       \/ Fails

-----------------------------------------------------------------------------
(* Properties *)

\* Whatever the server answers, in whatever order it is busy, redirects and
\* busy again: a call that changes LEARN, or reads back what changed, sends
\* one request, and a GET no more than its attempts and redirects allow.
RequestsAreBounded ==
    /\ sent <= Limit
    /\ call # NoCall /\ call.kind # "get" => sent = 0
=============================================================================
