------------------------------ MODULE RoundTrip ------------------------------
(***************************************************************************)
(* One forwarded request: the headers that serveGet and                    *)
(* serveUpstreamPropfind pass on, state.roundTrip, which follows redirects *)
(* of the upstream, directly or through the download proxy, and what the   *)
(* client is answered.                                                     *)
(*                                                                         *)
(* Servers are represented by their origins, headers by their names.  The  *)
(* upstream, the proxy and the network are the environment: each request   *)
(* gets any response, an error or nothing until the context ends.          *)
(***************************************************************************)
EXTENDS Integers, ProxyStatus

CONSTANTS
    Methods,        \* methods that are forwarded
    ClientHeaders,  \* sets of headers that a client may send
    Origins,        \* origins of servers
    Home,           \* origin of the upstream
    ProxyOrigin,    \* origin of the download proxy
    Statuses,       \* status codes that servers and the proxy return
    ProxyStatuses,  \* Proxy-Status headers that the proxy sends
    MaxRedirects    \* maxRedirects; 10 in the code

ASSUME OriginsAssumption ==
    /\ Home \in Origins
    /\ ProxyOrigin \in Origins
    /\ Home # ProxyOrigin
ASSUME MethodsAssumption == Methods \subseteq {"GET", "HEAD", "PROPFIND"}
ASSUME StatusesAssumption == Statuses \subseteq 200..599
ASSUME ProxyStatusesAssumption == ProxyStatuses \subseteq Seq(Seq(Parameters))
ASSUME MaxRedirectsAssumption == MaxRedirects \in Nat

getRequestHeaders ==
    {"Accept", "Accept-Encoding", "Accept-Language", "If-Match", "If-Modified-Since",
     "If-None-Match", "If-Range", "If-Unmodified-Since", "Range", "User-Agent"}
getResponseHeaders ==
    {"Accept-Ranges", "Content-Disposition", "Content-Encoding", "Content-Language",
     "Content-Length", "Content-Range", "Content-Type", "ETag", "Last-Modified", "Vary"}
propfindRequestHeaders == {"Accept-Language", "Brief", "Content-Type", "Prefer", "User-Agent"}
propfindResponseHeaders == {"Content-Language", "Preference-Applied", "Vary"}
errorResponseHeaders == {"Content-Range", "Retry-After"}
supportedMethods == {"OPTIONS", "GET", "HEAD", "PROPFIND"}

HeaderNames ==
    getRequestHeaders \cup propfindRequestHeaders \cup
    {"Authorization", "Cookie", "Depth"}
ASSUME ClientHeadersAssumption == ClientHeaders \subseteq SUBSET HeaderNames

VARIABLES
    method,      \* of the request
    header,      \* upstreamRequest.header
    hasAuth,     \* the upstream has credentials
    hasProxy,    \* the upstream has a download proxy
    cancelled,   \* the context of the request is done
    phase,       \* where roundTrip is
    hop,         \* redirects followed so far
    target,      \* the URL wanted in this hop
    sent,        \* history: the requests made
    named,       \* history: origins named by a Location
    resp,        \* the response to the last request
    unclosed,    \* hops whose response body is not closed
    outcome,     \* what roundTrip returned
    answer,      \* status sent to the client
    reply        \* the header sent with it

setup == <<method, hasAuth, hasProxy>>
chain == <<hop, target, sent, named>>
result == <<outcome, answer, reply>>
vars == <<setup, header, cancelled, phase, chain, resp, unclosed, result>>

\* Values of answer that are no status: not yet, and nothing was written.
NoAnswer == -1
Silent == -2
NoReply == [header |-> {}, allow |-> {}]

viaProxy == hasProxy /\ method # "PROPFIND"

URL == [origin : Origins, userinfo : BOOLEAN, fragment : BOOLEAN]
HomeURL == [origin |-> Home, userinfo |-> FALSE, fragment |-> FALSE]

\* The Location header: absent, a URL that does not parse or is neither http
\* nor https, a reference relative to the target, or an absolute URL.
Locations ==
    [kind : {"absent", "rejected", "relative"}, url : {HomeURL}]
    \cup [kind : {"absolute"}, url : URL]

\* Servers send every other header that there is: one that is absent is not
\* copied, and that is the only difference it makes.  Proxy-Status is only
\* looked at with the download proxy, Allow only with a 405.
Responses ==
    LET Response(statuses, allows) ==
            [status : statuses, location : Locations,
             proxyStatus : IF viaProxy THEN ProxyStatuses ELSE {<<>>}, allow : allows]
    IN  Response(Statuses, {{}})
        \cup Response(Statuses \cap {405}, {{"GET", "DELETE"}, {"DELETE"}})
NoResponse ==
    [status |-> 0, location |-> [kind |-> "absent", url |-> HomeURL],
     proxyStatus |-> <<>>, allow |-> {}]

Clients == {"upstream", "external", "proxy"}
Requests == [hop : Nat, url : URL, client : Clients, header : SUBSET HeaderNames]

Outcomes == {"none", "response", "timeoutError", "otherError",
             "proxyTimeout", "proxyOther"}

sameOrigin == target.origin = Home

\* copyHeaders by white list, and what is set besides.  A body is sent with a
\* Content-Type; without Accept-Encoding net/http would decompress by itself.
Forwarded(client, hasBody) ==
    IF method = "PROPFIND"
    THEN (client \cap propfindRequestHeaders) \cup {"Depth"}
         \cup (IF hasBody THEN {"Content-Type"} ELSE {})
    ELSE (client \cap getRequestHeaders) \cup {"Accept-Encoding"}

followable(m, code) ==
    \/ code \in {301, 302, 307, 308}
    \/ code = 303 /\ m \in {"GET", "HEAD"}

\* Mutants: only 401 is recognised as a challenge to the credentials of the
\* mux; there is no default, and the zero value is returned.
errorStatus407(code) ==
    IF code \in 400..499 \ {401} \/ code \in {503, 504} THEN code ELSE 502
errorStatusNoDefault(code) ==
    IF code \in {401, 407} THEN 502
    ELSE IF code \in 400..499 \/ code \in {503, 504} THEN code ELSE 0

\* 401 and 407 are about the credentials of the mux.
errorStatus(code) ==
    IF code \in 400..499 \ {401, 407} \/ code \in {503, 504} THEN code ELSE 502

\* Of the methods that the upstream allows those that webdav-mux has, too.
filterAllow(allow) ==
    IF allow \cap supportedMethods = {} THEN {"OPTIONS", "PROPFIND"}
    ELSE allow \cap supportedMethods

\* Is a response of the upstream passed on as a success?
succeeds(m, code) ==
    IF m = "PROPFIND" THEN code \in {200, 207}
    ELSE code \in 200..299 \/ code = 304

\* The status of a success: a PROPFIND is always answered with 207.
successStatus(m, code) == IF m = "PROPFIND" THEN 207 ELSE code

successHeaders(m) ==
    IF m = "PROPFIND" THEN propfindResponseHeaders \cup {"Content-Type"}
    ELSE getResponseHeaders

\* Mutant: a reference is resolved against the URL that was requested, which
\* is that of the proxy, and not against the target.
ResolveRequested(base, loc) ==
    IF loc.kind # "relative" THEN loc.url
    ELSE IF viaProxy THEN [base EXCEPT !.origin = ProxyOrigin] ELSE base

\* url.URL.ResolveReference: a relative reference keeps the user information
\* of its base.
Resolve(base, loc) == IF loc.kind = "relative" THEN base ELSE loc.url

-----------------------------------------------------------------------------

Init ==
    /\ method \in Methods
    /\ \E client \in ClientHeaders, hasBody \in BOOLEAN : header = Forwarded(client, hasBody)
    /\ hasAuth \in BOOLEAN
    /\ hasProxy \in BOOLEAN
    /\ cancelled = FALSE
    /\ phase = "send"
    /\ hop = 0
    /\ target = HomeURL
    /\ sent = {}
    /\ named = {}
    /\ resp = NoResponse
    /\ unclosed = {}
    /\ outcome = "none"
    /\ answer = NoAnswer
    /\ reply = NoReply

Credentials == IF sameOrigin /\ hasAuth THEN {"Authorization"} ELSE {}

\* Mutant: without Clone what a request is given stays for the next ones.
HeaderShared == header \cup Credentials

\* upstreamRequest.header is cloned for each request.
HeaderAfter == header

\* The top of the loop, up to client.Do.
Send ==
    /\ phase = "send"
    /\ sent' = sent \cup
          {[hop |-> hop, url |-> target,
            client |-> IF viaProxy THEN "proxy"
                       ELSE IF sameOrigin THEN "upstream" ELSE "external",
            header |-> header \cup Credentials]}
    /\ header' = HeaderAfter
    /\ phase' = "wait"
    /\ UNCHANGED <<setup, cancelled, hop, target, named, resp, unclosed, result>>

\* client.Do returns a response.
Receive ==
    /\ phase = "wait"
    /\ \E r \in Responses :
          /\ resp' = r
          /\ named' = IF r.location.kind = "absolute"
                      THEN named \cup {r.location.url.origin} ELSE named
    /\ unclosed' = unclosed \cup {hop}
    /\ phase' = "examine"
    /\ UNCHANGED <<setup, header, cancelled, hop, target, sent, result>>

\* roundTrip returns.
Return(o) ==
    /\ outcome' = o
    /\ phase' = "answer"
    /\ UNCHANGED <<setup, header, cancelled, chain, resp, answer, reply>>

\* client.Do fails: no response, or the context ended.
Fail ==
    /\ phase = "wait"
    /\ \E o \in {"timeoutError", "otherError"} : Return(o)
    /\ UNCHANGED unclosed

ReadAs == [list \in ProxyStatuses |-> proxyStatusError(Render(list))]
Reported == ReadAs[resp.proxyStatus]

\* An error of the proxy itself, whatever its status and Location are.
ProxyFailed ==
    /\ phase = "examine"
    /\ viaProxy
    /\ Reported # "none"
    /\ unclosed' = unclosed \ {hop}
    /\ Return(IF Reported = "timeout" THEN "proxyTimeout" ELSE "proxyOther")

\* Mutant: Proxy-Status is looked at only if the response is not a redirect.
FromTargetOrRedirect ==
    phase = "examine" /\ (viaProxy /\ Reported # "none" => followable(method, resp.status))

FromTarget == phase = "examine" /\ ~(viaProxy /\ Reported # "none")
Redirects == followable(method, resp.status) /\ resp.location.kind # "absent"

\* Not a redirect that is followed: the response is handed to the caller.
Deliver ==
    /\ FromTarget
    /\ ~Redirects
    /\ Return("response")
    /\ UNCHANGED unclosed

\* A Location that is no URL to follow.
RejectLocation ==
    /\ FromTarget
    /\ Redirects
    /\ resp.location.kind = "rejected"
    /\ unclosed' = unclosed \ {hop}
    /\ Return("otherError")

Followed == FromTarget /\ Redirects /\ resp.location.kind \in {"relative", "absolute"}

TooManyRedirects ==
    /\ Followed
    /\ hop = MaxRedirects
    /\ unclosed' = unclosed \ {hop}
    /\ Return("otherError")

\* Mutants: redirects on the upstream itself are not counted; the body of a
\* redirect stays open.
NextHopElsewhere == IF resp.location.kind = "relative" THEN hop ELSE hop + 1
StaysOpen == unclosed

NextHop == hop + 1
Drained == unclosed \ {hop}

\* The next hop; the fragment is dropped, the user information is not.
Follow ==
    /\ Followed
    /\ hop # MaxRedirects
    /\ target' = [Resolve(target, resp.location) EXCEPT !.fragment = FALSE]
    /\ hop' = NextHop
    /\ unclosed' = Drained
    /\ resp' = NoResponse
    /\ phase' = "send"
    /\ UNCHANGED <<setup, header, cancelled, sent, named, result>>

-----------------------------------------------------------------------------

\* serveGet and serveUpstreamPropfind, with their deferred resp.Body.Close().
AnswerResponse ==
    /\ phase = "answer"
    /\ outcome = "response"
    /\ unclosed' = unclosed \ {hop}
    /\ phase' = "done"
    /\ UNCHANGED <<setup, header, cancelled, chain, resp, outcome>>

AnswerSuccess ==
    /\ AnswerResponse
    /\ succeeds(method, resp.status)
    /\ answer' = successStatus(method, resp.status)
    /\ reply' = [header |-> successHeaders(method), allow |-> {}]

\* A 207 is sent with the first bytes of the rewritten body: if the rewriting
\* fails before them the client gets a 502, or nothing once the context ended.
\* The headers have been copied by then; http.Error sets its own Content-Type.
AnswerUnrewritten ==
    /\ AnswerResponse
    /\ method = "PROPFIND"
    /\ succeeds(method, resp.status)
    /\ answer' = IF cancelled THEN Silent ELSE 502
    /\ reply' = [header |-> propfindResponseHeaders, allow |-> {}]

\* writeUpstreamError.
AnswerFailure ==
    /\ AnswerResponse
    /\ ~succeeds(method, resp.status)
    /\ answer' = errorStatus(resp.status)
    /\ reply' = [header |-> errorResponseHeaders,
                 allow |-> IF answer' = 405 THEN filterAllow(resp.allow) ELSE {}]

\* writeTransportError; without a context nobody is answered.
AnswerError ==
    /\ phase = "answer"
    /\ outcome # "response"
    /\ answer' = IF cancelled THEN Silent
                 ELSE IF outcome \in {"proxyTimeout", "timeoutError"} THEN 504
                 ELSE 502
    /\ phase' = "done"
    /\ UNCHANGED <<setup, header, cancelled, chain, resp, unclosed, outcome, reply>>

Cancel ==
    /\ phase # "done"
    /\ ~cancelled
    /\ cancelled' = TRUE
    /\ UNCHANGED <<setup, header, phase, chain, resp, unclosed, result>>

Done ==
    /\ phase = "done"
    /\ UNCHANGED vars

Examine ==
    \/ ProxyFailed
    \/ Deliver
    \/ RejectLocation
    \/ TooManyRedirects
    \/ Follow

Answer ==
    \/ AnswerSuccess
    \/ AnswerUnrewritten
    \/ AnswerFailure
    \/ AnswerError

Next ==
    \/ Send
    \/ Receive
    \/ Fail
    \/ Examine
    \/ Answer
    \/ Cancel
    \/ Done

Spec == Init /\ [][Next]_vars

\* What takes the network: a response, the rest of its body (which is drained
\* without a timeout), or an error.
Remote == Receive \/ Fail \/ Examine

\* When the context ends, net/http ends every pending operation.  Before that a
\* server may stall in the middle of a body for ever.
Fairness == WF_vars(Send \/ Answer) /\ WF_vars(cancelled /\ Remote)
FairSpec == Spec /\ Fairness

-----------------------------------------------------------------------------

(* Every variable stays in its type.                                        *)
TypeOK ==
    /\ method \in Methods
    /\ header \subseteq HeaderNames
    /\ hasAuth \in BOOLEAN
    /\ hasProxy \in BOOLEAN
    /\ cancelled \in BOOLEAN
    /\ phase \in {"send", "wait", "examine", "answer", "done"}
    /\ hop \in Nat
    /\ target \in URL
    /\ sent \subseteq Requests
    /\ named \subseteq Origins
    /\ resp \in Responses \cup {NoResponse}
    /\ unclosed \subseteq Nat
    /\ outcome \in Outcomes
    /\ answer \in {NoAnswer, Silent} \cup 200..599
    /\ reply.allow \subseteq supportedMethods

(* Along any chain of redirects, away from the upstream and back, its       *)
(* credentials and its client (with insecure_skip_verify) are used for      *)
(* URLs of its own origin only; the Authorization and the Cookie that the   *)
(* client sent are passed on to nobody; and the download proxy, when it is  *)
(* used at all, is used for every hop.                                      *)
CredentialsStayHome ==
    \A q \in sent :
        /\ "Authorization" \in q.header => hasAuth /\ q.url.origin = Home
        /\ "Cookie" \notin q.header
        /\ q.client = "upstream" => q.url.origin = Home
        /\ q.client = "proxy" <=> viaProxy

(* At most MaxRedirects redirects are followed and no hop is repeated.      *)
HopsBounded ==
    /\ \A q \in sent : q.hop <= MaxRedirects
    /\ \A p, q \in sent : p.hop = q.hop => p = q

(* A URL is wanted only because it is on the upstream or because a server   *)
(* named its origin: relative references never drift to the proxy.          *)
TargetsNamed == \A q \in sent : q.url.origin \in named \cup {Home}

\* An error of the proxy, as proxyStatusError reads it, ends the chain.
ErrorEndsChain ==
    phase = "examine" /\ viaProxy /\ Reported # "none" =>
        /\ phase' \in {"examine", "answer"}
        /\ outcome' \in {"none", "proxyTimeout", "proxyOther"}

(* An error that the proxy reports of itself ends the chain, also if its    *)
(* status is that of a redirect, and however quoted strings around it       *)
(* contain separators; its status is never passed on as one of the target.  *)
(* A quoted string that looks like an error is none.                        *)
ProxyErrorsStayOurs ==
    /\ [][ErrorEndsChain]_vars
    /\ [](viaProxy /\ phase = "done" =>
            CASE ReportedError(resp.proxyStatus) = "timeout" -> answer \in {Silent, 504}
              [] ReportedError(resp.proxyStatus) = "other" -> answer \in {Silent, 502}
              [] OTHER -> outcome \notin {"proxyTimeout", "proxyOther"})

(* The client never sees the challenge of an upstream or proxy to the       *)
(* credentials of webdav-mux, nor a redirect, and a success only if the     *)
(* last hop was one.  What describes the upstream's body is not sent        *)
(* without it, and a 405 names a method that would do.                      *)
AnswersForClient ==
    /\ answer \notin {401, 407}
    /\ answer \in 200..399 => outcome = "response" /\ succeeds(method, resp.status)
    /\ answer \notin 200..399 =>
          reply.header \cap {"Content-Length", "Content-Encoding", "ETag"} = {}
    /\ reply.header \cap {"Set-Cookie", "WWW-Authenticate", "Location"} = {}
    /\ answer = 405 => reply.allow # {}

(* The body of every response of the chain is closed, on every path: only   *)
(* the last one may be open, and none when the request is over.             *)
BodiesClosed ==
    /\ unclosed \subseteq {hop}
    /\ phase \in {"send", "wait", "done"} => unclosed = {}

(* What docs/proxy-protocol.md promises to the proxy: the target URL has    *)
(* neither user information nor a fragment.                                 *)
ProxyTargetsClean ==
    \A q \in sent : q.client = "proxy" => ~q.url.userinfo /\ ~q.url.fragment

(* When the client goes away, even if every server stalls, the request      *)
(* ends.  If servers answer in time and do not stall, the client is         *)
(* answered: no chain of redirects is endless.                              *)
RequestEnds ==
    /\ cancelled ~> phase = "done"
    /\ WF_vars(Remote) => <>(phase = "done")
=============================================================================
