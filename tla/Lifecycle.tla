------------------------------ MODULE Lifecycle ------------------------------
(***************************************************************************)
(* One request on an HTTP/1.1 connection, from Server.ServeHTTP to the     *)
(* end of its response: the read deadline, the context that net/http ends  *)
(* when its background read of the connection fails, the body of the       *)
(* request, and the body of the response with its buffered writer.         *)
(*                                                                         *)
(* Content is counted in units.  What net/http does is external: its       *)
(* background read starts when the body of the request is at its end, a    *)
(* handler that returns without a status is answered with 200, a handler   *)
(* that panics has its connection closed, and the rest of a request's body *)
(* is read before the response is finished.                                *)
(***************************************************************************)
EXTENDS Integers

CONSTANTS
    MaxContent,    \* bound: units in the body of a response
    BufferSize     \* units in the buffer of the rewriter; 64 KiB in the code

ASSUME MaxContentAssumption == MaxContent \in Nat \ {0}
ASSUME BufferSizeAssumption == BufferSize \in Nat \ {0}

VARIABLES
    method,      \* of the request
    phase,       \* where the handler is
    body,        \* of the request: how much of it has come, and was read
    deadline,    \* of reads from the connection
    client,      \* does it send and receive, only receive, or neither?
    readError,   \* why the background read of the connection failed
    endedBy,     \* what ended the context of the request
    status,      \* statusWriter.status; 0 before WriteHeader
    headers,     \* history: calls of WriteHeader
    content,     \* units of the response of the upstream, in total
    declared,    \* the response has a Content-Length
    taken,       \* units taken from the upstream
    buffered,    \* units in the buffer of the rewriter
    wire,        \* units written to the client
    failed,      \* requestLog.err is set
    panicked,    \* the handler panics
    logged,      \* what was logged
    ending       \* how the client sees the response end

request == <<method, body, deadline, client, readError, endedBy>>
response == <<content, declared, taken, buffered, wire>>
result == <<status, headers, failed>>
finish == <<panicked, logged, ending>>
vars == <<request, phase, result, response, finish>>

supportedMethods == {"OPTIONS", "GET", "HEAD", "PROPFIND"}
Methods == supportedMethods \cup {"other"}

Phases == {"arm", "auth", "route", "readBody", "clear", "synthetic",
           "roundTrip", "copy", "rewrite", "returned", "drain", "done"}
Forwarding == {"synthetic", "roundTrip", "copy", "rewrite"}

\* Statuses of responses that this program makes up, and of those of the
\* upstream that are errors.
Refusals == {400, 401, 403, 404, 405, 413, 502, 504}
UpstreamErrors == {404, 502, 503}

NotLogged == [done |-> FALSE, status |-> 0, error |-> FALSE]

ContextDone == endedBy # "none"
\* net/http reads the connection in the background.
Watched == body \in {"none", "read"}

-----------------------------------------------------------------------------

Init ==
    /\ method \in Methods
    /\ phase = "arm"
    /\ body \in {"none", "coming"}
    /\ deadline = "none"
    /\ client = "here"
    /\ readError = "none"
    /\ endedBy = "none"
    /\ status = 0
    /\ headers = 0
    /\ content = 0
    /\ declared = FALSE
    /\ taken = 0
    /\ buffered = 0
    /\ wire = 0
    /\ failed = FALSE
    /\ panicked = FALSE
    /\ logged = NotLogged
    /\ ending = "none"

\* statusWriter.WriteHeader, which keeps the first status.
WriteHeader(code) ==
    /\ status' = IF status = 0 THEN code ELSE status
    /\ headers' = headers + 1

\* serve answers with a status of its own and returns.
Refuse(code, isError) ==
    /\ WriteHeader(code)
    /\ failed' = isError
    /\ phase' = "returned"
    /\ UNCHANGED <<response, finish>>

Continue(next) ==
    /\ phase' = next
    /\ UNCHANGED <<result, response, finish>>

\* Mutant: OPTIONS are answered before the deadline is set.
ReadDeadlineAfterOptions(m) == IF m = "OPTIONS" THEN "none" ELSE "armed"

ReadDeadline(m) == "armed"

\* The beginning of serve.
Arm ==
    /\ phase = "arm"
    /\ deadline' = ReadDeadline(method)
    /\ IF method = "OPTIONS" THEN Refuse(200, FALSE) ELSE Continue("auth")
    /\ UNCHANGED <<method, body, client, readError, endedBy>>

\* authenticate, which may wait for a slot past the deadline: without a context
\* it may still admit the request, but not if it waits.
Authenticate ==
    /\ phase = "auth"
    /\ Refuse(401, FALSE) \/ Continue("route")
    /\ UNCHANGED request

\* Methods, paths and depths that are not served, on this account.
RefuseRequest ==
    /\ phase = "route"
    /\ \/ /\ method \notin supportedMethods
          /\ Refuse(405, FALSE)
       \/ /\ method \in supportedMethods
          /\ \/ Refuse(400, TRUE)
             \/ Refuse(404, FALSE)
             \/ method \in {"GET", "HEAD"} /\ Refuse(405, FALSE)
             \/ method = "PROPFIND" /\ \E code \in {400, 403} : Refuse(code, FALSE)
    /\ UNCHANGED request

ForwardGet ==
    /\ phase = "route"
    /\ method \in {"GET", "HEAD"}
    /\ deadline' = "none"
    /\ Continue("roundTrip")
    /\ UNCHANGED <<method, body, client, readError, endedBy>>

AcceptPropfind ==
    /\ phase = "route"
    /\ method = "PROPFIND"
    /\ Continue("readBody")
    /\ UNCHANGED request

\* io.ReadAll returns at the end of the body, with an error of the connection
\* or of its encoding, or because the body is too large.
ReadBody ==
    /\ phase = "readBody"
    /\ \/ /\ body \in {"none", "arrived"}
          /\ body' = IF body = "none" THEN "none" ELSE "read"
          /\ Continue("clear")
       \/ /\ body = "coming"
          /\ deadline = "expired" \/ client # "here"
          /\ Refuse(400, TRUE)
          /\ UNCHANGED body
       \/ /\ body = "arrived"
          /\ \E code \in {400, 413} : Refuse(code, TRUE)
          /\ UNCHANGED body
    /\ UNCHANGED <<method, deadline, client, readError, endedBy>>

\* Mutant: the deadline is left as it is.
ClearReadDeadlineOmitted ==
    /\ phase = "clear"
    /\ \E next \in {"roundTrip", "synthetic"} : Continue(next)
    /\ UNCHANGED request

ClearReadDeadline ==
    /\ phase = "clear"
    /\ deadline' = "none"
    /\ \E next \in {"roundTrip", "synthetic"} : Continue(next)
    /\ UNCHANGED <<method, body, client, readError, endedBy>>

\* serveSyntheticPropfind.  A write can fail only if nobody receives.
ServeSynthetic ==
    /\ phase = "synthetic"
    /\ \/ Refuse(400, TRUE)
       \/ \E isError \in BOOLEAN :
             /\ isError => client = "gone"
             /\ Refuse(207, isError)
    /\ UNCHANGED request

-----------------------------------------------------------------------------

\* writeTransportError.
TransportError ==
    /\ phase = "roundTrip"
    /\ IF ContextDone
       THEN /\ failed' = TRUE
            /\ phase' = "returned"
            /\ UNCHANGED <<status, headers, response, finish>>
       ELSE \E code \in {502, 504} : Refuse(code, TRUE)
    /\ UNCHANGED request

\* The transport of a network upstream returns an error once the context is
\* done; a local upstream may answer all the same.
\* writeUpstreamError.
UpstreamError ==
    /\ phase = "roundTrip"
    /\ \E code \in UpstreamErrors : Refuse(code, FALSE)
    /\ UNCHANGED request

\* serveGet has a response that it passes on.  Local upstreams declare the
\* length of every file.
PassOn ==
    /\ phase = "roundTrip"
    /\ method \in {"GET", "HEAD"}
    /\ \E code \in {200, 204} :
          /\ WriteHeader(code)
          /\ content' \in IF code = 204 THEN {0} ELSE 0..MaxContent
          /\ declared' \in BOOLEAN
          /\ ContextDone => declared'
          /\ phase' = IF method = "HEAD" \/ code = 204 THEN "returned" ELSE "copy"
    /\ UNCHANGED <<request, taken, buffered, wire, failed, finish>>

\* Mutant: copyBody returns whatever the error is.
ReadFailedReturns ==
    /\ failed' = TRUE
    /\ panicked' = FALSE

\* The cases of copyBody when a read failed.
ReadFailed ==
    /\ failed' = TRUE
    /\ panicked' = ~ContextDone

\* A round of copyBody: a read, which may return data and an error at once, and
\* a write of the data.
Copy ==
    /\ phase = "copy"
    /\ \E n \in 0..1, read \in {"ok", "eof", "error"}, written \in BOOLEAN :
          /\ n = 1 => taken < content
          /\ read = "ok" => n = 1
          /\ read = "eof" => taken + n = content
          /\ ~written => n = 1 /\ client = "gone"
          /\ taken' = taken + n
          /\ wire' = IF written THEN wire + n ELSE wire
          /\ IF ~written
             THEN failed' = TRUE /\ UNCHANGED panicked
             ELSE IF read = "error" THEN ReadFailed
                  ELSE UNCHANGED <<failed, panicked>>
          /\ phase' = IF written /\ read = "ok" THEN "copy" ELSE "returned"
    /\ UNCHANGED <<request, status, headers, content, declared, buffered,
                   logged, ending>>

\* serveUpstreamPropfind has a response that it rewrites; its output is not
\* empty and has no Content-Length.
StartRewrite ==
    /\ phase = "roundTrip"
    /\ method = "PROPFIND"
    /\ content' \in 1..MaxContent
    /\ declared' = FALSE
    /\ phase' = "rewrite"
    /\ UNCHANGED <<request, taken, buffered, wire, result, finish>>

\* Mutant: lazyWriter does not set started.
StartedNever == FALSE

\* lazyWriter.started.
Started == headers > 0

\* lazyWriter.Write sends the status before its first data.
Flush ==
    /\ wire' = wire + buffered
    /\ IF Started \/ buffered = 0
       THEN UNCHANGED <<status, headers>>
       ELSE WriteHeader(207)

\* Mutant: a unit is put into a full buffer.
FullTooLate == buffered > BufferSize

Full == buffered = BufferSize

\* The rewriter writes a unit; a full buffer is flushed before.
Rewrite ==
    /\ phase = "rewrite"
    /\ taken < content
    /\ taken' = taken + 1
    /\ IF Full
       THEN buffered' = 1 /\ Flush
       ELSE buffered' = buffered + 1 /\ UNCHANGED <<wire, status, headers>>
    /\ UNCHANGED <<request, phase, content, declared, failed, finish>>

RewriteEnds ==
    /\ phase = "rewrite"
    /\ taken = content
    /\ buffered' = 0
    /\ Flush
    /\ phase' = "returned"
    /\ UNCHANGED <<request, content, declared, taken, failed, finish>>

\* The body of the upstream ends early, is not a multistatus or nobody receives:
\* what is in the buffer is given up.
RewriteFails ==
    /\ phase = "rewrite"
    /\ failed' = TRUE
    /\ phase' = "returned"
    /\ IF ContextDone
       THEN UNCHANGED <<status, headers, panicked>>
       ELSE IF ~Started
            THEN WriteHeader(502) /\ UNCHANGED panicked
            ELSE panicked' = TRUE /\ UNCHANGED <<status, headers>>
    /\ UNCHANGED <<request, response, logged, ending>>

\* A run-time panic of the rewriter.
RewritePanics ==
    /\ phase = "rewrite"
    /\ panicked' = TRUE
    /\ phase' = "returned"
    /\ UNCHANGED <<request, result, response, logged, ending>>

-----------------------------------------------------------------------------

\* Mutant: only what a handler returns is logged.
LogLineNoRecover ==
    IF panicked THEN logged ELSE [done |-> TRUE, status |-> status, error |-> failed]

LogLine == [done |-> TRUE, status |-> status, error |-> failed \/ panicked]

\* The deferred function of ServeHTTP.  A panic other than ErrAbortHandler is
\* an error of its own; ErrAbortHandler is only used with an error.
LogRequest ==
    /\ phase = "returned"
    /\ logged' = LogLine
    /\ ending' = IF panicked THEN "cut" ELSE ending
    /\ phase' = IF panicked THEN "done" ELSE "drain"
    /\ UNCHANGED <<request, result, response, panicked>>

\* net/http reads the rest of the request's body, as far as the deadline
\* allows, and ends the response; one that is shorter than declared is cut.
FinishRequest ==
    /\ phase = "drain"
    /\ \/ body \in {"none", "arrived", "read"}
       \/ deadline = "expired"
       \/ client # "here"
    /\ ending' = IF declared /\ method # "HEAD" /\ wire < content
                 THEN "cut" ELSE "complete"
    /\ phase' = "done"
    /\ UNCHANGED <<request, result, response, panicked, logged>>

\* The rest of the body of the request arrives.
BodyArrives ==
    /\ phase # "done"
    /\ body = "coming"
    /\ client = "here"
    /\ body' = "arrived"
    /\ UNCHANGED <<method, phase, deadline, client, readError, endedBy, result,
                   response, finish>>

\* The client closes the connection, or its sending side.
ClientLeaves ==
    /\ phase # "done"
    /\ client # "gone"
    /\ \/ client' = "gone"
       \/ client = "here" /\ client' = "half"
    /\ UNCHANGED <<method, phase, body, deadline, readError, endedBy, result,
                   response, finish>>

Expire ==
    /\ deadline = "armed"
    /\ phase # "done"
    /\ deadline' = "expired"
    /\ UNCHANGED <<method, phase, body, client, readError, endedBy, result,
                   response, finish>>

\* The background read fails.  A deadline that is cleared before the read is over
\* does not concern it.
ReadFails ==
    /\ phase # "done"
    /\ readError = "none"
    /\ Watched
    /\ \/ client # "here" /\ readError' = "client"
       \/ deadline = "expired" /\ readError' = "deadline"
    /\ UNCHANGED <<method, phase, body, deadline, client, endedBy, result, response,
                   finish>>

\* net/http ends the context after the read, whatever happened in between.
ContextEnds ==
    /\ phase # "done"
    /\ ~ContextDone
    /\ readError # "none"
    /\ endedBy' = readError
    /\ UNCHANGED <<method, phase, body, deadline, client, readError, result, response,
                   finish>>

Done ==
    /\ phase = "done"
    /\ UNCHANGED vars

Serve ==
    \/ Arm
    \/ Authenticate
    \/ RefuseRequest
    \/ ForwardGet
    \/ AcceptPropfind
    \/ ReadBody
    \/ ClearReadDeadline
    \/ ServeSynthetic

Forward ==
    \/ TransportError
    \/ UpstreamError
    \/ PassOn
    \/ Copy
    \/ StartRewrite
    \/ Rewrite
    \/ RewriteEnds
    \/ RewriteFails
    \/ RewritePanics

Finish == LogRequest \/ FinishRequest

Next ==
    \/ Serve
    \/ Forward
    \/ Finish
    \/ BodyArrives
    \/ ClientLeaves
    \/ Expire
    \/ ReadFails
    \/ ContextEnds
    \/ Done

Spec == Init /\ [][Next]_vars

\* The handler runs, upstreams answer, clients receive, time passes; clients
\* need not send.
Fairness == WF_vars(Serve \/ Forward \/ Finish) /\ WF_vars(Expire)
FairSpec == Spec /\ Fairness

-----------------------------------------------------------------------------

(* Every variable stays in its type.                                        *)
TypeOK ==
    /\ method \in Methods
    /\ phase \in Phases
    /\ body \in {"none", "coming", "arrived", "read"}
    /\ deadline \in {"none", "armed", "expired"}
    /\ client \in {"here", "half", "gone"}
    /\ readError \in {"none", "client", "deadline"}
    /\ endedBy \in {"none", "client", "deadline"}
    /\ status \in {0, 200, 204, 207} \cup Refusals \cup UpstreamErrors
    /\ headers \in Nat
    /\ content \in 0..MaxContent
    /\ declared \in BOOLEAN
    /\ taken \in 0..content
    /\ buffered \in 0..BufferSize
    /\ wire \in 0..content
    /\ failed \in BOOLEAN
    /\ panicked \in BOOLEAN
    /\ logged \in [done : BOOLEAN, status : Nat, error : BOOLEAN]
    /\ ending \in {"none", "complete", "cut"}

(* A success that ends regularly before it is whole has no Content-Length,   *)
(* and either its client is gone, or the context of its request had ended,   *)
(* which copyBody and serveUpstreamPropfind take for that.  A client that    *)
(* closed its sending side only, or whose request outlasted the deadline     *)
(* before it was forwarded, may still be there and take it for whole.        *)
(* Whatever else fails after the status was sent cuts the connection.        *)
NoSilentTruncation ==
    ending = "complete" /\ status \in {200, 207}
        /\ method \in {"GET", "PROPFIND"} /\ wire # content =>
            /\ ~declared
            /\ client = "gone" \/ ContextDone

(* The refinement mapping to Delivery.  The client is present as far as the *)
(* program can know.                                                        *)
Announced == status \in {200, 207} /\ method # "HEAD"

Promised == INSTANCE Delivery WITH
    promise <- IF Announced THEN "whole" ELSE "none",
    offered <- IF Announced THEN content ELSE 0,
    delivered <- wire,
    present <- client = "here" /\ ~ContextDone,
    ending <- ending

(* Every response is a Delivery: statuses come before content and once, an  *)
(* error is never appended to a success that was begun, nothing is sent     *)
(* after the end, and a client that is there learns of what is missing.     *)
ImplementsDelivery == Promised!Spec

(* A request has one status: no error is appended to a success that was     *)
(* begun, and data is sent only after the status.                           *)
OneStatus ==
    /\ headers <= 1
    /\ wire > 0 => headers = 1 /\ status \in {200, 207}

(* A transfer may take hours: once a request is being forwarded the deadline *)
(* for reading it never ends its context, except if the background read had  *)
(* failed of it before.  net/http ends the context after the read is over,   *)
(* and clearing the deadline in between comes too late.                      *)
DeadlineSparesTransfers ==
    [](phase \in Forwarding /\ readError # "deadline" => [](endedBy # "deadline"))

(* Every request is logged, with the status that was sent, before its       *)
(* response ends; one that was cut or has no status is logged as an error.  *)
LogTellsTruth ==
    ending # "none" =>
        /\ logged.done
        /\ logged.status = status
        /\ ((ending = "cut" /\ panicked) \/ status = 0) => logged.error

(* A client that sends its body too slowly holds the connection no longer   *)
(* than the deadline, until forwarding begins and also when the request is  *)
(* refused and net/http reads the rest of its body.                         *)
ReadingBounded ==
    phase = "arm" ~> phase \in Forwarding \cup {"done"}

(* writeTransportError gives no answer only if the client is gone, as its   *)
(* comment says: nobody gets the 200 that net/http makes of no answer.      *)
NobodyMisledBySilence ==
    ending = "complete" /\ status = 0 => client # "here"

(* The read deadline keeps clients that send slowly from holding their      *)
(* connections for ever, as the comment in serve says.                      *)
EveryRequestEnds == <>(phase = "done")
=============================================================================
