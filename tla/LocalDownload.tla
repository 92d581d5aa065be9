----------------------------- MODULE LocalDownload -----------------------------
(***************************************************************************)
(* A GET or HEAD of a local upstream: serveGet and copyBody as the caller  *)
(* of handlerTransport, with the client that receives what they write.     *)
(* The three share the context of the request, which net/http ends when    *)
(* the client leaves and when ServeHTTP has returned.                      *)
(***************************************************************************)
EXTENDS LocalTransport

VARIABLES
    client,    \* does it send and receive, only receive, or neither?
    expired,   \* the read deadline ended the context before RoundTrip
    step,      \* where serveGet is
    status,    \* of the response; 0 before WriteHeader
    buffer,    \* bytes that were read and not yet written
    wire,      \* bytes written to the client
    aborted,   \* copyBody panics with http.ErrAbortHandler
    ending     \* how the client sees the response end

copying == <<status, buffer, wire, aborted, ending>>
own == <<client, expired, step, copying>>
allVars == <<vars, own>>

Steps == {"roundTrip", "read", "write", "return", "finish", "done"}

DownloadInit ==
    /\ Init
    /\ client = "here"
    /\ expired = FALSE
    /\ step = "roundTrip"
    /\ status = 0
    /\ buffer = 0
    /\ wire = 0
    /\ aborted = FALSE
    /\ ending = "none"

\* serveGet passes the response on.  http.ServeContent, the handler's, declares
\* the length of what it sends; other bodies come here only in time.
PassOn ==
    /\ step = "roundTrip"
    /\ Respond
    /\ expired => sent # Unknown
    /\ status' = 200
    /\ step' = IF method = "HEAD" THEN "return" ELSE "read"
    /\ UNCHANGED <<client, expired, buffer, wire, aborted, ending>>

\* writeUpstreamError: the body of an error is closed unread.
PassError ==
    /\ step = "roundTrip"
    /\ Respond
    /\ status' = 404
    /\ step' = "return"
    /\ UNCHANGED <<client, expired, buffer, wire, aborted, ending>>

\* writeTransportError.
RoundTripFails ==
    /\ step = "roundTrip"
    /\ ReportPanic \/ ReportCancel
    /\ status' = IF cancelled THEN 0 ELSE 502
    /\ step' = "return"
    /\ UNCHANGED <<client, expired, buffer, wire, aborted, ending>>

ReadSome ==
    /\ step = "read"
    /\ Transfer
    /\ buffer' = got' - got
    /\ step' = IF got' = got THEN "read" ELSE "write"
    /\ UNCHANGED <<client, expired, status, wire, aborted, ending>>

\* Mutant: copyBody returns whatever ended the body.
AbortsNever(how) == FALSE

\* The cases of copyBody after a read without data.
Aborts(how) == how # "EOF" /\ ~cancelled

ReadEnds ==
    /\ step = "read"
    /\ ReadToTheEnd \/ ReadClosed
    /\ aborted' = Aborts(outcome')
    /\ step' = "return"
    /\ UNCHANGED <<client, expired, status, buffer, wire, ending>>

\* w.Write returns when the client has taken the data; one that left may take
\* some that is on its way, or the write fails.
WriteSome ==
    /\ step = "write"
    /\ \/ wire' = wire + buffer /\ step' = "read"
       \/ client = "gone" /\ step' = "return" /\ UNCHANGED wire
    /\ buffer' = 0
    /\ UNCHANGED <<vars, client, expired, status, aborted, ending>>

\* serveGet returns or panics: resp.Body.Close() if there is a response.
Return ==
    /\ step = "return"
    /\ step' = "finish"
    /\ IF caller = "reading" THEN CloseBody ELSE UNCHANGED vars
    /\ UNCHANGED <<client, expired, copying>>

\* net/http: a response that is shorter than declared is cut.
Finish ==
    /\ step = "finish"
    /\ step' = "done"
    /\ ending' = IF aborted \/ (status = 200 /\ method = "GET" /\ wire < sent)
                 THEN "cut" ELSE "complete"
    /\ UNCHANGED <<vars, client, expired, status, buffer, wire, aborted>>

ClientLeaves ==
    /\ step # "done"
    /\ \/ client # "gone" /\ client' = "gone"
       \/ client = "here" /\ client' = "half"
    /\ UNCHANGED <<vars, expired, step, copying>>

\* The background read of the connection fails, or ServeHTTP has returned.
ContextEnds ==
    /\ client # "here" \/ step = "done"
    /\ Cancel
    /\ UNCHANGED own

\* The read deadline passed while the request waited to be authenticated.
DeadlineExpired ==
    /\ step = "roundTrip"
    /\ Cancel
    /\ expired' = TRUE
    /\ UNCHANGED <<client, step, copying>>

\* The exchange is over.
Over ==
    /\ step = "done"
    /\ handler = "done"
    /\ UNCHANGED allVars

Serve ==
    \/ PassOn
    \/ PassError
    \/ RoundTripFails
    \/ ReadSome
    \/ ReadEnds
    \/ Return
    \/ Finish

DownloadNext ==
    \/ HandlerStep /\ UNCHANGED own
    \/ AfterFunc /\ UNCHANGED own
    \/ Serve
    \/ WriteSome
    \/ ClientLeaves
    \/ ContextEnds
    \/ DeadlineExpired
    \/ Over

DownloadSpec == DownloadInit /\ [][DownloadNext]_allVars

\* Goroutines that can run do.  The handler does not run for ever: it ends
\* unless a write blocks it.  Whether the client takes its data is its own
\* affair, but net/http notices one that has gone and ends the context.
DownloadFairness ==
    /\ WF_allVars((WriteRefused \/ HandlerEnds \/ CommitAtEnd \/ CloseAtEnd)
                  /\ UNCHANGED own)
    /\ WF_allVars(AfterFunc /\ UNCHANGED own)
    /\ WF_allVars(Serve)
    /\ WF_allVars(ContextEnds)
    /\ WF_allVars(WriteSome /\ client = "gone")

FairDownloadSpec == DownloadSpec /\ DownloadFairness

-----------------------------------------------------------------------------

(* Every variable stays in its type.                                        *)
DownloadTypeOK ==
    /\ TypeOK
    /\ client \in {"here", "half", "gone"}
    /\ expired \in BOOLEAN
    /\ step \in Steps
    /\ status \in {0, 200, 404, 502}
    /\ buffer \in 0..BufferSize
    /\ wire \in Nat
    /\ aborted \in BOOLEAN
    /\ ending \in {"none", "complete", "cut"}

(* The refinement mapping to Delivery.                                      *)
Announced == status = 200 /\ method = "GET"
HandlerWroteAll == handler = "done" /\ ~panicked /\ ~refused
Promise == IF ~Announced THEN "none"
           ELSE IF sent # Unknown \/ HandlerWroteAll THEN "whole"
           ELSE "open"
Offered == IF ~Announced THEN 0 ELSE IF sent # Unknown THEN sent ELSE got

Promised == INSTANCE Delivery WITH
    promise <- Promise,
    offered <- Offered,
    delivered <- wire,
    present <- client = "here",
    ending <- ending

(* A client that holds its connection and sees a download end regularly has *)
(* the whole file, whatever of the handler (a file that shrinks, a panic),  *)
(* the pipe, the context and its AfterFunc happened in which order.         *)
ImplementsDelivery == Promised!Spec

(* The goroutine of the handler ends once the client is gone or the request *)
(* is done, even if nobody reads another byte.                              *)
HandlerReleased ==
    /\ client = "gone" ~> handler = "done"
    /\ step = "done" ~> handler = "done"

(* A client that takes its data gets an end, and nothing stays behind.      *)
DownloadEnds ==
    WF_allVars(WriteSome) => <>(step = "done" /\ handler = "done")
=============================================================================
