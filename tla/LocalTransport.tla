--------------------------- MODULE LocalTransport ---------------------------
(***************************************************************************)
(* handlerTransport: an http.RoundTripper that calls a handler in the same *)
(* process.  Four activities share one exchange: the caller of RoundTrip,  *)
(* which then reads the body, the goroutine of the handler, whoever ends   *)
(* the context, and the function that context.AfterFunc runs when it ends. *)
(*                                                                         *)
(* Bytes are counted, not named.  io.Pipe is external: a write is handed   *)
(* to reads piece by piece, the first close of each side wins, and a close *)
(* of either side ends both.                                               *)
(***************************************************************************)
EXTENDS Integers

CONSTANTS
    MaxWrites,   \* bound on the writes of the handler
    MaxChunk,    \* bound on the bytes of one write
    MaxLength,   \* bound on a declared Content-Length
    BufferSize   \* length of the buffer of the caller

ASSUME BoundsAssumption ==
    /\ MaxWrites \in Nat
    /\ MaxChunk \in Nat
    /\ MaxLength \in Nat
    /\ BufferSize \in Nat \ {0}

Unknown == -1
Lengths == {Unknown} \cup 0..MaxLength

VARIABLES
    method,     \* of the request
    header,     \* Content-Length in the header map of the handler
    handler,    \* where the handler goroutine is
    writes,     \* number of writes it began
    pending,    \* bytes of the current write that nobody has read yet
    refused,    \* history: a write returned an error
    panicked,   \* the handler panicked
    committed,  \* the channel committed is closed
    sent,       \* Content-Length of w.sent
    failure,    \* w.failure # nil
    rerr, werr, \* first close error of the two sides of the pipe
    cancelled,  \* the context is done
    after,      \* the AfterFunc registered for the body
    caller,     \* where the caller is
    remaining,  \* of pipeBody
    got,        \* bytes that the caller has read
    outcome     \* how RoundTrip or the body ended for the caller

handlerVars == <<header, handler, writes, refused, panicked>>
commitVars == <<committed, sent, failure>>
pipe == <<pending, rerr, werr>>
context == <<cancelled, after>>
callerVars == <<caller, remaining, got, outcome>>
vars == <<method, handlerVars, commitVars, pipe, context, callerVars>>

Errors == {"none", "EOF", "panic", "cancel", "closed"}
Outcomes == {"none", "EOF", "unexpectedEOF", "panic", "cancel", "closed"}

Init ==
    /\ method \in {"GET", "HEAD"}
    /\ header = Unknown
    /\ handler = "running"
    /\ writes = 0
    /\ pending = 0
    /\ refused = FALSE
    /\ panicked = FALSE
    /\ committed = FALSE
    /\ sent = Unknown
    /\ failure = FALSE
    /\ rerr = "none"
    /\ werr = "none"
    /\ cancelled = FALSE
    /\ after = "none"
    /\ caller = "waiting"
    /\ remaining = Unknown
    /\ got = 0
    /\ outcome = "none"

-----------------------------------------------------------------------------
(* io.Pipe *)

PipeDone == rerr # "none" \/ werr # "none"

CloseRead(err) ==
    /\ rerr' = IF rerr = "none" THEN err ELSE rerr
    /\ UNCHANGED werr

CloseWrite(err) ==
    /\ werr' = IF werr = "none" THEN err ELSE werr
    /\ UNCHANGED rerr

\* What a read of a closed pipe returns.
ReadCloseError == IF rerr = "none" THEN werr ELSE "closed"

-----------------------------------------------------------------------------
(* The handler goroutine *)

\* w.once: only the first commit counts.
commit(fails) ==
    IF committed
    THEN UNCHANGED commitVars
    ELSE /\ committed' = TRUE
         /\ sent' = header
         /\ failure' = fails

\* The handler sets Content-Length, which has no effect after the commit.
SetHeader ==
    /\ handler = "running"
    /\ \E n \in Lengths \ {header} : header' = n
    /\ UNCHANGED <<method, handler, writes, refused, panicked, commitVars,
                   pipe, context, callerVars>>

\* WriteHeader of a final status; an informational one changes nothing.
WriteHeader ==
    /\ handler = "running"
    /\ ~committed
    /\ commit(FALSE)
    /\ UNCHANGED <<method, handlerVars, pipe, context, callerVars>>

\* Write commits, then offers its bytes to the pipe, if that is still open.
BeginWrite ==
    /\ handler = "running"
    /\ writes < MaxWrites
    /\ writes' = writes + 1
    /\ commit(FALSE)
    /\ IF PipeDone
       THEN refused' = TRUE /\ UNCHANGED <<pending, handler>>
       ELSE pending' \in 0..MaxChunk /\ handler' = "writing" /\ UNCHANGED refused
    /\ UNCHANGED <<method, header, panicked, rerr, werr, context, callerVars>>

\* The blocked write sees that the pipe is closed.
WriteRefused ==
    /\ handler = "writing"
    /\ PipeDone
    /\ refused' = TRUE
    /\ pending' = 0
    /\ handler' = "running"
    /\ UNCHANGED <<method, header, writes, panicked, commitVars, rerr, werr,
                   context, callerVars>>

\* ServeHTTP of the handler returns or panics.
HandlerEnds ==
    /\ handler = "running"
    /\ handler' = "ended"
    /\ panicked' \in BOOLEAN
    /\ UNCHANGED <<method, header, writes, refused, commitVars, pipe, context,
                   callerVars>>

Deferred(from, to) ==
    /\ handler = from
    /\ handler' = to
    /\ UNCHANGED <<method, header, writes, refused, panicked, pending, context,
                   callerVars>>

\* Mutant: a handler that wrote nothing is not committed.
CommitAtEndOmitted ==
    Deferred("ended", "closing") /\ UNCHANGED <<commitVars, rerr, werr>>

\* The deferred function of serve, up to its commit ...
CommitAtEnd ==
    Deferred("ended", "closing") /\ commit(panicked) /\ UNCHANGED <<rerr, werr>>

\* Mutant: a panic closes the pipe as a return does.
CloseAtEndAlwaysEOF ==
    Deferred("closing", "done") /\ CloseWrite("EOF") /\ UNCHANGED commitVars

\* ... and its close of the pipe.
CloseAtEnd ==
    /\ Deferred("closing", "done")
    /\ CloseWrite(IF panicked THEN "panic" ELSE "EOF")
    /\ UNCHANGED commitVars

-----------------------------------------------------------------------------
(* The caller *)

\* case <-w.committed, with w.failure = nil.
\* HEAD has a Content-Length and no body.
Respond ==
    /\ caller = "waiting"
    /\ committed
    /\ ~failure
    /\ caller' = "reading"
    /\ remaining' = IF method = "HEAD" THEN Unknown ELSE sent
    /\ after' = "armed"
    /\ UNCHANGED <<method, handlerVars, commitVars, pipe, cancelled, got, outcome>>

\* RoundTrip returns an error.
Report(err) ==
    /\ caller = "waiting"
    /\ caller' = "closed"
    /\ outcome' = err
    /\ UNCHANGED <<method, handlerVars, commitVars, pending, context,
                   remaining, got>>

\* case <-w.committed, with w.failure # nil.
ReportPanic == committed /\ failure /\ Report("panic") /\ CloseRead("closed")

\* Mutant: the pipe is left open when the context ends first.
ReportCancelLeaks == cancelled /\ Report("cancel") /\ UNCHANGED <<rerr, werr>>

\* case <-ctx.Done(); when both are ready select takes either.
ReportCancel == cancelled /\ Report("cancel") /\ CloseRead("cancel")

BodyEnds(how) ==
    /\ caller = "reading"
    /\ outcome = "none"
    /\ outcome' = how
    /\ UNCHANGED <<method, handlerVars, commitVars, pipe, context, caller,
                   remaining, got>>

\* Every declared byte has been read: EOF without asking the pipe.
ReadToTheEnd == remaining = 0 /\ BodyEnds("EOF")

\* Mutant: an early EOF of the pipe is passed on as it is.
ReadClosedAsIs == remaining # 0 /\ PipeDone /\ BodyEnds(ReadCloseError)

\* The pipe is closed: an EOF before the declared length is an error.
ReadClosed ==
    /\ remaining # 0
    /\ PipeDone
    /\ BodyEnds(IF ReadCloseError = "EOF" /\ remaining > 0
                THEN "unexpectedEOF"
                ELSE ReadCloseError)

\* Mutant: an unknown length is counted down too.
LeftAlways(n) == remaining - n

\* What remains after a read of n bytes.
Left(n) == IF remaining > 0 THEN remaining - n ELSE remaining

\* The rendezvous of a read with the blocked write: as many bytes as both
\* sides have; the write returns when all of its bytes are gone.
Transfer ==
    /\ caller = "reading"
    /\ outcome = "none"
    /\ remaining # 0
    /\ handler = "writing"
    /\ ~PipeDone
    /\ LET room == IF remaining > 0 /\ BufferSize > remaining
                   THEN remaining ELSE BufferSize
           n == IF pending < room THEN pending ELSE room
       IN  /\ got' = got + n
           /\ remaining' = Left(n)
           /\ pending' = pending - n
           /\ handler' = IF pending = n THEN "running" ELSE "writing"
    /\ UNCHANGED <<method, header, writes, refused, panicked, commitVars,
                   rerr, werr, context, caller, outcome>>

\* The deferred resp.Body.Close(), at the end of the body or, when the client
\* does not want more, before it.
CloseBody ==
    /\ caller = "reading"
    /\ caller' = "closed"
    /\ after' = IF after = "armed" THEN "stopped" ELSE after
    /\ CloseRead("closed")
    /\ UNCHANGED <<method, handlerVars, commitVars, pending, cancelled,
                   remaining, got, outcome>>

-----------------------------------------------------------------------------
(* The context *)

Cancel ==
    /\ ~cancelled
    /\ cancelled' = TRUE
    /\ UNCHANGED <<method, handlerVars, commitVars, pipe, after, callerVars>>

\* context.AfterFunc: in a goroutine of its own, some time after the end of
\* the context, unless it was stopped before.
AfterFunc ==
    /\ cancelled
    /\ after = "armed"
    /\ after' = "ran"
    /\ CloseWrite("cancel")
    /\ UNCHANGED <<method, handlerVars, commitVars, pending, cancelled,
                   callerVars>>

HandlerStep ==
    \/ SetHeader
    \/ WriteHeader
    \/ BeginWrite
    \/ WriteRefused
    \/ HandlerEnds
    \/ CommitAtEnd
    \/ CloseAtEnd

CallerStep ==
    \/ Respond
    \/ ReportPanic
    \/ ReportCancel
    \/ ReadToTheEnd
    \/ ReadClosed
    \/ Transfer
    \/ CloseBody

Next == HandlerStep \/ CallerStep \/ Cancel \/ AfterFunc

Spec == Init /\ [][Next]_vars

-----------------------------------------------------------------------------

\* The number of bytes that the caller has been promised.
Limit == IF method = "HEAD" THEN Unknown ELSE sent

(* Every variable stays in its type.                                        *)
TypeOK ==
    /\ method \in {"GET", "HEAD"}
    /\ header \in Lengths
    /\ handler \in {"running", "writing", "ended", "closing", "done"}
    /\ writes \in 0..MaxWrites
    /\ pending \in 0..MaxChunk
    /\ refused \in BOOLEAN
    /\ panicked \in BOOLEAN
    /\ committed \in BOOLEAN
    /\ sent \in Lengths
    /\ failure \in BOOLEAN
    /\ rerr \in Errors
    /\ werr \in Errors
    /\ cancelled \in BOOLEAN
    /\ after \in {"none", "armed", "ran", "stopped"}
    /\ caller \in {"waiting", "reading", "closed"}
    /\ remaining \in Lengths
    /\ got \in Nat
    /\ outcome \in Outcomes

(* A body that ends with EOF is complete: it has exactly the declared       *)
(* length or, when none was declared, the handler returned by itself and    *)
(* all that it wrote was read.  A panic, a file that shrank or a context    *)
(* that ended in the middle never look like the end of the content.         *)
EofMeansComplete ==
    outcome = "EOF" =>
        IF Limit = Unknown
        THEN handler = "done" /\ ~panicked /\ ~refused
        ELSE got = Limit

(* An error names its cause: the caller is told of a panic only if there    *)
(* was one, of a cancellation only if the context ended, of a short body    *)
(* only if the handler returned after less than it had declared, and never  *)
(* that it closed the pipe itself.                                          *)
ErrorsHaveCauses ==
    /\ outcome = "panic" => panicked
    /\ outcome = "cancel" => cancelled
    /\ outcome = "unexpectedEOF" =>
          /\ handler = "done"
          /\ ~panicked
          /\ ~refused
          /\ got < Limit
    /\ outcome # "closed"
=============================================================================
