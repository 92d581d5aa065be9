--------------------------- MODULE LifecycleProofs ---------------------------
(***************************************************************************)
(* Proofs about Lifecycle for any content and any size of the buffer.      *)
(***************************************************************************)
EXTENDS Lifecycle, TLAPS

USE DEF result

\* What ends the context, and that nothing is forwarded under a deadline.
ContextInv ==
    /\ readError = "client" => client # "here"
    /\ endedBy # "none" => endedBy = readError
    /\ phase \in Forwarding => deadline = "none"

\* What excuses a response that ends regularly before it is whole.
Excused == client = "gone" \/ endedBy # "none"

\* Nothing was sent before the response begins; then every unit that was taken
\* is either with the client or in the buffer.
ContentInv ==
    /\ phase \notin {"copy", "rewrite", "returned", "drain", "done"} =>
          status = 0 /\ headers = 0 /\ wire = 0 /\ buffered = 0 /\ taken = 0
          /\ content = 0
    /\ phase = "copy" => status = 200 /\ headers = 1 /\ wire = taken /\ method = "GET"
    /\ phase = "rewrite" =>
          /\ wire + buffered = taken
          /\ headers = 0 => status = 0 /\ wire = 0
          /\ headers # 0 => headers = 1 /\ status = 207
    /\ phase = "rewrite" => content > 0 /\ method = "PROPFIND"
    /\ wire > 0 => method # "HEAD"
    /\ content > 0 => method \in {"GET", "HEAD", "PROPFIND"}

\* A response that is about to end regularly is whole, or excused.
WholeInv ==
    /\ phase = "drain" => panicked = FALSE
    /\ /\ phase \in {"returned", "drain"}
       /\ panicked = FALSE
       /\ status \in {200, 207}
       /\ method \in {"GET", "PROPFIND"}
       => wire = content \/ Excused
    /\ ending # "none" => phase = "done"

\* What is going to be logged, or was.
LogInv ==
    /\ phase = "returned" /\ status = 0 => failed = TRUE \/ panicked = TRUE
    /\ phase \notin {"returned", "done"} => panicked = FALSE
    /\ phase \in {"drain", "done"} =>
          /\ logged.done = TRUE
          /\ logged.status = status
          /\ panicked = TRUE \/ status = 0 => logged.error = TRUE

IInv == /\ TypeOK
        /\ ContextInv
        /\ ContentInv
        /\ WholeInv
        /\ LogInv
        /\ OneStatus
        /\ NoSilentTruncation

LEMMA InitIInv == Init => IInv
<1> SUFFICES ASSUME Init PROVE IInv
  OBVIOUS
<1> USE DEF Init
<1>1. TypeOK
  <2>1. declared \in BOOLEAN /\ failed \in BOOLEAN /\ panicked \in BOOLEAN
    OBVIOUS
  <2>2. logged \in [done : BOOLEAN, status : Nat, error : BOOLEAN]
    BY DEF NotLogged
  <2> QED
    BY <2>1, <2>2, BufferSizeAssumption, MaxContentAssumption
       DEF TypeOK, Methods, supportedMethods, Phases
<1>2. ContextInv /\ ContentInv /\ WholeInv /\ LogInv /\ OneStatus /\ NoSilentTruncation
  BY DEF ContextInv, ContentInv, WholeInv, LogInv, OneStatus,
         NoSilentTruncation, Forwarding
<1> QED
  BY <1>1, <1>2 DEF IInv

LEMMA StepIInv == IInv /\ [Next]_vars => IInv'
<1> SUFFICES ASSUME IInv, [Next]_vars PROVE IInv'
  OBVIOUS
<1> USE BufferSizeAssumption, MaxContentAssumption
<1> USE DEF IInv, Refuse, Continue, WriteHeader, Flush, Started, ReadFailed,
            ReadDeadline, Full, LogLine, Excused,
            ContextDone, Watched, request, response, finish, Phases, Forwarding, Refusals,
            UpstreamErrors, Methods, supportedMethods
<1>1. CASE Arm
  <2>1. failed' \in BOOLEAN /\ panicked' \in BOOLEAN /\ declared' \in BOOLEAN
    <3>1. failed' \in BOOLEAN
      <4>1. CASE method = "OPTIONS"
        BY <1>1, <4>1 DEF Arm
      <4>2. CASE method # "OPTIONS"
        BY <1>1, <4>2 DEF Arm, TypeOK
      <4> QED
        BY <4>1, <4>2
    <3>2. panicked' \in BOOLEAN
      BY <1>1 DEF Arm, TypeOK
    <3>3. declared' \in BOOLEAN
      BY <1>1 DEF Arm, TypeOK
    <3> QED
      BY <3>1, <3>2, <3>3
  <2>2. TypeOK'
    BY <1>1, <2>1 DEF Arm, TypeOK, ContentInv
  <2>3. ContextInv' /\ ContentInv'
    BY <1>1
       DEF Arm,
           TypeOK, ContextInv, ContentInv, WholeInv, LogInv
  <2>4. WholeInv' /\ LogInv'
    BY <1>1
       DEF Arm,
           TypeOK, ContextInv, ContentInv, WholeInv, LogInv
  <2>5. OneStatus' /\ NoSilentTruncation'
    BY <1>1
       DEF Arm, OneStatus, NoSilentTruncation,
           TypeOK, ContextInv, ContentInv, WholeInv, LogInv
  <2> QED
    BY <2>2, <2>3, <2>4, <2>5
<1>2. CASE Authenticate
  <2>1. failed' \in BOOLEAN /\ panicked' \in BOOLEAN /\ declared' \in BOOLEAN
    BY <1>2 DEF Authenticate, TypeOK
  <2>2. TypeOK'
    BY <1>2, <2>1 DEF Authenticate, TypeOK, ContentInv
  <2>3. ContextInv' /\ ContentInv'
    BY <1>2
       DEF Authenticate,
           TypeOK, ContextInv, ContentInv, WholeInv, LogInv
  <2>4. WholeInv' /\ LogInv'
    BY <1>2
       DEF Authenticate,
           TypeOK, ContextInv, ContentInv, WholeInv, LogInv
  <2>5. OneStatus' /\ NoSilentTruncation'
    BY <1>2
       DEF Authenticate, OneStatus, NoSilentTruncation,
           TypeOK, ContextInv, ContentInv, WholeInv, LogInv
  <2> QED
    BY <2>2, <2>3, <2>4, <2>5
<1>3. CASE RefuseRequest
  <2>1. failed' \in BOOLEAN /\ panicked' \in BOOLEAN /\ declared' \in BOOLEAN
    BY <1>3 DEF RefuseRequest, TypeOK
  <2>2. TypeOK'
    BY <1>3, <2>1 DEF RefuseRequest, TypeOK, ContentInv
  <2>3. ContextInv' /\ ContentInv'
    BY <1>3
       DEF RefuseRequest,
           TypeOK, ContextInv, ContentInv, WholeInv, LogInv
  <2>4. WholeInv' /\ LogInv'
    BY <1>3
       DEF RefuseRequest,
           TypeOK, ContextInv, ContentInv, WholeInv, LogInv
  <2>5. OneStatus' /\ NoSilentTruncation'
    BY <1>3
       DEF RefuseRequest, OneStatus, NoSilentTruncation,
           TypeOK, ContextInv, ContentInv, WholeInv, LogInv
  <2> QED
    BY <2>2, <2>3, <2>4, <2>5
<1>4. CASE ForwardGet
  <2>1. TypeOK'
    BY <1>4 DEF ForwardGet, TypeOK, ContentInv
  <2>2. ContextInv' /\ ContentInv'
    BY <1>4
       DEF ForwardGet,
           TypeOK, ContextInv, ContentInv, WholeInv, LogInv
  <2>3. WholeInv' /\ LogInv'
    BY <1>4
       DEF ForwardGet,
           TypeOK, ContextInv, ContentInv, WholeInv, LogInv
  <2>4. OneStatus' /\ NoSilentTruncation'
    BY <1>4
       DEF ForwardGet, OneStatus, NoSilentTruncation,
           TypeOK, ContextInv, ContentInv, WholeInv, LogInv
  <2> QED
    BY <2>1, <2>2, <2>3, <2>4
<1>5. CASE AcceptPropfind
  <2>1. TypeOK'
    BY <1>5 DEF AcceptPropfind, TypeOK, ContentInv
  <2>2. ContextInv' /\ ContentInv'
    BY <1>5
       DEF AcceptPropfind,
           TypeOK, ContextInv, ContentInv, WholeInv, LogInv
  <2>3. WholeInv' /\ LogInv'
    BY <1>5
       DEF AcceptPropfind,
           TypeOK, ContextInv, ContentInv, WholeInv, LogInv
  <2>4. OneStatus' /\ NoSilentTruncation'
    BY <1>5
       DEF AcceptPropfind, OneStatus, NoSilentTruncation,
           TypeOK, ContextInv, ContentInv, WholeInv, LogInv
  <2> QED
    BY <2>1, <2>2, <2>3, <2>4
<1>6. CASE ReadBody
  <2>1. failed' \in BOOLEAN /\ panicked' \in BOOLEAN /\ declared' \in BOOLEAN
    BY <1>6 DEF ReadBody, TypeOK
  <2>2. TypeOK'
    BY <1>6, <2>1 DEF ReadBody, TypeOK, ContentInv
  <2>3. ContextInv' /\ ContentInv'
    BY <1>6
       DEF ReadBody,
           TypeOK, ContextInv, ContentInv, WholeInv, LogInv
  <2>4. WholeInv' /\ LogInv'
    BY <1>6
       DEF ReadBody,
           TypeOK, ContextInv, ContentInv, WholeInv, LogInv
  <2>5. OneStatus' /\ NoSilentTruncation'
    BY <1>6
       DEF ReadBody, OneStatus, NoSilentTruncation,
           TypeOK, ContextInv, ContentInv, WholeInv, LogInv
  <2> QED
    BY <2>2, <2>3, <2>4, <2>5
<1>7. CASE ClearReadDeadline
  <2>1. TypeOK'
    BY <1>7 DEF ClearReadDeadline, TypeOK, ContentInv
  <2>2. ContextInv' /\ ContentInv'
    BY <1>7
       DEF ClearReadDeadline,
           TypeOK, ContextInv, ContentInv, WholeInv, LogInv
  <2>3. WholeInv' /\ LogInv'
    BY <1>7
       DEF ClearReadDeadline,
           TypeOK, ContextInv, ContentInv, WholeInv, LogInv
  <2>4. OneStatus' /\ NoSilentTruncation'
    BY <1>7
       DEF ClearReadDeadline, OneStatus, NoSilentTruncation,
           TypeOK, ContextInv, ContentInv, WholeInv, LogInv
  <2> QED
    BY <2>1, <2>2, <2>3, <2>4
<1>8. CASE ServeSynthetic
  <2>1. failed' \in BOOLEAN /\ panicked' \in BOOLEAN /\ declared' \in BOOLEAN
    BY <1>8 DEF ServeSynthetic, TypeOK
  <2>2. TypeOK'
    BY <1>8, <2>1 DEF ServeSynthetic, TypeOK, ContentInv
  <2>3. ContextInv' /\ ContentInv'
    BY <1>8
       DEF ServeSynthetic,
           TypeOK, ContextInv, ContentInv, WholeInv, LogInv
  <2>4. WholeInv' /\ LogInv'
    BY <1>8
       DEF ServeSynthetic,
           TypeOK, ContextInv, ContentInv, WholeInv, LogInv
  <2>5. OneStatus' /\ NoSilentTruncation'
    BY <1>8
       DEF ServeSynthetic, OneStatus, NoSilentTruncation,
           TypeOK, ContextInv, ContentInv, WholeInv, LogInv
  <2> QED
    BY <2>2, <2>3, <2>4, <2>5
<1>9. CASE TransportError
  <2>1. failed' \in BOOLEAN /\ panicked' \in BOOLEAN /\ declared' \in BOOLEAN
    <3>1. failed' \in BOOLEAN
      <4>1. CASE ContextDone
        BY <1>9, <4>1 DEF TransportError
      <4>2. CASE ~ContextDone
        BY <1>9, <4>2 DEF TransportError, TypeOK
      <4> QED
        BY <4>1, <4>2
    <3>2. panicked' \in BOOLEAN
      BY <1>9 DEF TransportError, TypeOK
    <3>3. declared' \in BOOLEAN
      BY <1>9 DEF TransportError, TypeOK
    <3> QED
      BY <3>1, <3>2, <3>3
  <2>2. TypeOK'
    BY <1>9, <2>1 DEF TransportError, TypeOK, ContentInv
  <2>3. ContextInv' /\ ContentInv'
    BY <1>9
       DEF TransportError,
           TypeOK, ContextInv, ContentInv, WholeInv, LogInv
  <2>4. WholeInv' /\ LogInv'
    BY <1>9
       DEF TransportError,
           TypeOK, ContextInv, ContentInv, WholeInv, LogInv
  <2>5. OneStatus' /\ NoSilentTruncation'
    BY <1>9
       DEF TransportError, OneStatus, NoSilentTruncation,
           TypeOK, ContextInv, ContentInv, WholeInv, LogInv
  <2> QED
    BY <2>2, <2>3, <2>4, <2>5
<1>10. CASE UpstreamError
  <2>1. failed' \in BOOLEAN /\ panicked' \in BOOLEAN /\ declared' \in BOOLEAN
    BY <1>10 DEF UpstreamError, TypeOK
  <2>2. TypeOK'
    BY <1>10, <2>1 DEF UpstreamError, TypeOK, ContentInv
  <2>3. ContextInv' /\ ContentInv'
    BY <1>10
       DEF UpstreamError,
           TypeOK, ContextInv, ContentInv, WholeInv, LogInv
  <2>4. WholeInv' /\ LogInv'
    BY <1>10
       DEF UpstreamError,
           TypeOK, ContextInv, ContentInv, WholeInv, LogInv
  <2>5. OneStatus' /\ NoSilentTruncation'
    BY <1>10
       DEF UpstreamError, OneStatus, NoSilentTruncation,
           TypeOK, ContextInv, ContentInv, WholeInv, LogInv
  <2> QED
    BY <2>2, <2>3, <2>4, <2>5
<1>11. CASE PassOn
  <2>1. TypeOK'
    BY <1>11 DEF PassOn, TypeOK, ContentInv
  <2>2. ContextInv' /\ ContentInv'
    BY <1>11
       DEF PassOn,
           TypeOK, ContextInv, ContentInv, WholeInv, LogInv
  <2>3. WholeInv' /\ LogInv'
    BY <1>11
       DEF PassOn,
           TypeOK, ContextInv, ContentInv, WholeInv, LogInv
  <2>4. OneStatus' /\ NoSilentTruncation'
    BY <1>11
       DEF PassOn, OneStatus, NoSilentTruncation,
           TypeOK, ContextInv, ContentInv, WholeInv, LogInv
  <2> QED
    BY <2>1, <2>2, <2>3, <2>4
<1>12. CASE Copy
  <2>1. failed' \in BOOLEAN /\ panicked' \in BOOLEAN /\ declared' \in BOOLEAN
    <3>1. failed' \in BOOLEAN
      BY <1>12 DEF Copy, TypeOK
    <3>2. panicked' \in BOOLEAN
      <4>1. PICK read \in {"ok", "eof", "error"}, written \in BOOLEAN :
               IF ~written
               THEN failed' = TRUE /\ UNCHANGED panicked
               ELSE IF read = "error" THEN ReadFailed
                    ELSE UNCHANGED <<failed, panicked>>
        BY <1>12 DEF Copy
      <4>2. CASE ~written \/ read # "error"
        BY <4>1, <4>2 DEF TypeOK
      <4>3. CASE written /\ read = "error"
        BY <4>1, <4>3
      <4> QED
        BY <4>2, <4>3
    <3>3. declared' \in BOOLEAN
      BY <1>12 DEF Copy, TypeOK
    <3> QED
      BY <3>1, <3>2, <3>3
  <2>2. TypeOK'
    BY <1>12, <2>1 DEF Copy, TypeOK, ContentInv
  <2>3. ContextInv' /\ ContentInv'
    BY <1>12
       DEF Copy,
           TypeOK, ContextInv, ContentInv, WholeInv, LogInv
  <2>4. WholeInv' /\ LogInv'
    BY <1>12
       DEF Copy,
           TypeOK, ContextInv, ContentInv, WholeInv, LogInv
  <2>5. OneStatus' /\ NoSilentTruncation'
    BY <1>12
       DEF Copy, OneStatus, NoSilentTruncation,
           TypeOK, ContextInv, ContentInv, WholeInv, LogInv
  <2> QED
    BY <2>2, <2>3, <2>4, <2>5
<1>13. CASE StartRewrite
  <2>1. failed' \in BOOLEAN /\ panicked' \in BOOLEAN /\ declared' \in BOOLEAN
    BY <1>13 DEF StartRewrite, TypeOK
  <2>2. TypeOK'
    BY <1>13, <2>1 DEF StartRewrite, TypeOK, ContentInv
  <2>3. ContextInv' /\ ContentInv'
    BY <1>13
       DEF StartRewrite,
           TypeOK, ContextInv, ContentInv, WholeInv, LogInv
  <2>4. WholeInv' /\ LogInv'
    BY <1>13
       DEF StartRewrite,
           TypeOK, ContextInv, ContentInv, WholeInv, LogInv
  <2>5. OneStatus' /\ NoSilentTruncation'
    BY <1>13
       DEF StartRewrite, OneStatus, NoSilentTruncation,
           TypeOK, ContextInv, ContentInv, WholeInv, LogInv
  <2> QED
    BY <2>2, <2>3, <2>4, <2>5
<1>14. CASE Rewrite
  <2>1. TypeOK'
    BY <1>14 DEF Rewrite, TypeOK, ContentInv
  <2>2. ContextInv' /\ ContentInv'
    BY <1>14
       DEF Rewrite,
           TypeOK, ContextInv, ContentInv, WholeInv, LogInv
  <2>3. WholeInv' /\ LogInv'
    BY <1>14
       DEF Rewrite,
           TypeOK, ContextInv, ContentInv, WholeInv, LogInv
  <2>4. OneStatus' /\ NoSilentTruncation'
    BY <1>14
       DEF Rewrite, OneStatus, NoSilentTruncation,
           TypeOK, ContextInv, ContentInv, WholeInv, LogInv
  <2> QED
    BY <2>1, <2>2, <2>3, <2>4
<1>15. CASE RewriteEnds
  <2>1. TypeOK'
    BY <1>15 DEF RewriteEnds, TypeOK, ContentInv
  <2>2. ContextInv' /\ ContentInv'
    BY <1>15
       DEF RewriteEnds,
           TypeOK, ContextInv, ContentInv, WholeInv, LogInv
  <2>3. WholeInv' /\ LogInv'
    BY <1>15
       DEF RewriteEnds,
           TypeOK, ContextInv, ContentInv, WholeInv, LogInv
  <2>4. OneStatus' /\ NoSilentTruncation'
    BY <1>15
       DEF RewriteEnds, OneStatus, NoSilentTruncation,
           TypeOK, ContextInv, ContentInv, WholeInv, LogInv
  <2> QED
    BY <2>1, <2>2, <2>3, <2>4
<1>16. CASE RewriteFails
  <2>1. failed' \in BOOLEAN /\ panicked' \in BOOLEAN /\ declared' \in BOOLEAN
    <3>1. failed' \in BOOLEAN
      BY <1>16 DEF RewriteFails, TypeOK
    <3>2. panicked' \in BOOLEAN
      BY <1>16 DEF RewriteFails, TypeOK
    <3>3. declared' \in BOOLEAN
      BY <1>16 DEF RewriteFails, TypeOK
    <3> QED
      BY <3>1, <3>2, <3>3
  <2>2. TypeOK'
    BY <1>16, <2>1 DEF RewriteFails, TypeOK, ContentInv
  <2>3. ContextInv' /\ ContentInv'
    BY <1>16
       DEF RewriteFails,
           TypeOK, ContextInv, ContentInv, WholeInv, LogInv
  <2>4. WholeInv' /\ LogInv'
    BY <1>16
       DEF RewriteFails,
           TypeOK, ContextInv, ContentInv, WholeInv, LogInv
  <2>5. OneStatus' /\ NoSilentTruncation'
    BY <1>16
       DEF RewriteFails, OneStatus, NoSilentTruncation,
           TypeOK, ContextInv, ContentInv, WholeInv, LogInv
  <2> QED
    BY <2>2, <2>3, <2>4, <2>5
<1>17. CASE RewritePanics
  <2>1. TypeOK'
    BY <1>17 DEF RewritePanics, TypeOK, ContentInv
  <2>2. ContextInv' /\ ContentInv'
    BY <1>17
       DEF RewritePanics,
           TypeOK, ContextInv, ContentInv, WholeInv, LogInv
  <2>3. WholeInv' /\ LogInv'
    BY <1>17
       DEF RewritePanics,
           TypeOK, ContextInv, ContentInv, WholeInv, LogInv
  <2>4. OneStatus' /\ NoSilentTruncation'
    BY <1>17
       DEF RewritePanics, OneStatus, NoSilentTruncation,
           TypeOK, ContextInv, ContentInv, WholeInv, LogInv
  <2> QED
    BY <2>1, <2>2, <2>3, <2>4
<1>18. CASE LogRequest
  <2>1. TypeOK'
    BY <1>18 DEF LogRequest, TypeOK, ContentInv
  <2>2. ContextInv' /\ ContentInv'
    BY <1>18
       DEF LogRequest,
           TypeOK, ContextInv, ContentInv, WholeInv, LogInv
  <2>3. WholeInv' /\ LogInv'
    BY <1>18
       DEF LogRequest,
           TypeOK, ContextInv, ContentInv, WholeInv, LogInv
  <2>4. OneStatus' /\ NoSilentTruncation'
    BY <1>18
       DEF LogRequest, OneStatus, NoSilentTruncation,
           TypeOK, ContextInv, ContentInv, WholeInv, LogInv
  <2> QED
    BY <2>1, <2>2, <2>3, <2>4
<1>19. CASE FinishRequest
  <2>1. TypeOK'
    BY <1>19 DEF FinishRequest, TypeOK, ContentInv
  <2>2. ContextInv' /\ ContentInv'
    BY <1>19
       DEF FinishRequest,
           TypeOK, ContextInv, ContentInv, WholeInv, LogInv
  <2>3. WholeInv' /\ LogInv'
    BY <1>19
       DEF FinishRequest,
           TypeOK, ContextInv, ContentInv, WholeInv, LogInv
  <2>4. OneStatus' /\ NoSilentTruncation'
    BY <1>19
       DEF FinishRequest, OneStatus, NoSilentTruncation,
           TypeOK, ContextInv, ContentInv, WholeInv, LogInv
  <2> QED
    BY <2>1, <2>2, <2>3, <2>4
<1>20. CASE BodyArrives
  <2>1. TypeOK'
    BY <1>20 DEF BodyArrives, TypeOK, ContentInv
  <2>2. ContextInv' /\ ContentInv'
    BY <1>20
       DEF BodyArrives,
           TypeOK, ContextInv, ContentInv, WholeInv, LogInv
  <2>3. WholeInv' /\ LogInv'
    BY <1>20
       DEF BodyArrives,
           TypeOK, ContextInv, ContentInv, WholeInv, LogInv
  <2>4. OneStatus' /\ NoSilentTruncation'
    BY <1>20
       DEF BodyArrives, OneStatus, NoSilentTruncation,
           TypeOK, ContextInv, ContentInv, WholeInv, LogInv
  <2> QED
    BY <2>1, <2>2, <2>3, <2>4
<1>21. CASE ClientLeaves
  <2>1. TypeOK'
    BY <1>21 DEF ClientLeaves, TypeOK, ContentInv
  <2>2. ContextInv' /\ ContentInv'
    BY <1>21
       DEF ClientLeaves,
           TypeOK, ContextInv, ContentInv, WholeInv, LogInv
  <2>3. WholeInv' /\ LogInv'
    BY <1>21
       DEF ClientLeaves,
           TypeOK, ContextInv, ContentInv, WholeInv, LogInv
  <2>4. OneStatus' /\ NoSilentTruncation'
    BY <1>21
       DEF ClientLeaves, OneStatus, NoSilentTruncation,
           TypeOK, ContextInv, ContentInv, WholeInv, LogInv
  <2> QED
    BY <2>1, <2>2, <2>3, <2>4
<1>22. CASE Expire
  <2>1. TypeOK'
    BY <1>22 DEF Expire, TypeOK, ContentInv
  <2>2. ContextInv' /\ ContentInv'
    BY <1>22
       DEF Expire,
           TypeOK, ContextInv, ContentInv, WholeInv, LogInv
  <2>3. WholeInv' /\ LogInv'
    BY <1>22
       DEF Expire,
           TypeOK, ContextInv, ContentInv, WholeInv, LogInv
  <2>4. OneStatus' /\ NoSilentTruncation'
    BY <1>22
       DEF Expire, OneStatus, NoSilentTruncation,
           TypeOK, ContextInv, ContentInv, WholeInv, LogInv
  <2> QED
    BY <2>1, <2>2, <2>3, <2>4
<1>23. CASE ContextEnds
  <2>1. TypeOK'
    BY <1>23 DEF ContextEnds, TypeOK, ContentInv
  <2>2. ContextInv' /\ ContentInv'
    BY <1>23
       DEF ContextEnds,
           TypeOK, ContextInv, ContentInv, WholeInv, LogInv
  <2>3. WholeInv' /\ LogInv'
    BY <1>23
       DEF ContextEnds,
           TypeOK, ContextInv, ContentInv, WholeInv, LogInv
  <2>4. OneStatus' /\ NoSilentTruncation'
    BY <1>23
       DEF ContextEnds, OneStatus, NoSilentTruncation,
           TypeOK, ContextInv, ContentInv, WholeInv, LogInv
  <2> QED
    BY <2>1, <2>2, <2>3, <2>4
<1>24. CASE ReadFails
  <2>1. TypeOK'
    BY <1>24 DEF ReadFails, TypeOK, ContentInv
  <2>2. ContextInv' /\ ContentInv'
    BY <1>24
       DEF ReadFails,
           TypeOK, ContextInv, ContentInv, WholeInv, LogInv
  <2>3. WholeInv' /\ LogInv'
    BY <1>24
       DEF ReadFails,
           TypeOK, ContextInv, ContentInv, WholeInv, LogInv
  <2>4. OneStatus' /\ NoSilentTruncation'
    BY <1>24
       DEF ReadFails, OneStatus, NoSilentTruncation,
           TypeOK, ContextInv, ContentInv, WholeInv, LogInv
  <2> QED
    BY <2>1, <2>2, <2>3, <2>4
<1>25. CASE UNCHANGED vars
  BY <1>25
     DEF vars, TypeOK, ContextInv, ContentInv, WholeInv, LogInv, OneStatus,
         NoSilentTruncation
<1> QED
  BY <1>1, <1>2, <1>3, <1>4, <1>5, <1>6, <1>7, <1>8, <1>9, <1>10, <1>11, <1>12,
     <1>13, <1>14, <1>15, <1>16, <1>17, <1>18, <1>19, <1>20, <1>21, <1>22, <1>23, <1>24,
     <1>25
     DEF Next, Serve, Forward, Finish, Done

THEOREM Inductive == Spec => []IInv
  BY InitIInv, StepIInv, PTL DEF Spec

(* The variables keep their types.                                          *)
THEOREM TypeCorrect == Spec => []TypeOK
<1>1. IInv => TypeOK
  BY DEF IInv
<1> QED
  BY <1>1, Inductive, PTL

(* For any content, framing and buffer: a success that ends regularly       *)
(* before it is whole has no Content-Length, and its client is gone or the   *)
(* context of its request had ended.  In the second case the client may     *)
(* still be there, with its sending side closed or after the deadline.      *)
THEOREM TruncationExplained == Spec => []NoSilentTruncation
<1>1. IInv => NoSilentTruncation
  BY DEF IInv, NoSilentTruncation
<1> QED
  BY <1>1, Inductive, PTL

(* The status is sent once, and before any data.                            *)
THEOREM StatusOnce == Spec => []OneStatus
<1>1. IInv => OneStatus
  BY DEF IInv
<1> QED
  BY <1>1, Inductive, PTL

(* Every request is logged truthfully before its response ends.             *)
THEOREM LogTruthful == Spec => []LogTellsTruth
<1>1. IInv => LogTellsTruth
  BY DEF IInv, WholeInv, LogInv, LogTellsTruth
<1> QED
  BY <1>1, Inductive, PTL

\* The deadline has no part in the request any more.
Spared == /\ phase # "arm"
          /\ deadline = "none"
          /\ readError # "deadline"
          /\ endedBy # "deadline"

(* Once a request is being forwarded the deadline never ends its context,   *)
(* except if the background read had failed of it before.                   *)
THEOREM TransfersSpared == Spec => DeadlineSparesTransfers
<1>1. IInv /\ phase \in Forwarding /\ readError # "deadline" => Spared
  BY DEF IInv, TypeOK, ContextInv, Forwarding, Spared
<1>2. Spared /\ [Next]_vars => Spared'
  <2> SUFFICES ASSUME Spared, [Next]_vars PROVE Spared'
    OBVIOUS
  <2> USE DEF Spared, request
  <2>1. CASE Serve
    BY <2>1 DEF Serve, Arm, Authenticate, RefuseRequest, ForwardGet, AcceptPropfind,
                ReadBody, ClearReadDeadline, ServeSynthetic, Refuse, Continue
  <2>2. CASE Forward
    BY <2>2 DEF Forward, TransportError, UpstreamError, PassOn, Copy, StartRewrite,
                Rewrite, RewriteEnds, RewriteFails, RewritePanics, Refuse
  <2>3. CASE Finish
    BY <2>3 DEF Finish, LogRequest, FinishRequest
  <2>4. CASE BodyArrives \/ ClientLeaves \/ Expire
    BY <2>4 DEF BodyArrives, ClientLeaves, Expire
  <2>5. CASE ReadFails \/ ContextEnds
    BY <2>5 DEF ReadFails, ContextEnds
  <2>6. CASE Done \/ UNCHANGED vars
    BY <2>6 DEF Done, vars
  <2> QED
    BY <2>1, <2>2, <2>3, <2>4, <2>5, <2>6 DEF Next
<1>3. Spared => endedBy # "deadline"
  BY DEF Spared
<1> QED
  BY <1>1, <1>2, <1>3, Inductive, PTL DEF Spec, DeadlineSparesTransfers

\* What a step may do to the variables that Delivery sees.
Sends ==
    /\ UNCHANGED <<client, endedBy, ending>>
    /\ ending # "none" => UNCHANGED <<status, content, wire>>
    /\ status # 0 => UNCHANGED <<status, content>>
    /\ wire <= wire'

Loses ==
    /\ UNCHANGED <<method, status, content, wire, ending>>
    /\ client' # "here" \/ endedBy' # "none"

Ends ==
    /\ ending = "none"
    /\ ending' \in {"cut", "complete"}
    /\ UNCHANGED <<method, client, endedBy, status, content, wire>>

LEMMA StepKinds ==
    ASSUME IInv, IInv', [Next]_vars
    PROVE  method' = method /\ (Sends \/ Loses \/ Ends)
<1> USE DEF Refuse, Continue, WriteHeader, request, response, finish, Forwarding
<1>0. /\ wire \in Nat /\ wire' \in Nat /\ buffered \in Nat /\ content \in Nat
      /\ taken \in Nat
  BY MaxContentAssumption, BufferSizeAssumption DEF IInv, TypeOK
<1>1. CASE ClientLeaves \/ ContextEnds
  BY <1>1 DEF ClientLeaves, ContextEnds, Loses
<1>2. CASE Finish
  <2>1. CASE LogRequest
    <3>1. ending = "none"
      BY <2>1 DEF LogRequest, IInv, WholeInv
    <3>2. UNCHANGED <<method, client, endedBy, status, content, wire>>
      BY <2>1 DEF LogRequest
    <3>3. ending' = "cut" \/ ending' = ending
      BY <2>1 DEF LogRequest
    <3> QED
      BY <1>0, <3>1, <3>2, <3>3 DEF Sends, Ends
  <2>2. CASE FinishRequest
    BY <2>2 DEF FinishRequest, IInv, WholeInv, Ends
  <2> QED
    BY <1>2, <2>1, <2>2 DEF Finish
<1>3. CASE Serve
  <2>1. /\ phase # "done" /\ status = 0
        /\ UNCHANGED <<method, client, endedBy, ending, wire>>
    BY <1>3 DEF Serve, Arm, Authenticate, RefuseRequest, ForwardGet, AcceptPropfind,
                ReadBody, ClearReadDeadline, ServeSynthetic, IInv, ContentInv
  <2> QED
    BY <1>0, <2>1 DEF Sends, IInv, WholeInv
<1>4. CASE Forward
  <2>1. /\ phase # "done"
        /\ UNCHANGED <<method, client, endedBy, ending>>
    BY <1>4 DEF Forward, TransportError, UpstreamError, PassOn, Copy, StartRewrite,
                Rewrite, RewriteEnds, RewriteFails, RewritePanics
  <2>2. status # 0 => UNCHANGED <<status, content>>
    BY <1>4 DEF Forward, TransportError, UpstreamError, PassOn, Copy, StartRewrite,
                Rewrite, RewriteEnds, RewriteFails, RewritePanics, Flush, IInv, ContentInv
  <2>3. wire <= wire'
    BY <1>0, <1>4
       DEF Forward, TransportError, UpstreamError, PassOn, Copy, StartRewrite,
           Rewrite, RewriteEnds, RewriteFails, RewritePanics, Flush
  <2> QED
    BY <2>1, <2>2, <2>3 DEF Sends, IInv, WholeInv
<1>5. CASE BodyArrives \/ Expire \/ ReadFails \/ Done \/ UNCHANGED vars
  BY <1>0, <1>5 DEF BodyArrives, Expire, ReadFails, Done, vars, Sends
<1> QED
  BY <1>1, <1>2, <1>3, <1>4, <1>5 DEF Next

(* Every response is a Delivery: each step of the handler, of net/http and  *)
(* of the client is one of Delivery's or a stutter.                         *)
THEOREM RefinesDelivery == Spec => ImplementsDelivery
<1>1. Init => Promised!Init
  BY DEF Init, Promised!Init, Announced, ContextDone
<1>2. ASSUME IInv, IInv', [Next]_vars
      PROVE  [Promised!Next]_Promised!vars
  <2>0. /\ method' = method /\ wire \in Nat /\ wire' \in Nat
        /\ content \in Nat /\ content' \in Nat
        /\ wire <= content /\ wire' <= content'
    BY <1>2, StepKinds, MaxContentAssumption DEF IInv, TypeOK
  <2>1. CASE Loses
    <3>1. UNCHANGED <<Announced, content, wire, ending>>
      BY <2>1 DEF Loses, Announced
    <3>2. ~(client' = "here" /\ ~(ContextDone'))
      BY <2>1 DEF Loses, ContextDone
    <3> QED
      BY <3>1, <3>2 DEF Promised!Next, Promised!Leave
  <2>2. CASE Sends
    <3>1. UNCHANGED <<client = "here" /\ ~ContextDone, ending>>
      BY <2>2 DEF Sends, ContextDone
    <3>2. Announced => Announced' /\ content' = content
      BY <2>0, <2>2 DEF Sends, Announced
    <3>3. wire > 0 => Announced
      BY <1>2, <2>0 DEF IInv, OneStatus, ContentInv, Announced
    <3>4. wire' > 0 => Announced'
      BY <1>2, <2>0 DEF IInv, OneStatus, ContentInv, Announced
    <3>5. ending # "none" => wire' = wire /\ (~Announced => ~Announced')
      BY <2>0, <2>2 DEF Sends, Announced
    <3>6. wire <= wire'
      BY <2>2 DEF Sends
    <3>7. CASE Announced
      BY <2>0, <3>1, <3>2, <3>5, <3>6, <3>7 DEF Promised!Next, Promised!Proceed
    <3>8. CASE ~Announced
      <4>1. wire = 0
        BY <2>0, <3>3, <3>8
      <4>2. CASE Announced'
        BY <2>0, <3>1, <3>5, <3>6, <3>8, <4>1, <4>2 DEF Promised!Next, Promised!Proceed
      <4>3. CASE ~Announced'
        <5>1. wire' = 0
          BY <2>0, <3>4, <4>3
        <5> QED
          BY <3>1, <3>8, <4>1, <4>3, <5>1 DEF Promised!vars
      <4> QED
        BY <4>2, <4>3
    <3> QED
      BY <3>7, <3>8
  <2>3. CASE Ends
    <3>1. UNCHANGED <<Announced, content, wire, client = "here" /\ ~ContextDone>>
      BY <2>3 DEF Ends, Announced, ContextDone
    <3>2. CASE ending' = "cut"
      BY <2>3, <3>1, <3>2 DEF Ends, Promised!Next, Promised!Cut
    <3>3. CASE ending' = "complete"
      <4>1. Announced => wire = content \/ ~(client = "here" /\ ~ContextDone)
        <5>1. CASE method \in {"GET", "PROPFIND"}
          BY <1>2, <2>3, <3>3, <5>1
             DEF IInv, NoSilentTruncation, Ends, Announced, ContextDone
        <5>2. CASE method \notin {"GET", "PROPFIND"}
          BY <1>2, <2>0, <5>2 DEF IInv, ContentInv, Announced
        <5> QED
          BY <5>1, <5>2
      <4> QED
        BY <2>3, <3>1, <3>3, <4>1 DEF Ends, Promised!Next, Promised!Complete
    <3> QED
      BY <2>3, <3>2, <3>3 DEF Ends
  <2> QED
    BY <1>2, <2>1, <2>2, <2>3, StepKinds
<1> QED
  BY <1>1, <1>2, Inductive, PTL DEF Spec, ImplementsDelivery, Promised!Spec
=============================================================================
