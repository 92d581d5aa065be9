-------------------------- MODULE LocalDownloadProofs --------------------------
(***************************************************************************)
(* Proofs about LocalTransport and LocalDownload, for handlers that make   *)
(* any number of writes of any size and buffers of any length: what a      *)
(* caller of handlerTransport sees is true, serveGet is such a caller, and *)
(* every download is a Delivery.                                           *)
(***************************************************************************)
EXTENDS LocalDownload, TLAPS

\* The groups of variables are only abbreviations.
USE DEF copying, own, handlerVars, commitVars, pipe, context, callerVars

-----------------------------------------------------------------------------
\* handlerTransport with any caller.

\* What the caller holds: before RoundTrip returns nothing has happened on its
\* side; while it reads, what is left and what it has add up to the limit.
CallerInv ==
    /\ caller = "waiting" => outcome = "none" /\ got = 0
    /\ caller \in {"waiting", "reading"} => rerr = "none"
    /\ caller = "reading" =>
          /\ committed
          /\ IF Limit = Unknown
             THEN remaining = Unknown
             ELSE remaining \in Nat /\ got + remaining = Limit
    /\ outcome \in {"EOF", "unexpectedEOF"} => committed

\* What the write side of the pipe says of the handler.
PipeInv ==
    /\ werr # "closed"
    /\ werr \in {"EOF", "panic"} => handler = "done"
    /\ handler = "done" => werr # "none"
    /\ werr = "EOF" => ~panicked
    /\ werr = "panic" => panicked
    /\ werr = "cancel" => cancelled
    /\ refused => rerr # "none" \/ werr = "cancel"
    /\ panicked => handler \in {"ended", "closing", "done"}
    /\ failure => panicked

IInv == TypeOK /\ CallerInv /\ PipeInv /\ EofMeansComplete /\ ErrorsHaveCauses

LEMMA InitIInv == Init => IInv
<1> SUFFICES ASSUME Init PROVE IInv
  OBVIOUS
<1>1. TypeOK
  <2>1. /\ refused \in BOOLEAN /\ panicked \in BOOLEAN /\ committed \in BOOLEAN
        /\ failure \in BOOLEAN /\ cancelled \in BOOLEAN
    BY DEF Init
  <2> QED
    BY <2>1, BoundsAssumption
       DEF Init, TypeOK, Lengths, Unknown, Errors, Outcomes
<1>2. CallerInv /\ PipeInv /\ EofMeansComplete /\ ErrorsHaveCauses
  BY DEF Init, CallerInv, PipeInv, EofMeansComplete, ErrorsHaveCauses
<1> QED
  BY <1>1, <1>2 DEF IInv

(* The steps of the handler goroutine.                                      *)
LEMMA HandlerStepIInv == IInv /\ HandlerStep => IInv'
<1> SUFFICES ASSUME IInv, HandlerStep PROVE IInv'
  OBVIOUS
<1> USE BoundsAssumption
    DEF IInv, TypeOK, CallerInv, PipeInv, EofMeansComplete, ErrorsHaveCauses,
        Lengths, Unknown, Errors, Outcomes, Limit, PipeDone, Deferred
<1>1. CASE SetHeader
  BY <1>1 DEF SetHeader
<1>2. CASE WriteHeader
  <2>1. CASE committed
    BY <1>2, <2>1 DEF WriteHeader, commit
  <2>2. CASE ~committed
    <3>1. committed' \in BOOLEAN /\ failure' \in BOOLEAN /\ refused' \in BOOLEAN
      BY <1>2, <2>2 DEF WriteHeader, commit
    <3> QED
      BY <1>2, <2>2, <3>1 DEF WriteHeader, commit
  <2> QED
    BY <2>1, <2>2
<1>3. CASE BeginWrite
  <2>1. CASE committed
    <3>1. refused' \in BOOLEAN /\ UNCHANGED commitVars
      BY <1>3, <2>1 DEF BeginWrite, commit
    <3> QED
      BY <1>3, <2>1, <3>1 DEF BeginWrite
  <2>2. CASE ~committed
    <3>1. committed' \in BOOLEAN /\ failure' \in BOOLEAN /\ refused' \in BOOLEAN
      BY <1>3, <2>2 DEF BeginWrite, commit
    <3> QED
      BY <1>3, <2>2, <3>1 DEF BeginWrite, commit
  <2> QED
    BY <2>1, <2>2
<1>4. CASE WriteRefused
  BY <1>4 DEF WriteRefused
<1>5. CASE HandlerEnds
  <2>1. panicked' \in BOOLEAN
    BY <1>5 DEF HandlerEnds
  <2> QED
    BY <1>5, <2>1 DEF HandlerEnds
<1>6. CASE CommitAtEnd
  <2>1. CASE committed
    BY <1>6, <2>1 DEF CommitAtEnd, commit
  <2>2. CASE ~committed
    <3>1. committed' \in BOOLEAN /\ failure' \in BOOLEAN /\ refused' \in BOOLEAN
      BY <1>6, <2>2 DEF CommitAtEnd, commit
    <3> QED
      BY <1>6, <2>2, <3>1 DEF CommitAtEnd, commit
  <2> QED
    BY <2>1, <2>2
<1>7. CASE CloseAtEnd
  BY <1>7 DEF CloseAtEnd, CloseWrite
<1> QED
  BY <1>1, <1>2, <1>3, <1>4, <1>5, <1>6, <1>7 DEF HandlerStep

(* The steps of the caller.                                                 *)
LEMMA CallerStepIInv == IInv /\ CallerStep => IInv'
<1> SUFFICES ASSUME IInv, CallerStep PROVE IInv'
  OBVIOUS
<1> USE BoundsAssumption
    DEF IInv, TypeOK, CallerInv, PipeInv, EofMeansComplete, ErrorsHaveCauses,
        Lengths, Unknown, Errors, Outcomes, Limit, PipeDone, CloseRead,
        ReadCloseError, Report, BodyEnds
<1>1. CASE Respond
  BY <1>1 DEF Respond
<1>2. CASE ReportPanic
  BY <1>2 DEF ReportPanic
<1>3. CASE ReportCancel
  BY <1>3 DEF ReportCancel
<1>4. CASE ReadToTheEnd
  BY <1>4 DEF ReadToTheEnd
<1>5. CASE ReadClosed
  BY <1>5 DEF ReadClosed
<1>6. CASE Transfer
  BY <1>6 DEF Transfer, Left
<1>7. CASE CloseBody
  BY <1>7 DEF CloseBody
<1> QED
  BY <1>1, <1>2, <1>3, <1>4, <1>5, <1>6, <1>7 DEF CallerStep

LEMMA StepIInv == IInv /\ [Next]_vars => IInv'
<1> SUFFICES ASSUME IInv, [Next]_vars PROVE IInv'
  OBVIOUS
<1> USE DEF IInv, TypeOK, CallerInv, PipeInv, EofMeansComplete,
            ErrorsHaveCauses, Errors, Limit, CloseWrite
<1>1. CASE Cancel
  BY <1>1 DEF Cancel
<1>2. CASE AfterFunc
  BY <1>2 DEF AfterFunc
<1>3. CASE UNCHANGED vars
  BY <1>3 DEF vars
<1> QED
  BY <1>1, <1>2, <1>3, HandlerStepIInv, CallerStepIInv DEF Next

THEOREM Inductive == Spec => []IInv
  BY InitIInv, StepIInv, PTL DEF Spec

(* The variables keep their types.                                          *)
THEOREM TypeCorrect == Spec => []TypeOK
<1>1. IInv => TypeOK
  BY DEF IInv
<1> QED
  BY <1>1, Inductive, PTL

(* However the handler, the reader, the context and its AfterFunc           *)
(* interleave, a body that ends with EOF is the whole content.              *)
THEOREM NoSilentTruncation == Spec => []EofMeansComplete
<1>1. IInv => EofMeansComplete
  BY DEF IInv
<1> QED
  BY <1>1, Inductive, PTL

(* Every error that the caller sees is a true account of what happened.     *)
THEOREM ErrorsTruthful == Spec => []ErrorsHaveCauses
<1>1. IInv => ErrorsHaveCauses
  BY DEF IInv
<1> QED
  BY <1>1, Inductive, PTL

-----------------------------------------------------------------------------
\* A download.

(* Whatever serveGet and the client do is something that a caller of        *)
(* handlerTransport may do: what is proved of LocalTransport holds here.    *)
THEOREM UsesTransport == DownloadSpec => Spec
<1>1. DownloadInit => Init
  BY DEF DownloadInit
<1>2. [DownloadNext]_allVars => [Next]_vars
  <2> SUFFICES ASSUME [DownloadNext]_allVars PROVE [Next]_vars
    OBVIOUS
  <2>1. CASE Serve
    BY <2>1 DEF Serve, PassOn, PassError, RoundTripFails, ReadSome, ReadEnds,
                Return, Finish, Next, CallerStep
  <2>2. CASE UNCHANGED allVars
    BY <2>2 DEF allVars
  <2> QED
    BY <2>1, <2>2
       DEF DownloadNext, WriteSome, ClientLeaves, ContextEnds, DeadlineExpired,
           Over, allVars, Next
<1> QED
  BY <1>1, <1>2, PTL DEF DownloadSpec, Spec

-----------------------------------------------------------------------------

OwnTypes ==
    /\ client \in {"here", "half", "gone"}
    /\ expired \in BOOLEAN
    /\ step \in Steps
    /\ status \in {0, 200, 404, 502}
    /\ buffer \in Nat
    /\ wire \in Nat
    /\ aborted \in BOOLEAN
    /\ ending \in {"none", "complete", "cut"}

\* Where serveGet is tells where the caller of the transport is.
StepInv ==
    /\ step = "roundTrip" <=> caller = "waiting"
    /\ step = "roundTrip" => status = 0
    /\ step \in {"read", "write"} => caller = "reading" /\ Announced
    /\ status = 200 => committed
    /\ step = "done" <=> ending # "none"

\* No byte is invented and none is lost on the way.
ByteInv ==
    /\ wire + buffer <= got
    /\ Announced /\ sent # Unknown => got <= sent
    /\ ~Announced => wire = 0
    /\ step \in {"read", "write"} => wire + buffer = got
    /\ step # "write" => buffer = 0

\* Why the copying came to an end.
EndInv ==
    /\ cancelled => client # "here" \/ expired \/ step = "done"
    /\ expired /\ Announced => sent # Unknown
    /\ step \in {"return", "finish"} /\ Announced =>
          \/ aborted
          \/ outcome = "EOF" /\ wire = got
          \/ client # "here"
          \/ expired

DInv == OwnTypes /\ StepInv /\ ByteInv /\ EndInv

LEMMA InitDInv == DownloadInit => DInv
<1> SUFFICES ASSUME DownloadInit PROVE DInv
  OBVIOUS
<1>1. expired \in BOOLEAN /\ aborted \in BOOLEAN
  BY DEF DownloadInit
<1>2. OwnTypes
  BY <1>1 DEF DownloadInit, OwnTypes, Steps
<1>3. StepInv /\ ByteInv /\ EndInv
  BY DEF DownloadInit, Init, StepInv, ByteInv, EndInv, Announced
<1> QED
  BY <1>2, <1>3 DEF DInv

(* Once a response is announced, its length does not change any more.       *)
LEMMA CommittedOnce ==
    ASSUME [Next]_vars, committed
    PROVE  committed' /\ sent' = sent
  BY DEF Next, HandlerStep, CallerStep, vars, SetHeader, WriteHeader, commit,
         BeginWrite, WriteRefused, HandlerEnds, Deferred, CommitAtEnd,
         CloseAtEnd, Respond, Report, ReportPanic, ReportCancel, BodyEnds,
         ReadToTheEnd, ReadClosed, Transfer, CloseBody, Cancel, AfterFunc

(* A handler goroutine does not touch the caller's side.                    *)
LEMMA HandlerElsewhere ==
    ASSUME HandlerStep \/ AfterFunc
    PROVE  UNCHANGED <<method, caller, remaining, got, outcome, cancelled>>
  BY DEF HandlerStep, SetHeader, WriteHeader, BeginWrite, WriteRefused,
         HandlerEnds, Deferred, CommitAtEnd, CloseAtEnd, AfterFunc

LEMMA Difference ==
    ASSUME NEW g \in Nat, NEW h \in Nat, g <= h
    PROVE  h - g \in Nat /\ g + (h - g) = h /\ (h = g => h - g = 0)
  OBVIOUS

(* A handler that is done does nothing any more.                            *)
LEMMA DoneStays ==
    ASSUME HandlerStep \/ AfterFunc, handler = "done"
    PROVE  UNCHANGED <<handler, panicked, refused>>
  BY DEF HandlerStep, SetHeader, WriteHeader, BeginWrite, WriteRefused,
         HandlerEnds, Deferred, CommitAtEnd, CloseAtEnd, AfterFunc

(* Each step of the composition preserves DInv.                             *)
LEMMA StepDInv ==
    ASSUME IInv, DInv, [DownloadNext]_allVars
    PROVE  DInv'
<1> USE DEF DInv, OwnTypes, StepInv, ByteInv, EndInv, Announced, Steps
<1>1. CASE PassOn
  <2>1. /\ step = "roundTrip" /\ caller = "waiting" /\ caller' = "reading"
        /\ committed /\ status' = 200 /\ status = 0 /\ wire = 0 /\ buffer = 0
        /\ got = 0
        /\ UNCHANGED <<method, sent, committed, got, outcome, cancelled, client,
                      expired, buffer, wire, aborted, ending>>
        /\ step' = IF method = "HEAD" THEN "return" ELSE "read"
        /\ expired => sent # Unknown
    BY <1>1 DEF PassOn, Respond, IInv, CallerInv
  <2>2. method \in {"GET", "HEAD"} /\ sent \in Lengths /\ Lengths \subseteq Int
    BY BoundsAssumption DEF IInv, TypeOK, Lengths, Unknown
  <2>3. sent # Unknown => 0 <= sent
    BY <2>2, BoundsAssumption DEF Lengths, Unknown
  <2> QED
    BY <2>1, <2>2, <2>3
<1>2. CASE PassError
  BY <1>2 DEF PassError, Respond, IInv, CallerInv
<1>3. CASE RoundTripFails
  BY <1>3 DEF RoundTripFails, ReportPanic, ReportCancel, Report, IInv, CallerInv
<1>4. CASE ReadSome
  <2>1. /\ step = "read" /\ buffer' = got' - got /\ wire = got /\ Announced
        /\ step' = IF got' = got THEN "read" ELSE "write"
        /\ UNCHANGED <<client, expired, status, wire, aborted, ending, method,
                      committed, sent, caller, outcome, cancelled>>
    BY <1>4 DEF ReadSome, Transfer
  <2>2. got' \in Nat /\ got <= got'
    BY <1>4, BoundsAssumption
       DEF ReadSome, Transfer, IInv, TypeOK, Lengths, Unknown
  <2>3. sent # Unknown => got' <= sent
    <3>1. sent # Unknown => remaining \in Nat /\ got + remaining = sent
      BY <1>4, <2>1 DEF ReadSome, Transfer, IInv, CallerInv, Limit
    <3>2. sent # Unknown => remaining' \in Nat /\ got' + remaining' = sent
      BY <1>4, <3>1, BoundsAssumption
         DEF ReadSome, Transfer, Left, IInv, TypeOK, Lengths, Unknown
    <3> QED
      BY <2>2, <3>2 DEF IInv, TypeOK, Lengths
  <2>4. buffer' \in Nat /\ wire' + buffer' = got' /\ (got' = got => buffer' = 0)
    <3>1. got \in Nat /\ got' \in Nat /\ wire \in Nat /\ got <= got'
      BY <2>2 DEF IInv, TypeOK
    <3>2. buffer' = got' - got /\ wire' = got
      BY <2>1
    <3> QED
      BY <3>1, <3>2, Difference
  <2>5. OwnTypes'
    BY <2>1, <2>4
  <2>6. StepInv' /\ EndInv'
    BY <2>1
  <2>7. ByteInv'
    <3>1. got' \in Nat /\ wire' \in Nat /\ buffer' \in Nat
      BY <2>1, <2>2, <2>4
    <3>2. wire' + buffer' <= got'
      <4>1. got' <= got'
        BY <3>1
      <4> QED
        BY <2>4, <4>1
    <3>3. step' # "write" => buffer' = 0
      BY <2>1, <2>4
    <3>4. Announced'
      BY <2>1
    <3> QED
      BY <2>1, <2>3, <2>4, <3>2, <3>3, <3>4
  <2> QED
    BY <2>5, <2>6, <2>7
<1>5. CASE ReadEnds
  <2>1. /\ step = "read" /\ step' = "return" /\ aborted' \in BOOLEAN
        /\ UNCHANGED <<client, expired, status, buffer, wire, ending, method,
                      committed, sent, caller, got, cancelled>>
    BY <1>5 DEF ReadEnds, ReadToTheEnd, ReadClosed, BodyEnds, Aborts
  <2>2. aborted' \/ outcome' = "EOF" \/ cancelled
    BY <1>5 DEF ReadEnds, Aborts
  <2> QED
    BY <2>1, <2>2
<1>6. CASE Return
  BY <1>6 DEF Return, CloseBody, vars
<1>7. CASE Finish
  BY <1>7 DEF Finish, vars
<1>8. CASE WriteSome
  <2>1. /\ step = "write" /\ buffer' = 0
        /\ \/ wire' = wire + buffer /\ step' = "read"
           \/ client = "gone" /\ step' = "return" /\ wire' = wire
        /\ UNCHANGED <<client, expired, status, aborted, ending, method,
                      committed, sent, caller, got, cancelled, outcome>>
    BY <1>8 DEF WriteSome, vars
  <2>2. step = "write" => wire + buffer = got
    OBVIOUS
  <2>3. wire' \in Nat /\ wire' + buffer' <= got' /\ got \in Nat
    BY <2>1 DEF IInv, TypeOK
  <2>4. OwnTypes'
    BY <2>1, <2>3
  <2>5. StepInv' /\ EndInv'
    BY <2>1
  <2>6. ByteInv'
    <3>1. step' = "read" => wire' + buffer' = got'
      BY <2>1, <2>2, <2>3
    <3> QED
      BY <2>1, <2>3, <3>1
  <2> QED
    BY <2>4, <2>5, <2>6
<1>9. CASE ClientLeaves
  BY <1>9 DEF ClientLeaves, vars
<1>10. CASE ContextEnds \/ DeadlineExpired
  <2>1. /\ expired' \in BOOLEAN
        /\ cancelled' => client' # "here" \/ expired' \/ step' = "done"
        /\ expired' # expired => step = "roundTrip"
        /\ expired => expired'
    <3>1. CASE ContextEnds
      BY <3>1 DEF ContextEnds
    <3>2. CASE DeadlineExpired
      BY <3>2 DEF DeadlineExpired
    <3> QED
      BY <1>10, <3>1, <3>2
  <2>2. UNCHANGED <<client, step, status, buffer, wire, ending, method,
                    committed, sent, caller, got, outcome>>
    BY <1>10 DEF ContextEnds, DeadlineExpired, Cancel
  <2>3. aborted' \in BOOLEAN /\ aborted' = aborted
    BY <1>10 DEF ContextEnds, DeadlineExpired
  <2>4. OwnTypes' /\ StepInv' /\ ByteInv'
    BY <2>1, <2>2, <2>3
  <2>5. EndInv'
    BY <2>1, <2>2, <2>3
  <2> QED
    BY <2>4, <2>5
<1>11. CASE (HandlerStep \/ AfterFunc) /\ UNCHANGED own
  <2>1. UNCHANGED <<method, caller, got, outcome, cancelled, client, expired,
                    step, status, buffer, wire, aborted, ending>>
    BY <1>11, HandlerElsewhere
  <2>2. Announced => committed' /\ sent' = sent
    BY <1>11, CommittedOnce DEF Next
  <2>3. status = 200 => committed'
    BY <1>11, CommittedOnce DEF Next
  <2> QED
    BY <2>1, <2>2, <2>3
<1>12. CASE UNCHANGED allVars
  BY <1>12 DEF allVars, vars
<1> QED
  BY <1>1, <1>2, <1>3, <1>4, <1>5, <1>6, <1>7, <1>8, <1>9, <1>10, <1>11, <1>12
     DEF DownloadNext, Serve, Over

LEMMA AlwaysInv == DownloadSpec => [](IInv /\ DInv)
<1>1. IInv /\ DInv /\ [DownloadNext]_allVars => DInv'
  BY StepDInv
<1>2. DownloadSpec => []IInv
  BY UsesTransport, Inductive, PTL
<1> QED
  BY <1>1, <1>2, InitDInv, PTL DEF DownloadSpec

(* The variables keep their types.                                          *)
THEOREM DownloadTypeCorrect == DownloadSpec => []DownloadTypeOK
<1> DEFINE Fits == buffer \in 0..BufferSize
<1>1. DownloadInit => Fits
  BY BoundsAssumption DEF DownloadInit
<1>2. IInv /\ Fits /\ [DownloadNext]_allVars => Fits'
  <2> SUFFICES ASSUME IInv, buffer \in 0..BufferSize, [DownloadNext]_allVars
               PROVE  buffer' \in 0..BufferSize
    OBVIOUS
  <2>1. CASE ReadSome
    BY <2>1, BoundsAssumption
       DEF ReadSome, Transfer, IInv, TypeOK, Lengths, Unknown
  <2>2. CASE WriteSome
    BY <2>2, BoundsAssumption DEF WriteSome
  <2>3. CASE ~ReadSome /\ ~WriteSome
    BY <2>3 DEF DownloadNext, Serve, PassOn, PassError, RoundTripFails,
                ReadEnds, Return, Finish, ClientLeaves, ContextEnds,
                DeadlineExpired, Over, allVars
  <2> QED
    BY <2>1, <2>2, <2>3
<1>3. IInv /\ DInv /\ Fits => DownloadTypeOK
  BY DEF IInv, DInv, OwnTypes, DownloadTypeOK
<1> HIDE DEF Fits
<1> QED
  BY <1>1, <1>2, <1>3, AlwaysInv, PTL DEF DownloadSpec

-----------------------------------------------------------------------------

LEMMA PartBelow ==
    ASSUME NEW a \in Nat, NEW b \in Nat, NEW c \in Nat, a + b <= c
    PROVE  a <= c
  OBVIOUS

(* What is sent is content: bytes of the file, within its length.           *)
LEMMA SentIsOffered ==
    ASSUME IInv, DInv
    PROVE  Offered \in Nat /\ wire \in Nat /\ wire <= Offered
<1>1. /\ sent \in Lengths /\ got \in Nat /\ wire \in Nat /\ buffer \in Nat
      /\ wire + buffer <= got
  BY DEF IInv, TypeOK, DInv, OwnTypes, ByteInv
<1>2. wire <= got /\ (sent # Unknown => sent \in Nat)
  BY <1>1, BoundsAssumption DEF Lengths, Unknown
<1> QED
  BY <1>1, <1>2 DEF Offered, DInv, ByteInv, Lengths, Unknown

(* The same of the next state.                                              *)
LEMMA SentIsOfferedNext ==
    ASSUME IInv', DInv'
    PROVE  Offered' \in Nat /\ wire' \in Nat /\ wire' <= Offered'
<1>1. /\ sent' \in Lengths /\ got' \in Nat /\ wire' \in Nat /\ buffer' \in Nat
      /\ wire' + buffer' <= got'
  BY DEF IInv, TypeOK, DInv, OwnTypes, ByteInv
<1>2. wire' <= got'
  BY <1>1, PartBelow
<1>3. sent' # Unknown => sent' \in Nat
  BY <1>1, BoundsAssumption DEF Lengths, Unknown
<1> QED
  BY <1>1, <1>2, <1>3 DEF Offered, DInv, ByteInv

(* The end of a download: a regular one has everything, or has no client    *)
(* that holds its side of the connection.                                   *)
LEMMA FinishEnds ==
    ASSUME IInv, DInv, Finish
    PROVE  Promised!Cut \/ Promised!Complete
<1>1. /\ step = "finish" /\ ending = "none" /\ UNCHANGED <<vars, client, status, wire>>
      /\ ending' \in {"cut", "complete"}
      /\ ending' = "complete" => ~aborted /\ (Announced => ~(wire < sent))
  BY DEF Finish, DInv, StepInv, OwnTypes, Announced
<1>2. UNCHANGED <<Promise, Offered>>
  BY <1>1 DEF vars, Promise, Offered, Announced, HandlerWroteAll
<1>3. CASE ending' = "cut"
  BY <1>1, <1>2, <1>3 DEF Promised!Cut
<1>4. CASE ending' = "complete"
  <2>1. Announced => (outcome = "EOF" /\ wire = got) \/ client # "here" \/ expired
    BY <1>1, <1>4 DEF DInv, EndInv
  <2>2. ASSUME Announced, sent = Unknown, outcome = "EOF"
        PROVE  HandlerWroteAll
    BY <2>2 DEF IInv, EofMeansComplete, Limit, HandlerWroteAll, Announced
  <2>3. ASSUME Announced, sent # Unknown PROVE wire = sent
    <3>1. wire \in Nat /\ wire <= sent /\ sent \in Nat
      BY <2>3, SentIsOffered DEF Offered
    <3> QED
      BY <1>1, <1>4, <2>3, <3>1
  <2>4. Promise = "none" \/ (Promise = "whole" /\ wire = Offered) \/ client # "here"
    BY <2>1, <2>2, <2>3 DEF Promise, Offered, DInv, EndInv
  <2> QED
    BY <1>1, <1>2, <1>4, <2>4 DEF Promised!Complete
<1> QED
  BY <1>1, <1>3, <1>4

(* What counts of a step that is neither the end nor of the client.         *)
LEMMA ProceedWhen ==
    ASSUME IInv', DInv', UNCHANGED <<client, ending>>, Offered <= Offered',
           wire <= wire',
           ending # "none" => wire' = wire /\ (Promise = "none" => Promise' = "none"),
           Promise = "whole" => UNCHANGED <<Promise, Offered>>,
           Promise = "open" => Promise' # "none"
    PROVE  Promised!Proceed
<1>1. /\ Promise' \in {"none", "open", "whole"}
      /\ Promise' = "none" => Offered' = 0
  BY DEF Promise, Offered
<1> QED
  BY <1>1, SentIsOfferedNext DEF Promised!Proceed

(* Every download is a Delivery: each step of handler, pipe, AfterFunc,     *)
(* serveGet, client and context is one of Delivery's or a stutter.          *)
THEOREM RefinesDelivery == DownloadSpec => ImplementsDelivery
<1>1. DownloadInit => Promised!Init
  BY DEF DownloadInit, Promised!Init, Promise, Offered, Announced
<1>2. ASSUME IInv, DInv, IInv', DInv', [DownloadNext]_allVars
      PROVE  [Promised!Next]_Promised!vars
  <2> USE DEF Announced
  <2>0. /\ Offered \in Nat /\ wire \in Nat /\ Offered' \in Nat /\ wire' \in Nat
        /\ got \in Nat
    <3>1. got \in Nat
      BY <1>2 DEF IInv, TypeOK
    <3> QED
      BY <1>2, <3>1, SentIsOffered, SentIsOfferedNext
  <2>1. CASE PassOn
    <3>1. /\ status = 0 /\ wire' = wire /\ ending = "none"
          /\ UNCHANGED <<client, ending>>
      BY <1>2, <2>1 DEF PassOn, DInv, StepInv
    <3>2. Promise = "none" /\ Offered = 0
      BY <3>1 DEF Promise, Offered
    <3> QED
      BY <1>2, <2>0, <3>1, <3>2, ProceedWhen DEF Promised!Next
  <2>2. CASE ReadSome
    <3>1. /\ step = "read" /\ handler = "writing" /\ got' \in Nat /\ got <= got'
          /\ UNCHANGED <<client, ending, wire, status, method, sent>>
          /\ ~HandlerWroteAll
      BY <1>2, <2>2, BoundsAssumption
         DEF ReadSome, Transfer, IInv, TypeOK, Lengths, Unknown, HandlerWroteAll
    <3>2. ending = "none" /\ Announced
      BY <1>2, <3>1 DEF DInv, StepInv
    <3>3. Offered <= Offered' /\ (sent # Unknown => Offered' = Offered)
      BY <3>1, <3>2, <2>0 DEF Offered
    <3>4. wire <= wire'
      BY <3>1, <2>0
    <3>5. /\ Promise = "whole" => UNCHANGED <<Promise, Offered>>
          /\ Promise' # "none"
      BY <3>1, <3>2, <3>3 DEF Promise
    <3> QED
      BY <1>2, <3>1, <3>2, <3>3, <3>4, <3>5, ProceedWhen DEF Promised!Next
  <2>3. CASE WriteSome
    <3>1. /\ step = "write" /\ UNCHANGED <<vars, client, status, ending>>
          /\ wire' = wire \/ wire' = wire + buffer
      BY <2>3 DEF WriteSome
    <3>2. ending = "none" /\ wire <= wire'
      BY <1>2, <2>0, <3>1 DEF DInv, StepInv, OwnTypes
    <3>3. UNCHANGED <<Promise, Offered>>
      BY <3>1 DEF vars, Promise, Offered, HandlerWroteAll
    <3> QED
      BY <1>2, <2>0, <3>1, <3>2, <3>3, ProceedWhen DEF Promised!Next
  <2>4. CASE Finish
    BY <1>2, <2>4, FinishEnds DEF Promised!Next
  <2>5. CASE ClientLeaves
    <3>1. UNCHANGED <<vars, status, wire, ending>> /\ client' # "here"
      BY <2>5 DEF ClientLeaves
    <3>2. UNCHANGED <<Promise, Offered>>
      BY <3>1 DEF vars, Promise, Offered, HandlerWroteAll
    <3> QED
      BY <3>1, <3>2 DEF Promised!Next, Promised!Leave
  <2>6. CASE PassError \/ RoundTripFails
    <3>1. /\ status = 0 /\ status' # 200 /\ UNCHANGED <<client, wire, ending>>
      BY <1>2, <2>6 DEF PassError, RoundTripFails, DInv, StepInv
    <3>2. UNCHANGED <<Promise, Offered>>
      BY <3>1 DEF Promise, Offered
    <3> QED
      BY <3>1, <3>2 DEF Promised!vars
  <2>7. CASE ReadEnds \/ Return \/ ContextEnds \/ DeadlineExpired \/ UNCHANGED allVars
    <3>1. UNCHANGED <<client, wire, ending, status, method, sent, got, handler,
                      panicked, refused>>
      BY <2>7 DEF ReadEnds, ReadToTheEnd, ReadClosed, BodyEnds, Return,
                  CloseBody, ContextEnds, DeadlineExpired, Cancel, allVars, vars
    <3>2. UNCHANGED <<Promise, Offered>>
      BY <3>1 DEF Promise, Offered, HandlerWroteAll
    <3> QED
      BY <3>1, <3>2 DEF Promised!vars
  <2>8. CASE (HandlerStep \/ AfterFunc) /\ UNCHANGED own
    <3>1. UNCHANGED <<method, got, client, status, wire, ending>>
      BY <2>8, HandlerElsewhere
    <3>2. Announced => sent' = sent
      BY <1>2, <2>8, CommittedOnce DEF Next, DInv, StepInv
    <3>3. HandlerWroteAll => HandlerWroteAll'
      BY <2>8, DoneStays DEF HandlerWroteAll
    <3>4. Offered' = Offered /\ wire' = wire
      BY <3>1, <3>2 DEF Offered
    <3>5. /\ Promise = "whole" => Promise' = "whole"
          /\ Promise = "none" <=> Promise' = "none"
      BY <3>1, <3>2, <3>3 DEF Promise
    <3> QED
      BY <1>2, <2>0, <3>1, <3>4, <3>5, ProceedWhen DEF Promised!Next
  <2> QED
    BY <1>2, <2>1, <2>2, <2>3, <2>4, <2>5, <2>6, <2>7, <2>8
       DEF DownloadNext, Serve, Over
<1>3. DownloadSpec => [](IInv /\ DInv)
  BY AlwaysInv
<1>4. IInv /\ DInv /\ (IInv /\ DInv)' /\ [DownloadNext]_allVars
         => [Promised!Next]_Promised!vars
  BY <1>2
<1> QED
  BY <1>1, <1>3, <1>4, PTL DEF DownloadSpec, ImplementsDelivery, Promised!Spec
=============================================================================
