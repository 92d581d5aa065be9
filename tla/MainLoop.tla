------------------------------ MODULE MainLoop -------------------------------
(***************************************************************************)
(* runServe of main.go: the start, the loop over signals, reload with the  *)
(* settings that need a restart, newState as far as it reads the           *)
(* certificate, and the shutdown.  Files change while they are read,       *)
(* signals come at any time, requests come and go.                         *)
(***************************************************************************)
EXTENDS Naturals, Sequences

CONSTANTS
    Addresses,     \* values of listen
    Users,         \* values of everything that a reload may change
    Contents,      \* of the configuration file
    MaxPair,       \* bound: versions of the certificate and its key
    MaxActive      \* bound: requests at a time

Configs == [valid : BOOLEAN, listen : Addresses, tls : BOOLEAN, users : Users]

ASSUME ContentsAssumption == Contents \subseteq Configs
ASSUME BoundsAssumption == MaxPair \in Nat \ {0} /\ MaxActive \in Nat

VARIABLES
    file,          \* the content of the configuration file
    certFile,      \* version of the certificate in its file
    keyFile,       \* version of the private key in its file
    startup,       \* runServe's startup
    effective,     \* Server.state: configuration, certificate and key
    raised,        \* signals that have not been delivered yet
    signals,       \* the channel
    notified,      \* has runServe asked for signals?
    pc,            \* where the main goroutine is
    cfg,           \* the configuration that is being loaded
    cert,          \* the certificate that newState has read
    listening,
    serveErr,      \* has Serve returned by itself?
    active,        \* requests that are being served
    graceOver,     \* the context of Shutdown is done
    wanted         \* history: SIGHUP was sent, and no file read since

files == <<file, certFile, keyFile>>
states == <<startup, effective>>
signalling == <<raised, signals, notified, wanted>>
loading == <<cfg, cert>>
serving == <<listening, serveErr, active, graceOver>>
vars == <<files, states, signalling, pc, loading, serving>>

Signals == {"HUP", "TERM"}     \* SIGINT is handled as SIGTERM is
signalsCap == 1

None == 0
NoKeyPair == [cert |-> None, key |-> None]
Versions == 1..MaxPair
KeyPairs == [cert : Versions \cup {None}, key : Versions \cup {None}]

\* startup and effective mean nothing before Load and Swap.
Init ==
    /\ file \in Contents
    /\ certFile = 1
    /\ keyFile = 1
    /\ startup = file
    /\ effective = [config |-> file, pair |-> NoKeyPair]
    /\ raised = {}
    /\ signals = <<>>
    /\ notified = FALSE
    /\ pc = "load"
    /\ cfg = file
    /\ cert = None
    /\ listening = FALSE
    /\ serveErr = FALSE
    /\ active = 0
    /\ graceOver = FALSE
    /\ wanted = FALSE

Running == pc # "returned"

\* Returning ends the process, and its requests with it.
Return ==
    /\ pc' = "returned"
    /\ active' = 0
    /\ listening' = FALSE
    /\ raised' = {}
    /\ signals' = <<>>
    /\ wanted' = FALSE
    /\ UNCHANGED <<notified, serveErr, graceOver>>

-----------------------------------------------------------------------------
\* What happens outside of the main goroutine.

EditFile ==
    /\ Running
    /\ file' \in Contents
    /\ UNCHANGED <<certFile, keyFile, states, signalling, pc, loading, serving>>

\* The certificate and its key are two files.
ReplaceCertificate ==
    /\ Running
    /\ \/ certFile < MaxPair /\ certFile' = certFile + 1 /\ UNCHANGED keyFile
       \/ keyFile < MaxPair /\ keyFile' = keyFile + 1 /\ UNCHANGED certFile
    /\ UNCHANGED <<file, states, signalling, pc, loading, serving>>

Raise ==
    /\ Running
    /\ \E s \in Signals :
          /\ raised' = raised \cup {s}
          /\ wanted' = (wanted \/ s = "HUP")
    /\ UNCHANGED <<files, states, signals, notified, pc, loading, serving>>

\* Mutant: a channel without a buffer gives a signal only to one who waits.
OfferUnbuffered(s) == IF pc = "select" /\ signals = <<>> THEN <<s>> ELSE signals

\* os/signal does not wait for a channel that is full: the signal is lost.
Offer(s) == IF Len(signals) < signalsCap THEN Append(signals, s) ELSE signals

Deliver ==
    /\ notified
    /\ Running
    /\ \E s \in raised :
          /\ raised' = raised \ {s}
          /\ signals' = Offer(s)
    /\ UNCHANGED <<files, states, notified, pc, loading, serving, wanted>>

\* Each of the signals ends a process that has not asked for it.
Kill ==
    /\ ~notified
    /\ raised # {}
    /\ Return
    /\ UNCHANGED <<files, states, loading>>

RequestArrives ==
    /\ Running
    /\ listening
    /\ active < MaxActive
    /\ active' = active + 1
    /\ UNCHANGED <<files, states, signalling, pc, loading, listening, serveErr, graceOver>>

RequestEnds ==
    /\ Running
    /\ active > 0
    /\ active' = active - 1
    /\ UNCHANGED <<files, states, signalling, pc, loading, listening, serveErr, graceOver>>

\* Serve returns, for a listener that fails.
ServeFails ==
    /\ Running
    /\ listening
    /\ listening' = FALSE
    /\ serveErr' = TRUE
    /\ UNCHANGED <<files, states, signalling, pc, loading, active, graceOver>>

-----------------------------------------------------------------------------
\* The main goroutine.  At the start an error ends the process, in a reload it
\* leaves everything as it was.

Fails ==
    IF notified
    THEN pc' = "select" /\ UNCHANGED <<raised, signals, notified, serving>>
    ELSE Return

\* Mutant: the mode of the listener follows the file.
PinListen(new) == [new EXCEPT !.listen = startup.listen]

\* What needs a restart is as it was when the process started.
Pin(new) == [new EXCEPT !.listen = startup.listen, !.tls = startup.tls]

\* newState has the certificate read exactly where there is TLS.
NewState(config) ==
    /\ cfg' = config
    /\ pc' = IF config.tls THEN "read certificate" ELSE "swap"

\* config.Load, and what runServe and reload make of its result.
Load ==
    /\ pc = "load"
    /\ file.valid
    /\ wanted' = FALSE
    /\ IF notified
       THEN NewState(Pin(file)) /\ UNCHANGED startup
       ELSE NewState(file) /\ startup' = file
    /\ cert' = None
    /\ UNCHANGED <<files, effective, raised, signals, notified, serving>>

LoadInvalid ==
    /\ pc = "load"
    /\ ~file.valid
    /\ wanted' = FALSE
    /\ Fails
    /\ UNCHANGED <<files, states, loading>>

\* tls.LoadX509KeyPair in newState reads one file after the other.
ReadCertificate ==
    /\ pc = "read certificate"
    /\ cert' = certFile
    /\ pc' = "read key"
    /\ UNCHANGED <<files, states, signalling, cfg, serving>>

\* New stores the first state, Reload the next one.
Swap(pair) ==
    /\ effective' = [config |-> cfg, pair |-> pair]
    /\ pc' = IF notified THEN "select" ELSE "listen"
    /\ UNCHANGED <<signalling, serving>>

Belongs(key) == key = cert

\* A key that does not belong to the certificate is an error of newState.
ReadKey ==
    /\ pc = "read key"
    /\ IF Belongs(keyFile)
       THEN Swap([cert |-> cert, key |-> keyFile])
       ELSE Fails /\ wanted' = (wanted /\ notified) /\ UNCHANGED effective
    /\ UNCHANGED <<files, startup, loading>>

SwapWithoutTLS ==
    /\ pc = "swap"
    /\ Swap(NoKeyPair)
    /\ UNCHANGED <<files, startup, loading>>

\* From here on requests are served, while a signal still kills the process.
Listen ==
    /\ pc = "listen"
    /\ listening' = TRUE
    /\ pc' = "notify"
    /\ UNCHANGED <<files, states, signalling, loading, serveErr, active, graceOver>>

\* The address is taken.
ListenFails ==
    /\ pc = "listen"
    /\ Return
    /\ UNCHANGED <<files, states, loading>>

Notify ==
    /\ pc = "notify"
    /\ notified' = TRUE
    /\ pc' = "select"
    /\ UNCHANGED <<files, states, raised, signals, wanted, loading, serving>>

ReceiveError ==
    /\ pc = "select"
    /\ serveErr
    /\ Return
    /\ UNCHANGED <<files, states, loading>>

ReceiveHangup ==
    /\ pc = "select"
    /\ signals = <<"HUP">>
    /\ signals' = <<>>
    /\ pc' = "load"
    /\ UNCHANGED <<files, states, raised, notified, wanted, loading, serving>>

\* Shutdown stops listening and waits for the requests.
ReceiveTerm ==
    /\ pc = "select"
    /\ signals = <<"TERM">>
    /\ signals' = <<>>
    /\ pc' = "shutdown"
    /\ listening' = FALSE
    /\ UNCHANGED <<files, states, raised, notified, wanted, loading, serveErr,
                   active, graceOver>>

\* The context of 10 seconds.
GraceEnds ==
    /\ pc = "shutdown"
    /\ graceOver' = TRUE
    /\ UNCHANGED <<files, states, signalling, pc, loading, listening, serveErr, active>>

\* Mutant: Shutdown has no deadline.
IdleAtLast == active = 0

IdleOrOver == active = 0 \/ graceOver

\* Shutdown returns, and Close cuts off what is left.
Shutdown ==
    /\ pc = "shutdown"
    /\ IdleOrOver
    /\ Return
    /\ UNCHANGED <<files, states, loading>>

Main ==
    \/ Load
    \/ LoadInvalid
    \/ ReadCertificate
    \/ ReadKey
    \/ SwapWithoutTLS
    \/ Listen
    \/ ListenFails
    \/ Notify
    \/ ReceiveError
    \/ ReceiveHangup
    \/ ReceiveTerm
    \/ Shutdown

Returned ==
    /\ pc = "returned"
    /\ UNCHANGED vars

Next ==
    \/ Main
    \/ EditFile
    \/ ReplaceCertificate
    \/ Raise
    \/ Deliver
    \/ Kill
    \/ RequestArrives
    \/ RequestEnds
    \/ ServeFails
    \/ GraceEnds
    \/ Returned

Spec == Init /\ [][Next]_vars

\* Signals are delivered, the main goroutine runs, timers fire.  Requests need
\* not end.
FairSpec ==
    /\ Spec
    /\ WF_vars(Main)
    /\ WF_vars(Deliver)
    /\ WF_vars(Kill)
    /\ WF_vars(GraceEnds)

-----------------------------------------------------------------------------

(* Every variable stays in its type, and no signal waits but one.           *)
TypeOK ==
    /\ file \in Contents
    /\ certFile \in Versions
    /\ keyFile \in Versions
    /\ startup \in Contents
    /\ cfg \in Configs
    /\ effective \in [config : Configs, pair : KeyPairs]
    /\ raised \subseteq Signals
    /\ signals \in {<<>>} \cup {<<s>> : s \in Signals}
    /\ notified \in BOOLEAN
    /\ pc \in {"load", "read certificate", "read key", "swap", "listen", "notify",
               "select", "shutdown", "returned"}
    /\ cert \in Versions \cup {None}
    /\ listening \in BOOLEAN
    /\ serveErr \in BOOLEAN
    /\ active \in 0..MaxActive
    /\ graceOver \in BOOLEAN
    /\ wanted \in BOOLEAN

\* Server.state has been stored.
HasState == notified \/ pc \in {"listen", "notify"}

(* From before the first connection, and whatever is reloaded while files   *)
(* change: the configuration in effect agrees with the listener on address  *)
(* and mode; there is a certificate exactly for a TLS listener, and it is   *)
(* never served with the key of another one.                                *)
PinnedSettings ==
    /\ listening \/ active > 0 => HasState
    /\ HasState =>
          /\ effective.config.listen = startup.listen
          /\ effective.config.tls = startup.tls
          /\ startup.tls <=> effective.pair # NoKeyPair
          /\ effective.pair.cert = effective.pair.key

(* A SIGHUP leads to the file being read after it was sent, also when it    *)
(* arrives in the middle of a reload, or the process ends.                  *)
HangupHeeded == wanted ~> ~wanted

(* A SIGTERM ends the process, whatever requests do: once it is in the      *)
(* channel; and if it is lost to a SIGHUP that waits there, or comes before *)
(* runServe asks for signals, then when it is repeated, unless SIGHUPs go   *)
(* on for ever.                                                             *)
ShutdownEnds ==
    /\ signals = <<"TERM">> ~> pc = "returned"
    /\ (<>[]("HUP" \notin raised) /\ []<>("TERM" \in raised)) => <>(pc = "returned")
=============================================================================
