--------------------------- MODULE MainLoopProofs ----------------------------
(***************************************************************************)
(* What is proved of MainLoop for any configurations and any number of     *)
(* requests.  While a reload goes on, the configuration it works with has  *)
(* the address and the mode of startup already, and takes the way through  *)
(* newState that belongs to this mode.                                     *)
(***************************************************************************)
EXTENDS MainLoop, TLAPS

USE DEF files, states, signalling, loading, serving

Loading ==
    /\ listening \/ active > 0 => notified \/ pc = "notify"
    /\ pc \in {"read certificate", "read key", "swap"} =>
          /\ cfg.listen = startup.listen
          /\ cfg.tls = startup.tls
    /\ pc \in {"read certificate", "read key"} => startup.tls
    /\ pc = "swap" => ~startup.tls
    /\ pc = "read key" => cert \in Versions

\* The two halves of TypeOK: a prover that knows numbers has trouble with the
\* variables that are BOOLEAN.
Booleans ==
    /\ listening \in BOOLEAN
    /\ serveErr \in BOOLEAN
    /\ graceOver \in BOOLEAN
    /\ wanted \in BOOLEAN
    /\ notified \in BOOLEAN
Values ==
    /\ file \in Contents
    /\ certFile \in Versions
    /\ keyFile \in Versions
    /\ startup \in Contents
    /\ cfg \in Configs
    /\ effective \in [config : Configs, pair : KeyPairs]
    /\ raised \subseteq Signals
    /\ signals \in {<<>>} \cup {<<s>> : s \in Signals}
    /\ pc \in {"load", "read certificate", "read key", "swap", "listen", "notify",
               "select", "shutdown", "returned"}
    /\ cert \in Versions \cup {None}
    /\ active \in 0..MaxActive

LEMMA Halves == (Booleans /\ Values) <=> TypeOK
BY DEF Booleans, Values, TypeOK

IInv == Values /\ Booleans /\ Loading /\ PinnedSettings

LEMMA PinKeepsType ==
    ASSUME NEW c \in Configs, startup \in Contents
    PROVE  Pin(c) \in Configs /\ Pin(c).listen = startup.listen /\ Pin(c).tls = startup.tls
BY ContentsAssumption DEF Pin, Configs

LEMMA InitIInv == Init => IInv
<1> SUFFICES ASSUME Init PROVE IInv
  OBVIOUS
<1> USE ContentsAssumption, BoundsAssumption
<1>1. file \in Configs /\ file \in Contents
  BY DEF Init
<1>2. NoKeyPair \in KeyPairs
  BY DEF KeyPairs, NoKeyPair, None
<1>3. effective \in [config : Configs, pair : KeyPairs]
  BY <1>1, <1>2 DEF Init
<1>4. Values
  BY <1>1, <1>3 DEF Init, Values, Versions, None
<1>5. Booleans
  BY DEF Init, Booleans
<1>6. Loading /\ PinnedSettings
  BY DEF Init, Loading, PinnedSettings, HasState
<1> QED
  BY <1>4, <1>5, <1>6 DEF IInv

LEMMA ReturnKeeps == IInv /\ Return /\ UNCHANGED <<files, states, loading>> => IInv'
<1> SUFFICES ASSUME IInv, Return, UNCHANGED <<files, states, loading>> PROVE IInv'
  OBVIOUS
<1>1. Values /\ Booleans /\ Loading /\ PinnedSettings
  BY DEF IInv
<1>2. active' \in 0..MaxActive
  BY BoundsAssumption DEF Return
<1>3. raised' \subseteq Signals /\ signals' = <<>> /\ pc' = "returned"
  BY DEF Return
<1>4. Values'
  BY <1>1, <1>2, <1>3 DEF Values
<1>5. Booleans'
  BY <1>1 DEF Return, Booleans
<1>6. Loading'
  BY DEF Return, Loading
<1>7. PinnedSettings'
  BY <1>1 DEF Return, PinnedSettings, HasState
<1> QED
  BY <1>4, <1>5, <1>6, <1>7 DEF IInv

LEMMA FailsKeeps ==
    IInv /\ Fails /\ wanted' \in BOOLEAN /\ UNCHANGED <<files, states, loading>> => IInv'
<1> SUFFICES ASSUME IInv, Fails, wanted' \in BOOLEAN, UNCHANGED <<files, states, loading>>
             PROVE IInv'
  OBVIOUS
<1>1. Values /\ Booleans /\ Loading /\ PinnedSettings
  BY DEF IInv
<1>2. CASE ~notified
  BY <1>2, ReturnKeeps DEF Fails
<1>3. CASE notified
  <2>1. Values'
    BY <1>1, <1>3 DEF Fails, Values
  <2>2. Booleans'
    BY <1>1, <1>3 DEF Fails, Booleans
  <2>3. Loading' /\ PinnedSettings'
    BY <1>1, <1>3 DEF Fails, Loading, PinnedSettings, HasState
  <2> QED
    BY <2>1, <2>2, <2>3 DEF IInv
<1> QED
  BY <1>2, <1>3

LEMMA StepIInv == IInv /\ [Next]_vars => IInv'
<1> SUFFICES ASSUME IInv, [Next]_vars PROVE IInv'
  OBVIOUS
<1> USE ContentsAssumption, BoundsAssumption
<1>t. Values /\ Booleans /\ Loading /\ PinnedSettings
  BY DEF IInv
<1>n. certFile \in Versions /\ keyFile \in Versions /\ active \in 0..MaxActive
  BY <1>t DEF Values
<1>1. CASE EditFile
  <2>1. Values'
    BY <1>t, <1>1 DEF EditFile, Values
  <2>2. Booleans'
    BY <1>t, <1>1 DEF EditFile, Booleans
  <2>3. Loading'
    BY <1>t, <1>n, <1>1 DEF EditFile, Loading, Values
  <2>4. PinnedSettings'
    BY <1>t, <1>n, <1>1 DEF EditFile, Loading, PinnedSettings, HasState
  <2> QED
    BY <2>1, <2>2, <2>3, <2>4 DEF IInv
<1>2. CASE ReplaceCertificate
  <2>1. Values'
    <3>1. certFile' \in Versions /\ keyFile' \in Versions
      BY <1>n, <1>2 DEF ReplaceCertificate, Versions
    <3> QED
      BY <1>t, <1>2, <3>1 DEF ReplaceCertificate, Values
  <2>2. Booleans'
    BY <1>t, <1>2 DEF ReplaceCertificate, Booleans
  <2>3. Loading'
    BY <1>t, <1>n, <1>2 DEF ReplaceCertificate, Loading, Values
  <2>4. PinnedSettings'
    BY <1>t, <1>n, <1>2 DEF ReplaceCertificate, Loading, PinnedSettings, HasState
  <2> QED
    BY <2>1, <2>2, <2>3, <2>4 DEF IInv
<1>3. CASE Raise
  <2>1. Values'
    BY <1>t, <1>3 DEF Raise, Values
  <2>2. Booleans'
    BY <1>t, <1>3 DEF Raise, Booleans
  <2>3. Loading'
    BY <1>t, <1>n, <1>3 DEF Raise, Loading, Values
  <2>4. PinnedSettings'
    BY <1>t, <1>n, <1>3 DEF Raise, Loading, PinnedSettings, HasState
  <2> QED
    BY <2>1, <2>2, <2>3, <2>4 DEF IInv
<1>4. CASE Deliver
  <2>1. Values'
    <3>1. PICK s \in raised : raised' = raised \ {s} /\ signals' = Offer(s)
      BY <1>4 DEF Deliver
    <3>2. s \in Signals /\ raised' \subseteq Signals
      BY <1>t, <3>1 DEF Values
    <3>3. signals' \in {<<>>} \cup {<<z>> : z \in Signals}
      <4>1. CASE signals = <<>>
        BY <3>1, <3>2, <4>1 DEF Offer, signalsCap
      <4>2. CASE signals # <<>>
        <5>1. PICK z \in Signals : signals = <<z>>
          BY <1>t, <4>2 DEF Values
        <5> QED
          BY <3>1, <5>1 DEF Offer, signalsCap
      <4> QED
        BY <4>1, <4>2
    <3> QED
      BY <1>t, <1>4, <3>2, <3>3 DEF Deliver, Values
  <2>2. Booleans'
    BY <1>t, <1>4 DEF Deliver, Booleans
  <2>3. Loading'
    BY <1>t, <1>n, <1>4 DEF Deliver, Loading, Values
  <2>4. PinnedSettings'
    BY <1>t, <1>n, <1>4 DEF Deliver, Loading, PinnedSettings, HasState
  <2> QED
    BY <2>1, <2>2, <2>3, <2>4 DEF IInv
<1>5. CASE Kill
  BY <1>5, ReturnKeeps DEF Kill
<1>6. CASE RequestArrives
  <2>1. Values'
    <3>1. active' \in 0..MaxActive
      BY <1>n, <1>6 DEF RequestArrives
    <3> QED
      BY <1>t, <1>6, <3>1 DEF RequestArrives, Values
  <2>2. Booleans'
    BY <1>t, <1>6 DEF RequestArrives, Booleans
  <2>3. Loading'
    BY <1>t, <1>n, <1>6 DEF RequestArrives, Loading, Values
  <2>4. PinnedSettings'
    BY <1>t, <1>n, <1>6 DEF RequestArrives, Loading, PinnedSettings, HasState
  <2> QED
    BY <2>1, <2>2, <2>3, <2>4 DEF IInv
<1>7. CASE RequestEnds
  <2>1. Values'
    <3>1. active' \in 0..MaxActive
      BY <1>n, <1>7 DEF RequestEnds
    <3> QED
      BY <1>t, <1>7, <3>1 DEF RequestEnds, Values
  <2>2. Booleans'
    BY <1>t, <1>7 DEF RequestEnds, Booleans
  <2>3. Loading'
    BY <1>t, <1>n, <1>7 DEF RequestEnds, Loading, Values
  <2>4. PinnedSettings'
    BY <1>t, <1>n, <1>7 DEF RequestEnds, Loading, PinnedSettings, HasState
  <2> QED
    BY <2>1, <2>2, <2>3, <2>4 DEF IInv
<1>8. CASE ServeFails
  <2>1. Values'
    BY <1>t, <1>8 DEF ServeFails, Values
  <2>2. Booleans'
    BY <1>t, <1>8 DEF ServeFails, Booleans
  <2>3. Loading'
    BY <1>t, <1>n, <1>8 DEF ServeFails, Loading, Values
  <2>4. PinnedSettings'
    BY <1>t, <1>n, <1>8 DEF ServeFails, Loading, PinnedSettings, HasState
  <2> QED
    BY <2>1, <2>2, <2>3, <2>4 DEF IInv
<1>9. CASE GraceEnds
  <2>1. Values'
    BY <1>t, <1>9 DEF GraceEnds, Values
  <2>2. Booleans'
    BY <1>t, <1>9 DEF GraceEnds, Booleans
  <2>3. Loading'
    BY <1>t, <1>n, <1>9 DEF GraceEnds, Loading, Values
  <2>4. PinnedSettings'
    BY <1>t, <1>n, <1>9 DEF GraceEnds, Loading, PinnedSettings, HasState
  <2> QED
    BY <2>1, <2>2, <2>3, <2>4 DEF IInv
<1>10. CASE Load
  <2> DEFINE new == IF notified THEN Pin(file) ELSE file
  <2>1. file \in Configs /\ startup \in Contents
    BY <1>t DEF Values
  <2>2. new \in Configs /\ startup' \in Contents
        /\ new.listen = startup'.listen /\ new.tls = startup'.tls
    BY <1>t, <1>10, <2>1, PinKeepsType DEF Load, Values
  <2>3. cfg' = new /\ pc' = IF new.tls THEN "read certificate" ELSE "swap"
    BY <1>10 DEF Load, NewState
  <2> HIDE DEF new
  <2>4. Values'
    BY <1>t, <1>10, <2>2, <2>3 DEF Load, Values
  <2>5. Booleans'
    BY <1>t, <1>10 DEF Load, Booleans
  <2>6. Loading'
    BY <1>t, <1>10, <2>2, <2>3 DEF Load, Loading
  <2>7. PinnedSettings'
    BY <1>t, <1>10, <2>3 DEF Load, Loading, PinnedSettings, HasState
  <2> QED
    BY <2>4, <2>5, <2>6, <2>7 DEF IInv
<1>11. CASE LoadInvalid
  <2>1. wanted' \in BOOLEAN
    BY <1>11 DEF LoadInvalid
  <2> QED
    BY <1>11, <2>1, FailsKeeps DEF LoadInvalid
<1>12. CASE ReadCertificate
  <2>1. Values'
    BY <1>t, <1>12 DEF ReadCertificate, Values
  <2>2. Booleans'
    BY <1>t, <1>12 DEF ReadCertificate, Booleans
  <2>3. Loading'
    BY <1>t, <1>n, <1>12 DEF ReadCertificate, Loading, Values
  <2>4. PinnedSettings'
    BY <1>t, <1>n, <1>12 DEF ReadCertificate, Loading, PinnedSettings, HasState
  <2> QED
    BY <2>1, <2>2, <2>3, <2>4 DEF IInv
<1>13. CASE ReadKey
  <2>1. CASE ~Belongs(keyFile)
    <3>1. wanted \in BOOLEAN /\ notified \in BOOLEAN
      BY <1>t DEF Booleans
    <3>2. Fails /\ wanted' \in BOOLEAN /\ UNCHANGED <<files, states, loading>>
      BY <1>13, <2>1, <3>1 DEF ReadKey
    <3> QED
      BY <3>2, FailsKeeps
  <2>2. CASE Belongs(keyFile)
    <3>1. /\ effective' = [config |-> cfg, pair |-> [cert |-> cert, key |-> keyFile]]
          /\ pc' = (IF notified THEN "select" ELSE "listen")
          /\ keyFile = cert
      BY <1>13, <2>2 DEF ReadKey, Swap, Belongs
    <3>2. UNCHANGED <<files, startup, signalling, serving, loading>>
      BY <1>13, <2>2 DEF ReadKey, Swap
    <3>3. Values'
      BY <1>t, <3>1, <3>2 DEF Values, KeyPairs
    <3>4. Booleans'
      BY <1>t, <3>2 DEF Booleans
    <3>5. Loading'
      BY <1>t, <1>13, <3>1, <3>2 DEF ReadKey, Loading
    <3>6. startup.tls /\ cfg.tls = startup.tls /\ cfg.listen = startup.listen
          /\ cert \in Versions
      BY <1>t, <1>13 DEF ReadKey, Loading
    <3>7. effective'.pair # NoKeyPair
      BY <3>1, <3>6 DEF NoKeyPair, None, Versions
    <3>8. PinnedSettings'
      BY <1>t, <3>1, <3>2, <3>6, <3>7 DEF PinnedSettings, HasState
    <3> QED
      BY <3>3, <3>4, <3>5, <3>8 DEF IInv
  <2> QED
    BY <2>1, <2>2
<1>14. CASE SwapWithoutTLS
  <2>1. /\ effective' = [config |-> cfg, pair |-> NoKeyPair]
        /\ pc' = (IF notified THEN "select" ELSE "listen")
        /\ UNCHANGED <<files, startup, signalling, serving, loading>>
    BY <1>14 DEF SwapWithoutTLS, Swap
  <2>2. NoKeyPair \in KeyPairs
    BY DEF NoKeyPair, KeyPairs, None
  <2>3. Values'
    BY <1>t, <2>1, <2>2 DEF Values
  <2>4. Booleans'
    BY <1>t, <2>1 DEF Booleans
  <2>5. Loading'
    BY <1>t, <1>14, <2>1 DEF SwapWithoutTLS, Loading
  <2>6. PinnedSettings'
    BY <1>t, <1>14, <2>1 DEF SwapWithoutTLS, Loading, PinnedSettings, HasState, NoKeyPair
  <2> QED
    BY <2>3, <2>4, <2>5, <2>6 DEF IInv
<1>15. CASE Listen
  <2>1. Values'
    BY <1>t, <1>15 DEF Listen, Values
  <2>2. Booleans'
    BY <1>t, <1>15 DEF Listen, Booleans
  <2>3. Loading'
    BY <1>t, <1>n, <1>15 DEF Listen, Loading, Values
  <2>4. PinnedSettings'
    BY <1>t, <1>n, <1>15 DEF Listen, Loading, PinnedSettings, HasState
  <2> QED
    BY <2>1, <2>2, <2>3, <2>4 DEF IInv
<1>16. CASE ListenFails
  BY <1>16, ReturnKeeps DEF ListenFails
<1>17. CASE Notify
  <2>1. Values'
    BY <1>t, <1>17 DEF Notify, Values
  <2>2. Booleans'
    BY <1>t, <1>17 DEF Notify, Booleans
  <2>3. Loading'
    BY <1>t, <1>n, <1>17 DEF Notify, Loading, Values
  <2>4. PinnedSettings'
    BY <1>t, <1>n, <1>17 DEF Notify, Loading, PinnedSettings, HasState
  <2> QED
    BY <2>1, <2>2, <2>3, <2>4 DEF IInv
<1>18. CASE ReceiveError
  BY <1>18, ReturnKeeps DEF ReceiveError
<1>19. CASE ReceiveHangup
  <2>1. Values'
    BY <1>t, <1>19 DEF ReceiveHangup, Values
  <2>2. Booleans'
    BY <1>t, <1>19 DEF ReceiveHangup, Booleans
  <2>3. Loading'
    BY <1>t, <1>n, <1>19 DEF ReceiveHangup, Loading, Values
  <2>4. PinnedSettings'
    BY <1>t, <1>n, <1>19 DEF ReceiveHangup, Loading, PinnedSettings, HasState
  <2> QED
    BY <2>1, <2>2, <2>3, <2>4 DEF IInv
<1>20. CASE ReceiveTerm
  <2>1. Values'
    BY <1>t, <1>20 DEF ReceiveTerm, Values
  <2>2. Booleans'
    BY <1>t, <1>20 DEF ReceiveTerm, Booleans
  <2>3. Loading'
    BY <1>t, <1>n, <1>20 DEF ReceiveTerm, Loading, Values
  <2>4. PinnedSettings'
    BY <1>t, <1>n, <1>20 DEF ReceiveTerm, Loading, PinnedSettings, HasState
  <2> QED
    BY <2>1, <2>2, <2>3, <2>4 DEF IInv
<1>21. CASE Shutdown
  BY <1>21, ReturnKeeps DEF Shutdown
<1>22. CASE UNCHANGED vars
  BY <1>t, <1>22 DEF vars, IInv, Values, Booleans, Loading, PinnedSettings, HasState
<1> QED
  BY <1>1, <1>2, <1>3, <1>4, <1>5, <1>6, <1>7, <1>8, <1>9, <1>10, <1>11, <1>12,
     <1>13, <1>14, <1>15, <1>16, <1>17, <1>18, <1>19, <1>20, <1>21, <1>22
  DEF Next, Main, Returned

LEMMA Invariant == Spec => []IInv
BY InitIInv, StepIInv, PTL DEF Spec

(* The variables keep their types.                                          *)
THEOREM TypeCorrect == Spec => []TypeOK
<1>1. IInv => TypeOK
  BY Halves DEF IInv
<1> QED
  BY <1>1, Invariant, PTL

(* From before the first connection, reloads leave the address and the mode *)
(* of the listener as they were, and no certificate is served with the key  *)
(* of another one.                                                          *)
THEOREM SettingsPinned == Spec => []PinnedSettings
<1>1. IInv => PinnedSettings
  BY DEF IInv
<1> QED
  BY <1>1, Invariant, PTL
=============================================================================
