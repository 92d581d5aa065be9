------------------------------ MODULE AuthProofs ------------------------------
(***************************************************************************)
(* Proofs about Auth for every set of requests, names, passwords and       *)
(* configurations and every value of the bounds.                           *)
(***************************************************************************)
EXTENDS Auth, FiniteSetTheorems, SequenceTheorems, TLAPS

\* The groups of variables are only abbreviations.
USE DEF shared, request

\* Where a request is tells which configuration it has, and that the user of
\* which a lookup, a comparison or a store is made exists in it.
Located ==
    \A r \in Requests :
        /\ pc[r] # "new" => since[r] \in 1..Len(loaded)
        /\ pc[r] \notin {"new", "arrived"} => gen[r] \in since[r]..Len(loaded)
        /\ pc[r] \in {"peek", "repeek", "compare", "verified", "store"} =>
              Known(r)

\* The verdict is there exactly when authenticate is about to return it, and
\* it is right about the configuration that the request loaded.
Judged ==
    \A r \in Requests :
        /\ verdict[r] # "none" <=> pc[r] \in {"return", "done"}
        /\ pc[r] \in {"verified", "store"} => Accepts(Users(r), cred[r])
        /\ verdict[r] \in Admitted => Accepts(Users(r), cred[r])
        /\ verdict[r] = "denied" => cancelled[r] \/ ~Accepts(Users(r), cred[r])

\* An entry was stored by a request that verified its own password.
EntryBacked ==
    \A g \in Generations, n \in Names :
        cache[g][n] # EmptyEntry =>
            \E q \in Requests :
                /\ verdict[q] = "verified"
                /\ gen[q] = g
                /\ Name(q) = n
                /\ cache[g][n] = store(Digest(q), at[q])

IInv == TypeOK /\ Located /\ Judged /\ EntryBacked /\ HitBacked

-----------------------------------------------------------------------------

(* A (re)load adds a generation and leaves the earlier ones alone.          *)
LEMMA ReloadAppends ==
    ASSUME TypeOK, Reload
    PROVE  /\ loaded' \in Seq(Configs)
           /\ Len(loaded') = Len(loaded) + 1
           /\ Len(loaded') \in Generations
           /\ \A g \in 1..Len(loaded) : loaded'[g] = loaded[g]
<1>1. PICK c \in Configs : loaded' = Append(loaded, c)
  BY DEF Reload
<1>2. loaded \in Seq(Configs) /\ Len(loaded) \in Nat
  BY DEF TypeOK, Generations
<1>3. /\ loaded' \in Seq(Configs)
      /\ Len(loaded') = Len(loaded) + 1
      /\ \A g \in 1..Len(loaded) : loaded'[g] = loaded[g]
  BY <1>1, <1>2, AppendProperties
<1>4. Len(loaded') \in Generations
  BY <1>2, <1>3, BoundsAssumption DEF Reload, Generations
<1> QED
  BY <1>3, <1>4

(* A name found in a configuration is a user name, its digest a digest.     *)
LEMMA KnownTypes ==
    ASSUME TypeOK, Located, NEW r \in Requests,
           pc[r] \notin {"new", "arrived"}, Known(r)
    PROVE  /\ gen[r] \in Generations
           /\ Name(r) \in Names
           /\ Password(r) \in Passwords
           /\ Digest(r) \in Digests
<1>1. cred[r] \in Credentials
  BY DEF TypeOK, Known
<1>2. cred[r] \in [name : Names, password : Passwords]
  BY <1>1, CredentialsAssumption
<1>3. gen[r] \in Generations
  BY DEF TypeOK, Located, Generations
<1> QED
  BY <1>2, <1>3 DEF Name, Password, Digest, passwordDigest, Digests

(* Two requests whose names and digests agree carry the same credentials    *)
(* and loaded the same configuration.                                       *)
LEMMA DigestDetermines ==
    ASSUME TypeOK, NEW q \in Requests, NEW r \in Requests,
           cred[q] # NoCred, cred[r] # NoCred,
           Name(q) = Name(r), Digest(q) = Digest(r)
    PROVE  cred[q] = cred[r] /\ gen[q] = gen[r]
<1>1. /\ cred[q] \in [name : Names, password : Passwords]
      /\ cred[r] \in [name : Names, password : Passwords]
  BY CredentialsAssumption DEF TypeOK
<1>2. gen[q] = gen[r] /\ Password(q) = Password(r)
  BY DEF Digest, passwordDigest
<1> QED
  BY <1>1, <1>2 DEF Name, Password

LEMMA InitIInv == Init => IInv
<1> SUFFICES ASSUME Init PROVE IInv
  OBVIOUS
<1> USE DEF Init
<1>1. PICK c \in Configs : loaded = <<c>>
  OBVIOUS
<1>2. loaded \in Seq(Configs) /\ Len(loaded) = 1
  BY <1>1
<1>3. TypeOK
  BY <1>2, BoundsAssumption
     DEF TypeOK, Generations, Entries, EmptyEntry, Digests, PC, Verdicts
<1>4. Located /\ Judged /\ HitBacked
  BY DEF Located, Judged, HitBacked, Admitted
<1>5. EntryBacked
  BY DEF EntryBacked
<1> QED
  BY <1>3, <1>4, <1>5 DEF IInv

-----------------------------------------------------------------------------

(* Type correctness, location and judgement are inductive together: one     *)
(* step for each action, of the request that takes it.                      *)
LEMMA LocalStep ==
    ASSUME IInv, [Next]_vars
    PROVE  TypeOK' /\ Located' /\ Judged'
<1> USE DEF IInv, TypeOK, Located, Judged, PC, Verdicts, Admitted, Name,
            Users, Known, Goto, Decide, Move, Return
<1>1. ASSUME NEW r \in Requests, Arrive(r)
      PROVE  TypeOK' /\ Located' /\ Judged'
  BY <1>1 DEF Arrive, Generations, Accepts
<1>2. ASSUME NEW r \in Requests, LoadState(r)
      PROVE  TypeOK' /\ Located' /\ Judged'
  BY <1>2 DEF LoadState, Generations
<1>3. ASSUME NEW r \in Requests, RejectAnonymous(r)
      PROVE  TypeOK' /\ Located' /\ Judged'
  BY <1>3 DEF RejectAnonymous, Accepts
<1>4. ASSUME NEW r \in Requests, QueueUnknown(r)
      PROVE  TypeOK' /\ Located' /\ Judged'
  BY <1>4 DEF QueueUnknown
<1>5. ASSUME NEW r \in Requests, ReadClockToPeek(r)
      PROVE  TypeOK' /\ Located' /\ Judged'
  BY <1>5 DEF ReadClockToPeek, ReadClock
<1>6. ASSUME NEW r \in Requests, GiveUp(r)
      PROVE  TypeOK' /\ Located' /\ Judged'
  BY <1>6 DEF GiveUp
<1>7. ASSUME NEW r \in Requests, CompareDummy(r)
      PROVE  TypeOK' /\ Located' /\ Judged'
  BY <1>7 DEF CompareDummy, Accepts
<1>8. ASSUME NEW r \in Requests, ReadClockToRepeek(r)
      PROVE  TypeOK' /\ Located' /\ Judged'
  BY <1>8 DEF ReadClockToRepeek, ReadClock
<1>9. ASSUME NEW r \in Requests, Compare(r)
      PROVE  TypeOK' /\ Located' /\ Judged'
  BY <1>9 DEF Compare, CompareWith
<1>10. ASSUME NEW r \in Requests, ReadClockToStore(r)
       PROVE  TypeOK' /\ Located' /\ Judged'
  BY <1>10 DEF ReadClockToStore, ReadClock
<1>11. ASSUME NEW r \in Requests, Release(r)
       PROVE  TypeOK' /\ Located' /\ Judged'
  BY <1>11 DEF Release
<1>12. ASSUME NEW r \in Requests, Acquire(r)
       PROVE  TypeOK' /\ Located' /\ Judged'
  BY <1>12 DEF Acquire
<1>13. ASSUME NEW r \in Requests, Cancel(r)
       PROVE  TypeOK' /\ Located' /\ Judged'
  BY <1>13 DEF Cancel
<1>14. ASSUME NEW r \in Requests, Peek(r) \/ Repeek(r)
       PROVE  TypeOK' /\ Located' /\ Judged'
  <2>1. pc[r] \in {"peek", "repeek"}
    BY <1>14 DEF Peek, Repeek, Lookup
  <2>2. hit(Entry(r), Digest(r), at[r]) => Accepts(Users(r), cred[r])
    <3> SUFFICES ASSUME hit(Entry(r), Digest(r), at[r])
                 PROVE  Accepts(Users(r), cred[r])
      OBVIOUS
    <3>1. gen[r] \in Generations /\ Name(r) \in Names /\ cred[r] # NoCred
      BY <2>1, KnownTypes
    <3>2. Entry(r) # EmptyEntry
      BY BoundsAssumption DEF hit, EmptyEntry
    <3>3. PICK q \in Requests :
             /\ verdict[q] = "verified"
             /\ gen[q] = gen[r]
             /\ Name(q) = Name(r)
             /\ Entry(r) = store(Digest(q), at[q])
      <4> HIDE DEF TypeOK, Located, Judged, Name
      <4> QED
        BY <3>1, <3>2 DEF EntryBacked, Entry
    <3>4. Accepts(Users(q), cred[q])
      BY <3>3
    <3>5. cred[q] = cred[r] /\ gen[q] = gen[r]
      BY <3>1, <3>3, <3>4, DigestDetermines DEF hit, store, Accepts
    <3> QED
      BY <3>4, <3>5
  <2> QED
    BY <1>14, <2>1, <2>2 DEF Peek, Repeek, Lookup
<1>15. ASSUME NEW r \in Requests, Store(r)
       PROVE  TypeOK' /\ Located' /\ Judged'
  <2>1. Digest(r) \in Digests /\ gen[r] \in Generations
    BY <1>15, KnownTypes DEF Store
  <2>2. store(Digest(r), at[r]) \in Entries
    BY <2>1, BoundsAssumption DEF store, Entries
  <2>3. cache' \in [Generations -> [Names -> Entries]]
    BY <1>15, <2>2 DEF Store
  <2>4. TypeOK'
    BY <1>15, <2>3 DEF Store
  <2> QED
    BY <1>15, <2>4 DEF Store
<1>16. CASE Reload
  <2>1. /\ loaded' \in Seq(Configs)
        /\ Len(loaded') = Len(loaded) + 1
        /\ Len(loaded') \in Generations
        /\ \A g \in 1..Len(loaded) : loaded'[g] = loaded[g]
    BY <1>16, ReloadAppends
  <2>2. TypeOK'
    BY <1>16, <2>1 DEF Reload, Entries, EmptyEntry, Digests
  <2>3. \A r \in Requests : pc[r] \notin {"new", "arrived"} =>
           gen[r] \in 1..Len(loaded) /\ Users(r)' = Users(r)
    BY <1>16, <2>1 DEF Reload, Generations
  <2>4. Located'
    BY <1>16, <2>1, <2>3 DEF Reload, Generations
  <2>5. Judged'
    BY <1>16, <2>3 DEF Reload
  <2> QED
    BY <2>2, <2>4, <2>5
<1>17. CASE Tick
  BY <1>17, BoundsAssumption DEF Tick
<1>18. CASE UNCHANGED vars
  BY <1>18 DEF vars
<1> QED
  BY <1>1, <1>2, <1>3, <1>4, <1>5, <1>6, <1>7, <1>8, <1>9, <1>10, <1>11,
     <1>12, <1>13, <1>14, <1>15, <1>16, <1>17, <1>18 DEF Next, Step, Quiet

-----------------------------------------------------------------------------

(* Once authenticate has its verdict, nothing about the request changes.    *)
LEMMA Frozen ==
    ASSUME IInv, [Next]_vars, NEW q \in Requests, verdict[q] # "none"
    PROVE  UNCHANGED <<verdict[q], gen[q], cred[q], at[q]>>
<1>1. pc[q] \in {"return", "done"}
  BY DEF IInv, Judged
<1>2. /\ verdict \in [Requests -> Verdicts]
      /\ gen \in [Requests -> 0..MaxGenerations]
      /\ cred \in [Requests -> Credentials \cup {NoCred}]
      /\ at \in [Requests -> 0..MaxClock]
  BY DEF IInv, TypeOK
<1>3. ASSUME NEW r \in Requests, Arrive(r) \/ Step(r) \/ Acquire(r) \/ Cancel(r)
      PROVE  UNCHANGED <<verdict[q], gen[q], cred[q], at[q]>>
  BY <1>1, <1>2, <1>3
     DEF Arrive, Step, Acquire, Cancel, LoadState, RejectAnonymous,
         QueueUnknown, ReadClockToPeek, Peek, GiveUp, CompareDummy,
         ReadClockToRepeek, Repeek, Compare, ReadClockToStore, Store, Release,
         ReadClock, Lookup, CompareWith, Move, Return, Decide
<1> QED
  BY <1>3 DEF Next, Reload, Tick, Quiet, vars

(* What backs a fact once backs it for ever.                                *)
LEMMA StaysVerified ==
    ASSUME IInv, [Next]_vars, NEW q \in Requests, verdict[q] = "verified"
    PROVE  /\ verdict'[q] = "verified"
           /\ UNCHANGED <<gen[q], cred[q], at[q], Name(q), Digest(q)>>
  BY Frozen DEF Name, Digest, Password

LEMMA EntryStep ==
    ASSUME IInv, [Next]_vars
    PROVE  EntryBacked'
<1> SUFFICES ASSUME NEW g \in Generations, NEW n \in Names,
                    cache'[g][n] # EmptyEntry
             PROVE  \E q \in Requests :
                       /\ verdict'[q] = "verified"
                       /\ gen'[q] = g
                       /\ Name(q)' = n
                       /\ cache'[g][n] = store(Digest(q)', at'[q])
  BY DEF EntryBacked
<1>0. cache \in [Generations -> [Names -> Entries]]
  BY DEF IInv, TypeOK
<1>1. CASE cache'[g][n] = cache[g][n]
  <2>1. PICK q \in Requests : /\ verdict[q] = "verified"
                              /\ gen[q] = g
                              /\ Name(q) = n
                              /\ cache[g][n] = store(Digest(q), at[q])
    BY <1>1 DEF IInv, EntryBacked
  <2> QED
    BY <1>1, <2>1, StaysVerified
<1>2. CASE cache'[g][n] # cache[g][n]
  <2>1. CASE Reload
    <3>1. cache'[g][n] = EmptyEntry
      BY <1>0, <1>2, <2>1 DEF Reload
    <3> QED
      BY <3>1
  <2>2. ASSUME NEW r \in Requests, Store(r)
        PROVE  \E q \in Requests :
                       /\ verdict'[q] = "verified"
                       /\ gen'[q] = g
                       /\ Name(q)' = n
                       /\ cache'[g][n] = store(Digest(q)', at'[q])
    <3>1. gen[r] = g /\ Name(r) = n
      BY <1>0, <1>2, <2>2 DEF Store
    <3>2. cache'[g][n] = store(Digest(r), at[r])
      BY <1>0, <2>2, <3>1 DEF Store
    <3>3. verdict'[r] = "verified" /\ UNCHANGED <<gen, cred, at>>
      BY <2>2 DEF Store, Decide, IInv, TypeOK
    <3> QED
      BY <3>1, <3>2, <3>3 DEF Name, Digest, Password
  <2>3. UNCHANGED cache \/ Reload \/ \E r \in Requests : Store(r)
    BY DEF Next, Step, Arrive, Acquire, Cancel, LoadState, RejectAnonymous,
           QueueUnknown, ReadClockToPeek, Peek, GiveUp, CompareDummy,
           ReadClockToRepeek, Repeek, Compare, ReadClockToStore, Release,
           ReadClock, Lookup, CompareWith, Move, Return,
           Tick, Quiet, vars
  <2> QED
    BY <1>2, <2>1, <2>2, <2>3
<1> QED
  BY <1>1, <1>2

LEMMA HitStep ==
    ASSUME IInv, [Next]_vars
    PROVE  HitBacked'
<1> SUFFICES ASSUME NEW r \in Requests, verdict'[r] = "hit"
             PROVE  \E q \in Requests : /\ verdict'[q] = "verified"
                                        /\ gen'[q] = gen'[r]
                                        /\ cred'[q] = cred'[r]
                                        /\ at'[r] < at'[q] + TTL
  BY DEF HitBacked
<1>1. CASE verdict[r] # "none"
  <2>1. UNCHANGED <<verdict[r], gen[r], cred[r], at[r]>>
    BY <1>1, Frozen
  <2>2. PICK q \in Requests : /\ verdict[q] = "verified"
                              /\ gen[q] = gen[r]
                              /\ cred[q] = cred[r]
                              /\ at[r] < at[q] + TTL
    BY <2>1 DEF IInv, HitBacked
  <2> QED
    BY <2>1, <2>2, StaysVerified
<1>2. CASE verdict[r] = "none"
  <2>1. Peek(r) \/ Repeek(r)
    <3>1. verdict \in [Requests -> Verdicts]
      BY DEF IInv, TypeOK
    <3>2. ASSUME NEW x \in Requests,
                 Arrive(x) \/ Step(x) \/ Acquire(x) \/ Cancel(x)
          PROVE  Peek(r) \/ Repeek(r)
      <4>1. verdict' # verdict
        BY <1>2
      <4>2. \/ Peek(x) \/ Repeek(x)
            \/ \E v \in {"denied", "verified"} : Decide(x, v)
        BY <3>2, <4>1
           DEF Step, Arrive, Acquire, Cancel, LoadState, RejectAnonymous,
               QueueUnknown, ReadClockToPeek, GiveUp, CompareDummy,
               ReadClockToRepeek, Compare, ReadClockToStore, Store, Release,
               ReadClock, Lookup, CompareWith, Move, Return
      <4>3. x = r
        BY <1>2, <3>1, <4>1, <4>2 DEF Peek, Repeek, Lookup, Move, Return, Decide
      <4> QED
        BY <3>1, <4>2, <4>3 DEF Decide
    <3> QED
      BY <1>2, <3>2 DEF Next, Reload, Tick, Quiet, vars
  <2>2. /\ pc[r] \in {"peek", "repeek"}
        /\ hit(Entry(r), Digest(r), at[r])
        /\ UNCHANGED <<gen, cred, at>>
    BY <1>2, <2>1 DEF Peek, Repeek, Lookup, Move, Return
  <2>3. gen[r] \in Generations /\ Name(r) \in Names /\ cred[r] # NoCred
    BY <2>2, KnownTypes DEF IInv, Located, Known
  <2>4. Entry(r) # EmptyEntry
    BY <2>2, BoundsAssumption DEF hit, EmptyEntry, IInv, TypeOK
  <2>5. PICK q \in Requests : /\ verdict[q] = "verified"
                              /\ gen[q] = gen[r]
                              /\ Name(q) = Name(r)
                              /\ Entry(r) = store(Digest(q), at[q])
    BY <2>3, <2>4 DEF IInv, EntryBacked, Entry
  <2>6. cred[q] # NoCred
    BY <2>5 DEF IInv, Judged, Accepts, Admitted
  <2>7. cred[q] = cred[r] /\ at[r] < at[q] + TTL
    BY <2>2, <2>3, <2>5, <2>6, DigestDetermines DEF hit, store, IInv
  <2> QED
    BY <2>2, <2>5, <2>7, StaysVerified
<1> QED
  BY <1>1, <1>2

LEMMA StepIInv == IInv /\ [Next]_vars => IInv'
  BY LocalStep, EntryStep, HitStep DEF IInv

THEOREM Inductive == Spec => []IInv
  BY InitIInv, StepIInv, PTL DEF Spec

(* The variables keep their types and the model its bounds, in every       *)
(* behaviour of authenticate, Reload and the clock.                         *)
THEOREM TypeCorrect == Spec => []TypeOK
<1>1. IInv => TypeOK
  BY DEF IInv
<1> QED
  BY <1>1, Inductive, PTL

(* For every set of configurations and every interleaving of requests with  *)
(* reloads: whoever is let in has a password of a configuration that was in *)
(* effect after the request arrived.                                        *)
THEOREM AdmissionSound == Spec => []AdmittedByConfigInEffect
<1>1. IInv => AdmittedByConfigInEffect
  <2> SUFFICES ASSUME IInv, NEW r \in Requests, verdict[r] \in Admitted
               PROVE  \E g \in since[r]..Len(loaded) : Accepts(loaded[g], cred[r])
    BY DEF AdmittedByConfigInEffect
  <2>1. Accepts(loaded[gen[r]], cred[r])
    BY DEF IInv, Judged, Users
  <2>2. pc[r] \in {"return", "done"}
    BY DEF IInv, Judged, Admitted
  <2>3. gen[r] \in since[r]..Len(loaded)
    BY <2>2 DEF IInv, Located
  <2> QED
    BY <2>1, <2>3
<1> QED
  BY <1>1, Inductive, PTL

(* Valid credentials are refused only to a request whose context is done.   *)
THEOREM RefusalJustified == Spec => []RefusedForCause
<1>1. IInv => RefusedForCause
  BY DEF IInv, Judged, RefusedForCause
<1> QED
  BY <1>1, Inductive, PTL

(* Every cache hit is covered, for any TTL, by a bcrypt comparison with the *)
(* same credentials in the same configuration less than TTL before it.      *)
THEOREM HitsBacked == Spec => []HitBacked
<1>1. IInv => HitBacked
  BY DEF IInv
<1> QED
  BY <1>1, Inductive, PTL

-----------------------------------------------------------------------------

Holders == {r \in Requests : pc[r] \in Holding}

(* Every request with a slot is counted once; no return leaks its slot.     *)
THEOREM SlotsConserved == Spec => []SlotsAccounted
<1> USE DEF SlotsAccounted
<1>1. Init => SlotsAccounted
  <2> SUFFICES ASSUME Init PROVE SlotsAccounted
    OBVIOUS
  <2>1. {r \in Requests : pc[r] \in Holding} = {}
    BY DEF Init, Holding
  <2> QED
    BY <2>1, FS_EmptySet, BoundsAssumption DEF Init
<1>2. TypeOK /\ SlotsAccounted /\ [Next]_vars => SlotsAccounted'
  <2> SUFFICES ASSUME TypeOK, SlotsAccounted, [Next]_vars
               PROVE  SlotsAccounted'
    OBVIOUS
  <2>0. /\ IsFiniteSet(Holders)
        /\ slots = Cardinality(Holders)
        /\ slots \in Nat
    BY FS_Subset, FS_CardinalityType, RequestsAssumption DEF Holders
  <2>1. ASSUME NEW r \in Requests, Acquire(r) PROVE SlotsAccounted'
    <3>1. r \notin Holders /\ Holders' = Holders \cup {r}
      BY <2>1 DEF Acquire, Holders, Holding, Goto, TypeOK
    <3>2. Cardinality(Holders') = Cardinality(Holders) + 1
      BY <2>0, <3>1, FS_AddElement
    <3> QED
      BY <2>0, <2>1, <3>2, BoundsAssumption DEF Acquire, Holders
  <2>2. ASSUME NEW r \in Requests, Release(r) PROVE SlotsAccounted'
    <3>1. r \in Holders /\ Holders' = Holders \ {r}
      BY <2>2 DEF Release, Holders, Holding, Goto, TypeOK
    <3>2. Cardinality(Holders') = Cardinality(Holders) - 1
      BY <2>0, <3>1, FS_RemoveElement
    <3> QED
      BY <2>0, <2>2, <3>2, BoundsAssumption DEF Release, Holders
  <2>3. ASSUME UNCHANGED slots, Holders' = Holders PROVE SlotsAccounted'
    BY <2>3 DEF Holders
  <2>4. ASSUME NEW r \in Requests, Step(r), ~Release(r)
        PROVE  UNCHANGED slots /\ Holders' = Holders
    BY <2>4 DEF Step, LoadState, RejectAnonymous, QueueUnknown,
                ReadClockToPeek, Peek, GiveUp, CompareDummy,
                ReadClockToRepeek, Repeek, Compare, ReadClockToStore, Store,
                ReadClock, Lookup, CompareWith, Move, Return,
                Goto, Holders, Holding, TypeOK
  <2>5. ASSUME NEW r \in Requests, Arrive(r) \/ Cancel(r)
        PROVE  UNCHANGED slots /\ Holders' = Holders
    BY <2>5 DEF Arrive, Cancel, Goto, Holders, Holding, TypeOK
  <2>6. ASSUME Reload \/ Tick \/ UNCHANGED vars
        PROVE  UNCHANGED slots /\ Holders' = Holders
    BY <2>6 DEF Reload, Tick, vars, Holders
  <2> QED
    BY <2>1, <2>2, <2>3, <2>4, <2>5, <2>6 DEF Next, Quiet
<1> QED
  BY <1>1, <1>2, TypeCorrect, PTL DEF Spec

-----------------------------------------------------------------------------

(* authenticate implements AuthPolicy: what decides a request is the        *)
(* configuration that it loaded, and every other step, of the cache, the    *)
(* slots or the clock, is a stutter.                                        *)
THEOREM RefinesPolicy == Spec => ImplementsPolicy
<1>1. Init => Policy!Init
  BY DEF Init, Policy!Init, Phase, Outcome
<1>2. IInv /\ [Next]_vars => [Policy!Next]_Policy!vars
  <2> SUFFICES ASSUME IInv, [Next]_vars
               PROVE  [Policy!Next]_Policy!vars
    OBVIOUS
  <2> DEFINE phase == [r \in Requests |-> Phase(pc[r])]
             answer == [r \in Requests |-> Outcome(pc[r], verdict[r])]
  <2> USE DEF IInv, TypeOK, Phase, Outcome, Goto, Decide, PC
  <2>1. ASSUME NEW r \in Requests, Arrive(r) PROVE Policy!Arrive(r)
    BY <2>1 DEF Arrive, Policy!Arrive
  <2>2. ASSUME NEW r \in Requests, LoadState(r) PROVE Policy!Bind(r)
    BY <2>2 DEF LoadState, Policy!Bind
  <2>3. ASSUME NEW r \in Requests, Cancel(r)
        PROVE  Policy!Cancel(r)
    BY <2>3 DEF Cancel, Active, Policy!Cancel
  <2>4. ASSUME Reload PROVE Policy!Reload
    <3>1. UNCHANGED phase /\ UNCHANGED answer
      BY <2>4 DEF Reload
    <3>2. /\ Len(loaded) < MaxGenerations
          /\ \E c \in Configs : loaded' = Append(loaded, c)
          /\ UNCHANGED <<cred, gen, cancelled>>
      <4> HIDE DEF TypeOK, IInv
      <4> QED
        BY <2>4 DEF Reload
    <3> QED
      BY <3>1, <3>2 DEF Policy!Reload
  <2>5. ASSUME NEW r \in Requests, pc[r] \in Active \ {"arrived"},
               Goto(r, "done"), UNCHANGED <<loaded, cred, gen, cancelled>>,
               \A q \in Requests \ {r} : verdict'[q] = verdict[q]
        PROVE  Policy!Admit(r) \/ Policy!Refuse(r)
    <3>1. \A a : answer' = [answer EXCEPT ![r] = a] => Policy!Answer(r, a)
      <4>1. phase[r] = "bound" /\ phase' = [phase EXCEPT ![r] = "done"]
        BY <2>5 DEF Active
      <4> QED
        BY <2>5, <4>1 DEF Policy!Answer
    <3>2. Users(r)' = Users(r) /\ pc'[r] = "done"
      BY <2>5 DEF Users
    <3>3. /\ verdict'[r] \in Verdicts \ {"none"}
          /\ verdict'[r] \in Admitted => Accepts(Users(r), cred[r])
          /\ verdict'[r] = "denied" => cancelled[r] \/ ~Accepts(Users(r), cred[r])
      <4>1. Judged'
        BY LocalStep
      <4>2. verdict'[r] \in Verdicts
        BY LocalStep
      <4>3. /\ verdict'[r] # "none"
            /\ verdict'[r] \in Admitted => Accepts(Users(r)', cred'[r])
            /\ verdict'[r] = "denied" =>
                  cancelled'[r] \/ ~Accepts(Users(r)', cred'[r])
        BY <3>2, <4>1 DEF Judged, Accepts
      <4> QED
        BY <2>5, <3>2, <4>2, <4>3
    <3>4. CASE verdict'[r] \in Admitted
      <4>1. answer' = [answer EXCEPT ![r] = "admitted"]
        BY <2>5, <3>4 DEF Active
      <4>2. Policy!Valid(loaded[gen[r]], cred[r])
        BY <3>3, <3>4 DEF Policy!Valid, Accepts, Users
      <4> QED
        BY <3>1, <4>1, <4>2 DEF Policy!Admit
    <3>5. CASE verdict'[r] \notin Admitted
      <4>1. answer' = [answer EXCEPT ![r] = "denied"]
        BY <2>5, <3>5 DEF Active
      <4>2. verdict'[r] = "denied"
        BY <3>3, <3>5 DEF Verdicts
      <4>3. ~Policy!Valid(loaded[gen[r]], cred[r]) \/ cancelled[r]
        BY <3>3, <4>2 DEF Policy!Valid, Accepts, Users
      <4> QED
        BY <3>1, <4>1, <4>3 DEF Policy!Refuse
    <3> QED
      BY <3>4, <3>5
  <2>6. ASSUME NEW r \in Requests, pc[r] \in Active \ {"arrived"},
               NEW l \in Active \ {"arrived"}, Goto(r, l),
               UNCHANGED <<loaded, cred, gen, cancelled>>,
               \A q \in Requests \ {r} : verdict'[q] = verdict[q]
        PROVE  UNCHANGED Policy!vars
    <3>1. UNCHANGED phase /\ UNCHANGED answer
      BY <2>6 DEF Active
    <3> QED
      BY <2>6, <3>1 DEF Policy!vars
  <2>7. ASSUME NEW r \in Requests, Step(r) \/ Acquire(r), ~LoadState(r)
        PROVE  /\ pc[r] \in Active \ {"arrived"}
               /\ \E l \in PC \ {"new", "arrived"} : Goto(r, l)
               /\ UNCHANGED <<loaded, cred, gen, cancelled>>
               /\ \A q \in Requests \ {r} : verdict'[q] = verdict[q]
    BY <2>7
       DEF Step, Acquire, RejectAnonymous, QueueUnknown, ReadClockToPeek,
           Peek, GiveUp, CompareDummy, ReadClockToRepeek, Repeek, Compare,
           ReadClockToStore, Store, Release, ReadClock, Lookup, CompareWith,
           Move, Return, Active
  <2>8. ASSUME NEW r \in Requests, Step(r) \/ Acquire(r), ~LoadState(r)
        PROVE  Policy!Admit(r) \/ Policy!Refuse(r) \/ UNCHANGED Policy!vars
    <3>1. PICK l \in PC \ {"new", "arrived"} : Goto(r, l)
      BY <2>7, <2>8
    <3>2. CASE l = "done"
      BY <2>5, <2>7, <2>8, <3>1, <3>2
    <3>3. CASE l # "done"
      BY <2>6, <2>7, <2>8, <3>1, <3>3 DEF Active
    <3> QED
      BY <3>2, <3>3
  <2>9. CASE Tick \/ UNCHANGED vars
    BY <2>9 DEF Tick, vars, Policy!vars
  <2> QED
    BY <2>1, <2>2, <2>3, <2>4, <2>8, <2>9 DEF Next, Step, Quiet, Policy!Next
<1> QED
  BY <1>1, <1>2, Inductive, PTL DEF Spec, ImplementsPolicy, Policy!Spec
=============================================================================
