-------------------------------- MODULE Auth --------------------------------
(***************************************************************************)
(* Basic authentication while the configuration is being reloaded:        *)
(* Server.authenticate with the per-user authCache, the bcrypt slots and   *)
(* the atomic pointer Server.state that Reload swaps.                      *)
(*                                                                         *)
(* One element of Requests is one request, handled by one goroutine.  A    *)
(* step of a request is what it does between two points at which another   *)
(* goroutine can run: the clock is read before the mutex of the cache is   *)
(* taken, the cache is looked up before the slot is acquired, and so on.   *)
(*                                                                         *)
(* A configuration is the map `users` of a state: it sends a name to the   *)
(* passwords its hash accepts.  bcrypt reads at most 72 bytes, so a hash   *)
(* may accept several passwords.                                           *)
(***************************************************************************)
EXTENDS Integers, FiniteSets, Sequences

CONSTANTS
    Requests,        \* the requests that may arrive
    Names,           \* user names a request may carry
    Passwords,       \* passwords a request may carry
    Configs,         \* configurations that a (re)load may produce
    Credentials,     \* the Basic credentials in use
    BcryptSlots,     \* capacity of the channel bcryptSlots
    TTL,             \* authCacheTTL, in ticks of the clock
    MaxClock,        \* bound on the clock
    MaxGenerations   \* bound on the number of loaded configurations

ASSUME ConfigsAssumption ==
    \A c \in Configs : /\ DOMAIN c \subseteq Names
                       /\ \A n \in DOMAIN c : c[n] \subseteq Passwords
ASSUME CredentialsAssumption ==
    Credentials \subseteq [name : Names, password : Passwords]
ASSUME BoundsAssumption ==
    /\ BcryptSlots \in Nat \ {0}
    /\ TTL \in Nat
    /\ MaxClock \in Nat
    /\ MaxGenerations \in Nat \ {0}
ASSUME RequestsAssumption == IsFiniteSet(Requests)

VARIABLES
    loaded,      \* loaded[g] is the configuration of generation g; the pointer
                 \* Server.state points at the last one
    cache,       \* cache[g][n]: the authCache of user n in generation g
    slots,       \* number of elements in the channel bcryptSlots
    clock,       \* time.Now()
    pc,          \* where each request is
    cred,        \* the credentials it carries
    since,       \* history: the generation in effect when it arrived
    gen,         \* the generation that it loaded
    at,          \* the clock reading it uses next, or used last
    cancelled,   \* its context is done
    verdict      \* what authenticate returns

shared == <<loaded, cache, slots, clock>>
request == <<cred, since, gen, cancelled>>
vars == <<shared, request, pc, at, verdict>>

Generations == 1..MaxGenerations

\* No Authorization header, or one that r.BasicAuth cannot parse.
NoCred == [name |-> "", password |-> ""]

\* The digest depends on the authKey drawn by the load that made the state.
passwordDigest(g, p) == <<g, p>>
NoDigest == <<>>
Digests == (Generations \X Passwords) \cup {NoDigest}

Entries == [digest : Digests, expires : Nat]
EmptyEntry == [digest |-> NoDigest, expires |-> 0]

\* Mutant: the lookup forgets to compare the digests.
hitAnyPassword(entry, digest, now) == now < entry.expires
\* Mutant: the entry is still good at the moment at which it expires.
hitAtExpiry(entry, digest, now) == now <= entry.expires /\ entry.digest = digest

hit(entry, digest, now) == now < entry.expires /\ entry.digest = digest
\* Mutant: the sign of the TTL.
storeExpired(digest, now) == [digest |-> digest, expires |-> now - TTL]

store(digest, now) == [digest |-> digest, expires |-> now + TTL]

PC == {"new", "arrived", "loaded", "peek", "queued", "slot", "repeek",
       "compare", "verified", "store", "return", "done"}
\* Between the successful send to bcryptSlots and the deferred receive.
Holding == {"slot", "repeek", "compare", "verified", "store", "return"}
Active == PC \ {"new", "done"}
Admitted == {"hit", "verified"}
Verdicts == {"none", "denied"} \cup Admitted

Name(r) == cred[r].name
Password(r) == cred[r].password
Users(r) == loaded[gen[r]]
Known(r) == cred[r] # NoCred /\ Name(r) \in DOMAIN Users(r)
Digest(r) == passwordDigest(gen[r], Password(r))
Entry(r) == cache[gen[r]][Name(r)]

\* CompareHashAndPassword(u.hash, password) succeeds in configuration c.
Accepts(c, k) == /\ k # NoCred
                 /\ k.name \in DOMAIN c
                 /\ k.password \in c[k.name]

-----------------------------------------------------------------------------

Init ==
    /\ loaded \in {<<c>> : c \in Configs}
    /\ cache = [g \in Generations |-> [n \in Names |-> EmptyEntry]]
    /\ slots = 0
    /\ clock = 0
    /\ pc = [r \in Requests |-> "new"]
    /\ cred = [r \in Requests |-> NoCred]
    /\ since = [r \in Requests |-> 0]
    /\ gen = [r \in Requests |-> 0]
    /\ at = [r \in Requests |-> 0]
    /\ cancelled = [r \in Requests |-> FALSE]
    /\ verdict = [r \in Requests |-> "none"]

Goto(r, label) == pc' = [pc EXCEPT ![r] = label]
Decide(r, v) == verdict' = [verdict EXCEPT ![r] = v]

\* A step of r that changes nothing but where it is ...
Move(r, here, next) ==
    /\ pc[r] = here
    /\ Goto(r, next)
    /\ UNCHANGED <<shared, request, at, verdict>>

\* ... and one that fixes what authenticate returns.
Return(r, here, next, v) ==
    /\ pc[r] = here
    /\ Decide(r, v)
    /\ Goto(r, next)
    /\ UNCHANGED <<shared, request, at>>

\* net/http hands the request to ServeHTTP.
Arrive(r) ==
    /\ pc[r] = "new"
    /\ \E k \in Credentials \cup {NoCred} : cred' = [cred EXCEPT ![r] = k]
    /\ since' = [since EXCEPT ![r] = Len(loaded)]
    /\ Goto(r, "arrived")
    /\ UNCHANGED <<shared, gen, at, cancelled, verdict>>

\* st := s.state.Load()
LoadState(r) ==
    /\ pc[r] = "arrived"
    /\ gen' = [gen EXCEPT ![r] = Len(loaded)]
    /\ Goto(r, "loaded")
    /\ UNCHANGED <<shared, cred, since, at, cancelled, verdict>>

\* No credentials: authenticate returns nil at once.
RejectAnonymous(r) == cred[r] = NoCred /\ Return(r, "loaded", "done", "denied")

\* A name that is not configured has no cache and queues for the dummy compare.
QueueUnknown(r) ==
    /\ Move(r, "loaded", "queued")
    /\ cred[r] # NoCred
    /\ ~Known(r)

\* time.Now() is evaluated before hit or store takes the mutex of the cache.
ReadClock(r, here, next) ==
    /\ pc[r] = here
    /\ Known(r)
    /\ at' = [at EXCEPT ![r] = clock]
    /\ Goto(r, next)
    /\ UNCHANGED <<shared, request, verdict>>

ReadClockToPeek(r) == ReadClock(r, "loaded", "peek")
ReadClockToRepeek(r) == ReadClock(r, "slot", "repeek")
ReadClockToStore(r) == ReadClock(r, "verified", "store")

Lookup(r, here, onHit, onMiss) ==
    /\ pc[r] = here
    /\ \/ hit(Entry(r), Digest(r), at[r]) /\ Return(r, here, onHit, "hit")
       \/ ~hit(Entry(r), Digest(r), at[r]) /\ Move(r, here, onMiss)

\* The first lookup: a hit returns the user without a slot.
Peek(r) == Lookup(r, "peek", "done", "queued")

\* The select: case s.bcryptSlots <- struct{}{}.
Acquire(r) ==
    /\ pc[r] = "queued"
    /\ slots < BcryptSlots
    /\ slots' = slots + 1
    /\ Goto(r, "slot")
    /\ UNCHANGED <<loaded, cache, clock, request, at, verdict>>

\* Mutant: the select has a default case instead.
GiveUpWhenFull(r) == slots = BcryptSlots /\ Return(r, "queued", "done", "denied")

\* The select: case <-r.Context().Done().
GiveUp(r) == cancelled[r] /\ Return(r, "queued", "done", "denied")

\* Mutant: the slot is released after the comparison with the user's hash only.
CompareDummyLeaks(r) == Return(r, "slot", "done", "denied") /\ ~Known(r)

\* The comparison with dummyHash, whose result is ignored.
CompareDummy(r) == Return(r, "slot", "return", "denied") /\ ~Known(r)

\* Mutant: the release is deferred after the second lookup.
RepeekLeaks(r) == Lookup(r, "repeek", "done", "compare")

\* The second lookup, now with a slot.
Repeek(r) == Lookup(r, "repeek", "return", "compare")

CompareWith(r, users) ==
    /\ pc[r] = "compare"
    /\ \/ Accepts(users, cred[r]) /\ Move(r, "compare", "verified")
       \/ ~Accepts(users, cred[r]) /\ Return(r, "compare", "return", "denied")

\* Mutant: the state is loaded anew for the comparison.
CompareLatest(r) == CompareWith(r, loaded[Len(loaded)])

\* The comparison with the hash of the user.
Compare(r) == CompareWith(r, Users(r))

\* u.cache.store(digest, now)
Store(r) ==
    /\ pc[r] = "store"
    /\ cache' = [cache EXCEPT ![gen[r]][Name(r)] = store(Digest(r), at[r])]
    /\ Decide(r, "verified")
    /\ Goto(r, "return")
    /\ UNCHANGED <<loaded, slots, clock, request, at>>

\* The deferred <-s.bcryptSlots, on every return after the select.
Release(r) ==
    /\ pc[r] = "return"
    /\ slots' = slots - 1
    /\ Goto(r, "done")
    /\ UNCHANGED <<loaded, cache, clock, request, at, verdict>>

\* The client goes away, or the read deadline of serve expires.
Cancel(r) ==
    /\ pc[r] \in Active
    /\ ~cancelled[r]
    /\ cancelled' = [cancelled EXCEPT ![r] = TRUE]
    /\ UNCHANGED <<shared, pc, cred, since, gen, at, verdict>>

\* newState succeeds and s.state.Swap installs it: new users, empty caches.
Reload ==
    /\ Len(loaded) < MaxGenerations
    /\ \E c \in Configs : loaded' = Append(loaded, c)
    /\ cache' = [cache EXCEPT ![Len(loaded) + 1] = [n \in Names |-> EmptyEntry]]
    /\ UNCHANGED <<slots, clock, pc, request, at, verdict>>

Tick ==
    /\ clock < MaxClock
    /\ clock' = clock + 1
    /\ UNCHANGED <<loaded, cache, slots, pc, request, at, verdict>>

\* Every request is answered; whatever else stops is a deadlock.
Quiet ==
    /\ \A r \in Requests : pc[r] = "done"
    /\ UNCHANGED vars

\* What the goroutine of r does by itself, the select aside.
Step(r) ==
    \/ LoadState(r) \/ RejectAnonymous(r) \/ QueueUnknown(r)
    \/ ReadClockToPeek(r) \/ Peek(r)
    \/ GiveUp(r)
    \/ CompareDummy(r)
    \/ ReadClockToRepeek(r) \/ Repeek(r)
    \/ Compare(r)
    \/ ReadClockToStore(r) \/ Store(r)
    \/ Release(r)

Next ==
    \/ \E r \in Requests : Arrive(r) \/ Step(r) \/ Acquire(r) \/ Cancel(r)
    \/ Reload
    \/ Tick
    \/ Quiet

Spec == Init /\ [][Next]_vars

\* The scheduler runs every goroutine that can run, and the runtime serves the
\* senders blocked on a channel in the order they came, so none of them is
\* passed over for ever.  Nothing makes a request arrive, a context end, the
\* operator reload or, here, the clock tick.
Fairness ==
    \A r \in Requests : WF_vars(Step(r)) /\ SF_vars(Acquire(r))

FairSpec == Spec /\ Fairness

-----------------------------------------------------------------------------

(* Every variable stays in its type; the bounds of the model are respected. *)
TypeOK ==
    /\ loaded \in Seq(Configs)
    /\ Len(loaded) \in Generations
    /\ cache \in [Generations -> [Names -> Entries]]
    /\ slots \in Int
    /\ clock \in 0..MaxClock
    /\ pc \in [Requests -> PC]
    /\ cred \in [Requests -> Credentials \cup {NoCred}]
    /\ since \in [Requests -> 0..MaxGenerations]
    /\ gen \in [Requests -> 0..MaxGenerations]
    /\ at \in [Requests -> 0..MaxClock]
    /\ cancelled \in [Requests -> BOOLEAN]
    /\ verdict \in [Requests -> Verdicts]

(* The channel holds one element for each request between the select and   *)
(* the deferred receive, whichever of the returns of authenticate it takes, *)
(* and never more than its capacity: no slot leaks and no comparison runs   *)
(* without one.                                                             *)
SlotsAccounted ==
    /\ slots = Cardinality({r \in Requests : pc[r] \in Holding})
    /\ slots <= BcryptSlots

(* A request is let in only with a password that a hash accepts, of a       *)
(* configuration that was in effect between its arrival and now.  A         *)
(* password removed by a reload before the request arrived is useless,      *)
(* whatever the caches still hold and however long the request queues.      *)
AdmittedByConfigInEffect ==
    \A r \in Requests :
        verdict[r] \in Admitted =>
            \E g \in since[r]..Len(loaded) : Accepts(loaded[g], cred[r])

(* Valid credentials are refused only to a request whose context is done:   *)
(* a stale or foreign digest, an overwritten cache entry or a race for the  *)
(* slots never turns a correct password into a 401.                         *)
RefusedForCause ==
    \A r \in Requests :
        verdict[r] = "denied" =>
            cancelled[r] \/ ~Accepts(Users(r), cred[r])

(* A cache hit is backed by a comparison that some request with the same    *)
(* credentials and the same configuration made itself less than authCacheTTL *)
(* before: hits do not extend an entry, concurrent stores do not mix a      *)
(* digest with the expiry of another, and a reload forgets.                 *)
HitBacked ==
    \A r \in Requests :
        verdict[r] = "hit" =>
            \E q \in Requests :
                /\ verdict[q] = "verified"
                /\ gen[q] = gen[r]
                /\ cred[q] = cred[r]
                /\ at[r] < at[q] + TTL

(* The refinement mapping to AuthPolicy.                                    *)
Phase(l) == CASE l \in {"new", "arrived", "done"} -> l [] OTHER -> "bound"
Outcome(l, v) == IF l # "done" THEN "none"
                 ELSE IF v \in Admitted THEN "admitted" ELSE "denied"

Policy == INSTANCE AuthPolicy WITH
    phase <- [r \in Requests |-> Phase(pc[r])],
    answer <- [r \in Requests |-> Outcome(pc[r], verdict[r])]

(* Cache, slots, clock and the interleaving of requests with reloads cannot *)
(* be seen from outside: every behaviour is one of AuthPolicy.              *)
ImplementsPolicy == Policy!Spec

(* Every request that arrives is answered, however many others, with bad    *)
(* passwords or unknown names, queue for the slots with it.                 *)
EveryRequestAnswered ==
    \A r \in Requests : pc[r] = "arrived" ~> pc[r] = "done"
=============================================================================
