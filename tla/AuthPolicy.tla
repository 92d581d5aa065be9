------------------------------ MODULE AuthPolicy ------------------------------
(***************************************************************************)
(* What authentication promises, without cache, slots or clock: a request  *)
(* is judged by the configuration in effect when it is looked at, once,    *)
(* and a valid request is refused only when its context is done.           *)
(***************************************************************************)
EXTENDS Naturals, Sequences

CONSTANTS Requests, Configs, Credentials, NoCred, MaxGenerations

VARIABLES loaded, phase, cred, gen, cancelled, answer

vars == <<loaded, phase, cred, gen, cancelled, answer>>

\* A hash of configuration c accepts the credentials k.
Valid(c, k) == k # NoCred /\ k.name \in DOMAIN c /\ k.password \in c[k.name]

Init ==
    /\ loaded \in {<<c>> : c \in Configs}
    /\ phase = [r \in Requests |-> "new"]
    /\ cred = [r \in Requests |-> NoCred]
    /\ gen = [r \in Requests |-> 0]
    /\ cancelled = [r \in Requests |-> FALSE]
    /\ answer = [r \in Requests |-> "none"]

Arrive(r) ==
    /\ phase[r] = "new"
    /\ \E k \in Credentials \cup {NoCred} : cred' = [cred EXCEPT ![r] = k]
    /\ phase' = [phase EXCEPT ![r] = "arrived"]
    /\ UNCHANGED <<loaded, gen, cancelled, answer>>

\* From here on the request is bound to the configuration in effect now.
Bind(r) ==
    /\ phase[r] = "arrived"
    /\ gen' = [gen EXCEPT ![r] = Len(loaded)]
    /\ phase' = [phase EXCEPT ![r] = "bound"]
    /\ UNCHANGED <<loaded, cred, cancelled, answer>>

Answer(r, a) ==
    /\ phase[r] = "bound"
    /\ phase' = [phase EXCEPT ![r] = "done"]
    /\ answer' = [answer EXCEPT ![r] = a]
    /\ UNCHANGED <<loaded, cred, gen, cancelled>>

Admit(r) ==
    /\ Answer(r, "admitted")
    /\ Valid(loaded[gen[r]], cred[r])

Refuse(r) ==
    /\ Answer(r, "denied")
    /\ ~Valid(loaded[gen[r]], cred[r]) \/ cancelled[r]

Cancel(r) ==
    /\ phase[r] \in {"arrived", "bound"}
    /\ cancelled' = [cancelled EXCEPT ![r] = TRUE]
    /\ UNCHANGED <<loaded, phase, cred, gen, answer>>

Reload ==
    /\ Len(loaded) < MaxGenerations
    /\ \E c \in Configs : loaded' = Append(loaded, c)
    /\ UNCHANGED <<phase, cred, gen, cancelled, answer>>

Next ==
    \/ \E r \in Requests :
          Arrive(r) \/ Bind(r) \/ Admit(r) \/ Refuse(r) \/ Cancel(r)
    \/ Reload

Spec == Init /\ [][Next]_vars
=============================================================================
