------------------------------- MODULE Delivery -------------------------------
(***************************************************************************)
(* What a response promises the client that receives it, without buffers,  *)
(* goroutines, deadlines or statuses: the client gets content in order and *)
(* never more than there is, and if the response ends for it like a        *)
(* regular one then either no content was announced or it has all of it.   *)
(***************************************************************************)
EXTENDS Integers

VARIABLES
    promise,    \* "none" was announced, more may come ("open"), or what is
                \* offered is the "whole" content
    offered,    \* units of the content that are known so far
    delivered,  \* units that were sent to the client
    present,    \* the client holds its side of the connection open
    ending      \* how it sees the response end

vars == <<promise, offered, delivered, present, ending>>

Init ==
    /\ promise = "none"
    /\ offered = 0
    /\ delivered = 0
    /\ present = TRUE
    /\ ending = "none"

\* Content is announced, found or sent; what was announced as the whole stays.
\* After the end nothing is announced or sent.
Proceed ==
    /\ promise' \in {"none", "open", "whole"}
    /\ offered' \in Nat
    /\ delivered' \in Nat
    /\ promise = "whole" => UNCHANGED <<promise, offered>>
    /\ promise = "open" => promise' # "none"
    /\ promise' = "none" => offered' = 0
    /\ ending # "none" => UNCHANGED delivered /\ (promise = "none" => promise' = "none")
    /\ offered <= offered'
    /\ delivered <= delivered'
    /\ delivered' <= offered'
    /\ UNCHANGED <<present, ending>>

Leave ==
    /\ present' = FALSE
    /\ UNCHANGED <<promise, offered, delivered, ending>>

Cut ==
    /\ ending = "none"
    /\ ending' = "cut"
    /\ UNCHANGED <<promise, offered, delivered, present>>

Complete ==
    /\ ending = "none"
    /\ \/ promise = "none"
       \/ promise = "whole" /\ delivered = offered
       \/ ~present
    /\ ending' = "complete"
    /\ UNCHANGED <<promise, offered, delivered, present>>

Next == Proceed \/ Leave \/ Cut \/ Complete

Spec == Init /\ [][Next]_vars
=============================================================================
