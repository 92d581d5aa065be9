------------------------------- MODULE Propfind -------------------------------
(***************************************************************************)
(* davxml/propfind.go: what the body of a PROPFIND asks for, and the answer *)
(* about directories of the mux itself.                                    *)
(*                                                                         *)
(* A body is the sequence of the tokens that encoding/xml reads from it:   *)
(* "blank" is white space, "other" a comment or an instruction, and "error" *)
(* is last and stands for whatever is not XML.                             *)
(***************************************************************************)
EXTENDS SequencesExt

Token ==
    [t : {"end", "text", "blank", "other", "error"}]
    \cup [t : {"start"}, name : [space : STRING, local : STRING]]

\* Elements that are open after n tokens.
Level(body, n) ==
    Cardinality({i \in 1..n : body[i].t = "start"}) - Cardinality({i \in 1..n : body[i].t = "end"})

\* encoding/xml checks that every end has its start, and stops at an error.
Decodable(body) ==
    \A n \in 1..Len(body) :
        /\ Level(body, n) >= 0
        /\ body[n].t = "error" => n = Len(body)

DAV(local) == [space |-> "DAV:", local |-> local]

\* collectionProps, and what propValue makes of them.
collectionProps ==
    <<DAV("resourcetype"), DAV("displayname"), DAV("getlastmodified"), DAV("creationdate")>>

propValue(name) ==
    CASE name = DAV("resourcetype") -> "collection"
      [] name = DAV("displayname") -> "name"
      [] name \in {DAV("getlastmodified"), DAV("creationdate")} -> "loadedAt"
      [] OTHER -> "none"

-----------------------------------------------------------------------------
\* ParsePropfind.

\* Where it is: before the root, in propfind, in prop (childNames), or in an
\* element that is skipped, of which so many are open, to go on in back.
Beginning ==
    [at |-> "start", open |-> 0, back |-> "start",
     kind |-> "allprop", names |-> <<>>, forms |-> 0]

Skip(p) == [p EXCEPT !.at = "skip", !.open = 1, !.back = p.at]

\* Mutant: the last form counts.
FormsAccepted(n) == n >= 1

OneForm(n) == n = 1

InPropfind(p, name) ==
    IF name \in {DAV("allprop"), DAV("propname")}
    THEN Skip([p EXCEPT !.kind = name.local, !.forms = @ + 1])
    ELSE IF name = DAV("prop")
    THEN [p EXCEPT !.at = "prop", !.kind = "prop", !.forms = @ + 1, !.names = <<>>]
    ELSE Skip(p)

OnStart(p, name) ==
    CASE p.at = "start" -> [p EXCEPT !.at = IF name = DAV("propfind") THEN "propfind" ELSE "bad"]
      [] p.at = "propfind" -> InPropfind(p, name)
      [] p.at = "prop" ->
           Skip([p EXCEPT !.names = IF Contains(@, name) THEN @ ELSE Append(@, name)])
      [] p.at = "skip" -> [p EXCEPT !.open = @ + 1]

OnEnd(p) ==
    CASE p.at = "propfind" -> [p EXCEPT !.at = IF OneForm(p.forms) THEN "good" ELSE "bad"]
      [] p.at = "prop" -> [p EXCEPT !.at = "propfind"]
      [] p.at = "skip" /\ p.open > 1 -> [p EXCEPT !.open = @ - 1]
      [] p.at = "skip" /\ p.open = 1 -> [p EXCEPT !.at = p.back, !.open = 0]

OnToken(p, token) ==
    IF p.at \in {"good", "bad"} THEN p
    ELSE CASE token.t = "start" -> OnStart(p, token.name)
           [] token.t = "end" -> OnEnd(p)
           [] token.t = "error" \/ (token.t = "text" /\ p.at = "start") -> [p EXCEPT !.at = "bad"]
           [] OTHER -> p

\* The kind of request and, for prop, the names; or that it is no propfind.
ParsePropfind(body) ==
    LET parsed[n \in 0..Len(body)] ==
            IF n = 0 THEN Beginning ELSE OnToken(parsed[n - 1], body[n])
        last == parsed[Len(body)]
    IN  IF \A i \in DOMAIN body : body[i].t = "blank"
        THEN [ok |-> TRUE, kind |-> "allprop", names |-> <<>>]
        ELSE [ok |-> last.at = "good", kind |-> last.kind, names |-> last.names]

-----------------------------------------------------------------------------
\* WriteCollections.

\* writePropstat, which writes nothing about no properties.
Propstat(names, status, values) ==
    LET value(name) == IF values THEN propValue(name) ELSE "none"
    IN  IF names = <<>> THEN <<>>
        ELSE <<[status |-> status,
                props |-> [i \in DOMAIN names |->
                              [name |-> names[i], value |-> value(names[i])]]]>>

Supported(name) == propValue(name) # "none"

\* The names that are supported, or those that are not, in their order.
Selected(names, supported) ==
    LET selected[i \in 0..Len(names)] ==
            IF i = 0 THEN <<>>
            ELSE IF Supported(names[i]) = supported THEN Append(selected[i - 1], names[i])
            ELSE selected[i - 1]
    IN  selected[Len(names)]

Propstats(pf) ==
    CASE pf.kind = "allprop" -> Propstat(collectionProps, 200, TRUE)
      [] pf.kind = "propname" -> Propstat(collectionProps, 200, FALSE)
      [] pf.kind = "prop" -> Propstat(Selected(pf.names, TRUE), 200, TRUE)
                             \o Propstat(Selected(pf.names, FALSE), 404, FALSE)

WriteCollections(cols, pf) ==
    [i \in DOMAIN cols |-> [href |-> cols[i].href, name |-> cols[i].name,
                            propstats |-> Propstats(pf)]]
=============================================================================
