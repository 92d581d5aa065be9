----------------------------- MODULE ProxyStatus -----------------------------
(***************************************************************************)
(* The Proxy-Status header (RFC 9209) and what proxyStatusError of         *)
(* downloadproxy.go reads in it.  A header is a sequence of tokens: the    *)
(* separators "," and ";", "quote" and "backslash", "error=" for the key   *)
(* that is looked for, "timeout" for any of the four types of error that   *)
(* are timeouts, and "word" for everything else.                           *)
(***************************************************************************)
EXTENDS SequencesExt

Tokens == {",", ";", "quote", "backslash", "error=", "timeout", "word"}

\* splitOutsideQuotes: the loop reads on from r; inside quotes a backslash
\* takes the next token with it.
ReadToken(r, c, sep) ==
    IF c = sep /\ ~r.quoted
    THEN [r EXCEPT !.parts = Append(@, <<>>)]
    ELSE [parts |-> [r.parts EXCEPT ![Len(r.parts)] = Append(@, c)],
          escaped |-> r.quoted /\ ~r.escaped /\ c = "backslash",
          quoted |-> IF c = "quote" /\ ~r.escaped THEN ~r.quoted ELSE r.quoted]

ReadOn(r, s, sep) ==
    LET after[n \in 0..Len(s)] ==
            IF n = 0 THEN r ELSE ReadToken(after[n - 1], s[n], sep)
    IN  after[Len(s)]

splitOutsideQuotes(s, sep) ==
    ReadOn([parts |-> <<<<>>>>, quoted |-> FALSE, escaped |-> FALSE], s, sep).parts

\* clientStatus, as far as it depends on the type of the error.
errorKind(value) ==
    IF value \in {<<"timeout">>, <<"quote", "timeout", "quote">>} THEN "timeout" ELSE "other"

\* The first error parameter of any member; a member begins with the name of
\* a proxy.
proxyStatusError(s) ==
    LET members == splitOutsideQuotes(s, ",")
        params == FlattenSeq([i \in DOMAIN members |-> Tail(splitOutsideQuotes(members[i], ";"))])
        errors == {k \in DOMAIN params : params[k] # <<>> /\ Head(params[k]) = "error="}
    IN  IF errors = {} THEN "none" ELSE errorKind(Tail(params[Min(errors)]))

-----------------------------------------------------------------------------
\* The header as RFC 9209 means it: a list of members, each with parameters;
\* and how a proxy writes it.

Parameters ==
    [key : {"error=", "word"}, text : Seq(Tokens), quoted : {TRUE}]
    \cup [key : {"error=", "word"}, text : Seq(Tokens \ {",", ";", "quote"}), quoted : {FALSE}]

Escaped(text) ==
    FlattenSeq([i \in DOMAIN text |->
        IF text[i] \in {"quote", "backslash"} THEN <<"backslash", text[i]>> ELSE <<text[i]>>])

Written(p) ==
    <<p.key>> \o (IF p.quoted THEN <<"quote">> \o Escaped(p.text) \o <<"quote">> ELSE p.text)

Member(params) ==
    <<"word">> \o FlattenSeq([j \in DOMAIN params |-> <<";">> \o Written(params[j])])

Render(list) ==
    FlattenSeq([i \in DOMAIN list |->
        IF i = 1 THEN Member(list[i]) ELSE <<",">> \o Member(list[i])])

ReportedError(list) ==
    LET params == FlattenSeq(list)
        errors == {k \in DOMAIN params : params[k].key = "error="}
    IN  IF errors = {} THEN "none"
        ELSE IF params[Min(errors)].text = <<"timeout">> THEN "timeout" ELSE "other"
=============================================================================
