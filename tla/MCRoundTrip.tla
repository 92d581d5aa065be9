----------------------------- MODULE MCRoundTrip -----------------------------
(* RoundTrip with three servers and two redirects.  The statuses are one of *)
(* each kind that the code tells apart; the Proxy-Status headers have an    *)
(* error before, after and inside of quoted strings.                        *)
EXTENDS RoundTrip

MCMethods == {"GET", "PROPFIND"}
MCClientHeaders == {{"Authorization", "Cookie", "Range", "Content-Type"}}
MCOrigins == {"home", "cdn", "proxy"}
MCStatuses == {200, 302, 303, 401, 405, 407, 500, 503}
MCMaxRedirects == 2

Param(key, text, quoted) == [key |-> key, text |-> text, quoted |-> quoted]
Timeout == Param("error=", <<"timeout">>, FALSE)
TimeoutQuoted == Param("error=", <<"timeout">>, TRUE)
Refused == Param("error=", <<"word">>, FALSE)
LooksLikeError == Param("word", <<";", "error=", "timeout">>, TRUE)
Tricky == Param("word", <<"quote", ",", "backslash", "quote", ";", "error=">>, TRUE)

MCProxyStatuses ==
    {<<>>, <<<<Timeout>>>>, <<<<LooksLikeError>>>>, <<<<Tricky, TimeoutQuoted>>>>,
     <<<<Tricky>>, <<LooksLikeError, Refused>>>>, <<<<Refused>>, <<Timeout>>>>}
=============================================================================
