----------------------------- MODULE MCMainLoop ------------------------------
(* MainLoop with files that differ in what a reload may and may not change. *)
EXTENDS MainLoop

Content(valid, listen, tls, users) ==
    [valid |-> valid, listen |-> listen, tls |-> tls, users |-> users]

MCAddresses == {"port 1", "port 2"}
MCUsers == {"old", "new"}
MCContents ==
    {Content(TRUE, "port 1", TRUE, "old"), Content(TRUE, "port 2", FALSE, "new"),
     Content(FALSE, "port 1", FALSE, "new")}
MCMaxPair == 2
MCMaxActive == 1
=============================================================================
