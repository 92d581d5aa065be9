------------------------------- MODULE MCAuth -------------------------------
(* Auth with two requests and one reload.  At first the hash of alice       *)
(* accepts two passwords, so that requests with either share her cache      *)
(* entry; the reload may leave her one of them, and removes bob.            *)
EXTENDS Auth, TLC

MCRequests == {1, 2}
MCNames == {"alice", "bob"}
MCPasswords == {"old", "new"}
MCConfigs == {("alice" :> {"old", "new"}) @@ ("bob" :> {"old"}),
              "alice" :> {"new"}}
MCCredentials == [name : {"alice"}, password : MCPasswords]
                     \cup {[name |-> "bob", password |-> "old"]}
=============================================================================
