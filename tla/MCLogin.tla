------------------------------- MODULE MCLogin -------------------------------
(***************************************************************************)
(* Instances of Login for TLC.                                             *)
(***************************************************************************)
EXTENDS Login

Server(ver, caps, pass) ==
  [prot |-> 10, ver |-> ver, scram |-> <<ver, "rest">>, cap |-> caps,
   status |-> 2, pass |-> pass]

\* An old and a new server, one that knows another password, and one that can
\* do SSL.
MCGreeting == {Server("v5", {"db", "secure"}, "p"),
               Server("v8", {"db", "secure", "plugin"}, "p"),
               Server("v8b", {"db", "plugin"}, "q"),
               Server("v8s", {"db", "secure", "ssl"}, "p")}

\* Names of users, one of them longer than a login may have.
MCuser == Name("u", 1)
MCUser == {MCuser, Name("v", 1), Name("w", 128)}

MCCliScram == {<<"s1", "s2">>, <<"t1", "t2">>}
MCDbName == {NoName, Name("d", 5), Name("d", 64), Name("e", 128)}
MCDbNameLong == {Name("d", 64)}
MCStale == {NoName, PASSWORD_TYPE}
=============================================================================
