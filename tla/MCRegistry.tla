----------------------------- MODULE MCRegistry -----------------------------
(* Model values for Registry: two dialable addresses and one remote end.  *)
EXTENDS Registry

CONSTANTS b1, b2, r1

MCAddrs == {b1, b2}
MCRemotes == {r1}

\* --peers b1,b2
MCBootstrap == <<b1, b2>>

\* --peers b1,b1: the same address listed twice
MCBootstrapTwice == <<b1, b1>>
====
