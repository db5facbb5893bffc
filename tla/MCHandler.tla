----------------------------- MODULE MCHandler ------------------------------
\* Two programs; usergroup.library does not know the second one at first.
EXTENDS Handler
CONSTANTS p, q, self

Cred(u, m) == [uid |-> u, umask |-> m]

MCCredentials == {Cred(1, "m1"), Cred(2, "m2"), None}

MCInitCreds == (self :> Cred(1, "m1")) @@ (p :> Cred(1, "m1")) @@ (q :> None)

MCNewCreds == [t \in {p, q, self} |-> Cred(2, "m2")]

=============================================================================
