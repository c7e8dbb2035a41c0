----------------------------- MODULE MCGenerator -----------------------------
EXTENDS Generator

MCProtos     == <<"p1", "p2">>
MCHome       == [p \in {"p1", "p2"} |-> "d"]
MCServicesOf == [p \in {"p1", "p2"} |-> IF p = "p1" THEN <<"s1">> ELSE <<"s2">>]
MCMethodsOf  == [s \in {"s1", "s2"} |-> IF s = "s1" THEN <<"m1">> ELSE <<>>]
MCEdited     == {<<"d", "boot.go">>}
=============================================================================
