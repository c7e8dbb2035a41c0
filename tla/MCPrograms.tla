----------------------------- MODULE MCPrograms -----------------------------
EXTENDS Programs

CONSTANTS d1, d2  \* directories

Etcd(timeout, first) == [timeout |-> timeout, endpoints |-> <<first, "b">>]
MCConns == {Etcd(1, "a"), Etcd(1, "c"), Etcd(2, "a")}
MCBase  == [dir |-> d1, conn |-> Etcd(1, "a")]
=============================================================================
