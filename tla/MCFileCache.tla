----------------------------- MODULE MCFileCache -----------------------------
(* Values for model checking FileCache. *)
EXTENDS FileCache

CONSTANT s1   \* a name without a dot, and the beginning of every other one

CutAtDot == [s \in Srvs |-> s1]
=============================================================================
