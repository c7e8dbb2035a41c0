----------------------------- MODULE ReadThrough -----------------------------
(***************************************************************************)
(* What etcd.Discovery promises those who call Discover: a read-through    *)
(* cache.  An answer is taken in one step, either from the cache or, when  *)
(* nobody else is doing so for the same service, from the registry as it   *)
(* is at that instant; the entry is then stored, and until it is no event  *)
(* of the service comes between.  Events only bring an entry forward; what *)
(* can take it back is LoadAll, which stores the services of one instant.  *)
(* There is no lock, watcher or watch stream here, and a miss is no more   *)
(* than the choice of the second kind of answer.                           *)
(***************************************************************************)
EXTENDS Naturals, Sequences

CONSTANTS Srvs, Lookups, None

VARIABLES
  log,      \* the history of the registry: log[r] is the change of revision r
  cached,   \* the revision cached of each service, 0 if none
  answer,   \* the service and the revision each Discover answers, or None
  storing,  \* the Discovers that have read the registry and not yet stored
  snapshot  \* {rev} while a LoadAll stores the registry of revision rev

vars == <<log, cached, answer, storing, snapshot>>

Init ==
  /\ log = <<>>
  /\ cached = [s \in Srvs |-> 0]
  /\ answer = [c \in Lookups |-> None]
  /\ storing = {}
  /\ snapshot = {}

Changes(s) == {r \in 1 .. Len(log) : log[r].srv = s}
IsPut(r)   == log[r].kind = "put"
Stored(s)  == \A c \in storing : answer[c].srv # s

Answers(c, s, r) ==
  /\ answer[c] = None
  /\ answer' = [answer EXCEPT ![c] = [srv |-> s, rev |-> r]]

Write(s, k) ==
  /\ log' = Append(log, [srv |-> s, kind |-> k])
  /\ UNCHANGED <<cached, answer, storing, snapshot>>

FromCache(c, s) ==
  /\ cached[s] # 0
  /\ Answers(c, s, cached[s])
  /\ UNCHANGED <<log, cached, storing, snapshot>>

FromRegistry(c, s) ==
  /\ Stored(s)
  /\ \E r \in Changes(s) :
       /\ \A q \in Changes(s) : q <= r
       /\ IsPut(r)
       /\ Answers(c, s, r)
  /\ storing' = storing \cup {c}
  /\ UNCHANGED <<log, cached, snapshot>>

Store(c) ==
  /\ c \in storing
  /\ cached' = [cached EXCEPT ![answer[c].srv] = answer[c].rev]
  /\ storing' = storing \ {c}
  /\ UNCHANGED <<log, answer, snapshot>>

\* The watcher's next event of s: a value, or a delete or what does not decode.
Event(s) ==
  /\ Stored(s)
  /\ \E r \in Changes(s) :
       /\ r >= cached[s]
       /\ cached' = [cached EXCEPT ![s] = IF IsPut(r) THEN r ELSE 0]
  /\ UNCHANGED <<log, answer, storing, snapshot>>

\* LoadAll reads the whole registry, one LoadAll at a time,
Snapshot ==
  /\ snapshot = {}
  /\ snapshot' = {Len(log)}
  /\ UNCHANGED <<log, cached, answer, storing>>

\* stores the services of that instant, whatever has been cached since,
Load(s) ==
  /\ \E rev \in snapshot, r \in Changes(s) :
       /\ r <= rev
       /\ \A q \in Changes(s) : q <= rev => q <= r
       /\ IsPut(r)
       /\ cached' = [cached EXCEPT ![s] = r]
  /\ snapshot' \in {snapshot, {}}
  /\ UNCHANGED <<log, answer, storing>>

\* and ends.
Loaded ==
  /\ snapshot' = {}
  /\ UNCHANGED <<log, cached, answer, storing>>

\* The watcher ends.
Forget ==
  /\ cached' = [s \in Srvs |-> 0]
  /\ UNCHANGED <<log, answer, storing, snapshot>>

Next ==
  \/ \E s \in Srvs, k \in {"put", "junk", "delete"} : Write(s, k)
  \/ \E c \in Lookups, s \in Srvs : FromCache(c, s) \/ FromRegistry(c, s)
  \/ \E c \in Lookups : Store(c)
  \/ \E s \in Srvs : Event(s) \/ Load(s)
  \/ Snapshot \/ Loaded \/ Forget

Spec == Init /\ [][Next]_vars
=============================================================================
